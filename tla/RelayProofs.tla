----------------------------- MODULE RelayProofs ----------------------------
(***************************************************************************)
(* Theorems about the receipt queue for every number of receipts, threads, *)
(* attempts and crashes: what the queue calls settled is settled, what it  *)
(* calls released has ended, its rows only advance, and no amount goes     *)
(* below zero.  And about the Relay that runs it, for every number of      *)
(* requests, Providers and keys: it does to its queue what RelaySettlement *)
(* has it do, gives every place back, owes what is under way, and admits   *)
(* more than a budget, a deposit or a cap allows only by what it could not *)
(* know.                                                                   *)
(***************************************************************************)
EXTENDS RelaySettlement, RelayHistory, SumTheorems, WellFoundedInduction

SettlePcs == {"batch", "batchSent", "one", "oneSent", "mark"}
ReleasePcs == {"release", "releaseSent", "markReleased"}
SentPcs == {"batchSent", "oneSent", "releaseSent"}

OnChain(r) == chain.status[r] \in Escrowed \cup {"ended"}

AnyRow == [state: RowStates, attempts: Nat, fee: Nat, created: Nat]
Worker == [pc: WorkerPcs, todo: SUBSET Receipts, done: SUBSET Receipts, tx: TxStates]
Transaction == [kind: {"settle", "release"}, items: SUBSET Receipts, by: Settlers \cup {NoOne}]

\* As much of TypeOK as the argument about rows needs; that amounts on the chain are naturals comes later, with sums.
Shape ==
  /\ rows \in [Receipts -> AnyRow]
  /\ workers \in [Settlers -> Worker]
  /\ DOMAIN chain = {"status", "balance", "spent", "active", "exposure"}
  /\ chain.status \in [Receipts -> ChainStates]
  /\ mempool \in Seq(Transaction)

\* A thread in settle_queued has the lock; what it took is queued, and what it is to mark is settled.
Settling(w) ==
  workers[w].pc \in SettlePcs =>
    /\ settleLock = w
    /\ \A r \in workers[w].todo \cup workers[w].done : rows[r].state = "queued"
    /\ \A r \in workers[w].done : OnChain(r)
    /\ workers[w].todo \cap workers[w].done = {}
    /\ workers[w].pc = "oneSent" => workers[w].todo # {}
    /\ workers[w].tx = "mined" => \A r \in Items(w) : OnChain(r)

\* A thread in release_due is the only one there, and what it took is still to be released.
Releasing(w) ==
  workers[w].pc \in ReleasePcs =>
    /\ w = Releaser
    /\ \A r \in workers[w].todo : rows[r].state = "settled"

Waiting(w) == workers[w].tx # "none" => workers[w].pc \in SentPcs

Thread(w) == Settling(w) /\ Releasing(w) /\ Waiting(w)

\* A transaction somebody waits for is the one it made, and the only one.
Watched(i) ==
  mempool[i].by # NoOne =>
    /\ workers[mempool[i].by].tx = "waiting"
    /\ mempool[i] = Submission(mempool[i].by)
    /\ \A j \in DOMAIN mempool : mempool[j].by = mempool[i].by => i = j

AllWatched == \A i \in DOMAIN mempool : Watched(i)

QueueInv == Shape /\ SettledOnChain /\ AllWatched /\ \A w \in Settlers : Thread(w)

-----------------------------------------------------------------------------
(* The oldest of a set of receipts *)

\* A batch that is not empty has an oldest receipt.
LEMMA FirstIn ==
  ASSUME NEW table \in [Receipts -> AnyRow], NEW S \in SUBSET Receipts, S # {}
  PROVE  AnyOf(Oldest(table, S)) \in S
<1> DEFINE T == {table[r].created : r \in S}
           Less == OpToRel(<, Nat)
<1>1. T \subseteq Nat /\ T # {}
  BY DEF AnyRow
<1>2. IsWellFoundedOn(Less, Nat)
  BY NatLessThanWellFounded
<1>3. \A y, z \in Nat : <<y, z>> \in Less <=> y < z
  BY DEF OpToRel
<1>4. PICK x \in T : \A y \in T : x <= y
  <2> HIDE DEF T, Less
  <2>1. PICK x \in T : \A y \in T : <<y, x>> \notin Less
    BY <1>1, <1>2, WFMin
  <2>2. \A y \in T : y \in Nat /\ x \in Nat /\ ~(y < x)
    BY <1>1, <1>3, <2>1
  <2> QED BY <2>2
<1>5. PICK r \in S : table[r].created = x
  BY <1>2
<1>6. r \in Oldest(table, S)
  BY <1>4, <1>5 DEF Oldest
<1>7. Oldest(table, S) \subseteq S
  BY DEF Oldest
<1>8. QED
  BY <1>6, <1>7 DEF AnyOf

\* Which is the oldest depends on nothing but when rows were made.
LEMMA SameOldest ==
  ASSUME NEW before, NEW after, NEW S, \A r \in S : before[r].created = after[r].created
  PROVE  Oldest(before, S) = Oldest(after, S)
BY DEF Oldest

\* A thread's items are among those it is to submit.
LEMMA ItemsIn ==
  ASSUME Shape, NEW w \in Settlers, workers[w].pc \in {"one", "oneSent"} => workers[w].todo # {}
  PROVE  /\ Items(w) \subseteq workers[w].todo
         /\ workers[w].pc \in {"one", "oneSent"} => Items(w) = {First(workers[w].todo)} /\ First(workers[w].todo) \in workers[w].todo
<1>1. workers[w].todo \in SUBSET Receipts
  BY DEF Shape, Worker
<1>2. QED
  BY <1>1, FirstIn DEF Items, First, Shape

\* What a thread submits stays the same while it and its rows do.
LEMMA SubmissionSame ==
  ASSUME NEW w, workers'[w].pc = workers[w].pc, workers'[w].todo = workers[w].todo,
         \A r \in workers[w].todo : rows[r].created = rows'[r].created
  PROVE  Items(w)' = Items(w) /\ Submission(w)' = Submission(w)
<1>1. Oldest(rows, workers[w].todo) = Oldest(rows', workers[w].todo)
  BY SameOldest
<1>2. First(workers[w].todo)' = First(workers[w].todo)
  BY <1>1 DEF First
<1>3. QED
  BY <1>2 DEF Items, Submission

LEMMA Senders ==
  ASSUME NEW q \in Seq(Transaction) PROVE \A i \in DOMAIN q : q[i].by \in Settlers \cup {NoOne}
<1>1. \A i \in DOMAIN q : q[i] \in Transaction
  OBVIOUS
<1>2. QED
  BY <1>1 DEF Transaction

-----------------------------------------------------------------------------
(* What a step leaves alone *)

StateKept(state) == \A r \in Receipts : rows[r].state = state => rows'[r].state = state
DatesKept == \A r \in Receipts : rows[r].state # "none" => rows'[r].created = rows[r].created
StillOnChain == \A r \in Receipts : OnChain(r) => OnChain(r)'

\* The step is none of the thread's, and touches neither its lock nor its rows; its transaction may be mined.
Undisturbed(w) ==
  /\ workers'[w].pc = workers[w].pc /\ workers'[w].todo = workers[w].todo /\ workers'[w].done = workers[w].done
  /\ workers'[w].tx # workers[w].tx =>
       /\ workers[w].tx # "none"
       /\ workers'[w].tx = "mined" /\ workers[w].pc \in SettlePcs => \A r \in Items(w) : OnChain(r)'
  /\ workers[w].pc \in SettlePcs => settleLock' = settleLock /\ StateKept("queued")
  /\ workers[w].pc \in ReleasePcs => StateKept("settled")

\* A thread that is left alone can go on, with the transaction it made.
LEMMA ThreadKept ==
  ASSUME Shape, NEW w \in Settlers, Thread(w), Undisturbed(w), DatesKept, StillOnChain
  PROVE  Thread(w)' /\ (workers[w].pc \in SentPcs => Submission(w)' = Submission(w))
<1>1. workers[w].todo \subseteq Receipts /\ workers[w].done \subseteq Receipts
  BY DEF Shape, Worker
<1>2. ASSUME workers[w].pc \in SettlePcs \cup ReleasePcs
      PROVE  Items(w)' = Items(w) /\ Submission(w)' = Submission(w)
  <2>1. \A r \in workers[w].todo : rows[r].state # "none"
    BY <1>2 DEF Thread, Settling, Releasing
  <2>2. \A r \in workers[w].todo : rows[r].created = rows'[r].created
    BY <1>1, <2>1 DEF DatesKept
  <2>3. QED
    BY <2>2, SubmissionSame DEF Undisturbed
<1>3. Settling(w)'
  <2> SUFFICES ASSUME workers[w].pc \in SettlePcs PROVE Settling(w)'
    BY DEF Settling, Undisturbed
  <2>1. Items(w)' = Items(w)
    BY <1>2
  <2>2. \A r \in workers[w].todo \cup workers[w].done : rows'[r].state = "queued"
    BY <1>1 DEF Thread, Settling, Undisturbed, StateKept
  <2>3. \A r \in workers[w].done : OnChain(r)'
    BY <1>1 DEF Thread, Settling, StillOnChain
  <2>4. ASSUME workers[w].tx = "mined" PROVE \A r \in Items(w) : OnChain(r)'
    <3>1. workers[w].pc \in SentPcs
      BY <2>4 DEF Thread, Waiting
    <3>2. Items(w) \subseteq Receipts
      BY <1>1, <3>1, ItemsIn DEF Thread, Settling, SentPcs
    <3>3. QED
      BY <2>4, <3>2 DEF Thread, Settling, StillOnChain
  <2>5. QED
    BY <2>1, <2>2, <2>3, <2>4 DEF Thread, Settling, Undisturbed
<1>4. Releasing(w)'
  BY <1>1 DEF Thread, Releasing, Undisturbed, StateKept
<1>5. Waiting(w)'
  BY DEF Thread, Waiting, Undisturbed
<1>6. QED
  BY <1>2, <1>3, <1>4, <1>5 DEF Thread, SentPcs, SettlePcs, ReleasePcs

\* Transactions that disappear, or that nobody waits for any more, leave the others watched.
LEMMA StillWatched ==
  ASSUME AllWatched, NEW from,
         \A i \in DOMAIN mempool', w \in Settlers : mempool'[i].by = w =>
            /\ from[i] \in DOMAIN mempool /\ mempool'[i] = mempool[from[i]]
            /\ workers[w].tx = "waiting" => workers'[w].tx = "waiting" /\ Submission(w)' = Submission(w),
         \A i \in DOMAIN mempool' : mempool'[i].by \in Settlers \cup {NoOne},
         \A i, j \in DOMAIN mempool' : from[i] = from[j] => i = j
  PROVE  AllWatched'
<1> SUFFICES ASSUME NEW i \in DOMAIN mempool', NEW w \in Settlers, mempool'[i].by = w PROVE Watched(i)'
  BY DEF AllWatched, Watched
<1>1. Watched(from[i]) /\ mempool[from[i]].by = w /\ w # NoOne
  BY QueueAssumption DEF AllWatched
<1>2. workers'[w].tx = "waiting" /\ mempool'[i] = Submission(w)'
  BY <1>1 DEF Watched
<1>3. ASSUME NEW j \in DOMAIN mempool', mempool'[j].by = w PROVE i = j
  BY <1>1, <1>3 DEF Watched
<1>4. QED
  BY <1>2, <1>3 DEF Watched

-----------------------------------------------------------------------------
(* A step of one thread *)

\* What a thread w may do to the rest: take or leave the lock, change rows it works on, forget its transaction.
OwnStep(w) ==
  /\ \A other \in Settlers \ {w} : workers'[other] = workers[other]
  /\ settleLock' = settleLock \/ settleLock \in {w, NoOne}
  /\ \A r \in Receipts :
       \/ rows'[r].state = rows[r].state
       \/ workers[w].pc \in SettlePcs /\ rows[r].state = "queued"
       \/ workers[w].pc \in ReleasePcs /\ rows[r].state = "settled"
  /\ DatesKept /\ chain' = chain
  /\ DOMAIN mempool' = DOMAIN mempool
  /\ \A i \in DOMAIN mempool : mempool'[i].by = NoOne \/ (mempool'[i] = mempool[i] /\ mempool[i].by # w)

\* The other threads notice nothing.
LEMMA OthersKept ==
  ASSUME QueueInv, NEW w \in Settlers, NEW other \in Settlers \ {w},
         workers'[other] = workers[other],
         settleLock' = settleLock \/ settleLock \in {w, NoOne},
         \A r \in Receipts :
           \/ rows'[r].state = rows[r].state
           \/ workers[w].pc \in SettlePcs /\ rows[r].state = "queued"
           \/ workers[w].pc \in ReleasePcs /\ rows[r].state = "settled",
         DatesKept, StillOnChain
  PROVE  Thread(other)' /\ (workers[other].tx = "waiting" => Submission(other)' = Submission(other))
<1>1. Thread(w) /\ Thread(other)
  BY DEF QueueInv
<1>2. workers[other].pc \in SettlePcs => settleLock = other /\ workers[w].pc \notin SettlePcs
  BY <1>1 DEF Thread, Settling
<1>3. workers[other].pc \in SettlePcs => settleLock' = settleLock /\ StateKept("queued")
  BY <1>2, QueueAssumption DEF StateKept
<1>4. workers[other].pc \in ReleasePcs => StateKept("settled")
  BY <1>1 DEF Thread, Releasing, StateKept
<1>5. Undisturbed(other)
  BY <1>3, <1>4 DEF Undisturbed
<1>6. QED
  BY <1>1, <1>5, ThreadKept DEF QueueInv, Thread, Waiting

\* So the invariant's parts about other threads and the transactions they wait for survive.
LEMMA OwnStepKeeps ==
  ASSUME QueueInv, NEW w \in Settlers, OwnStep(w), Shape'
  PROVE  AllWatched' /\ \A other \in Settlers \ {w} : Thread(other)'
<1>1. StillOnChain
  BY DEF OwnStep, StillOnChain, OnChain
<1>2. ASSUME NEW other \in Settlers \ {w}
      PROVE  Thread(other)' /\ (workers[other].tx = "waiting" => Submission(other)' = Submission(other))
  BY <1>1, OthersKept DEF OwnStep
<1> DEFINE same == [i \in DOMAIN mempool |-> i]
<1>3. \A i \in DOMAIN mempool', o \in Settlers : mempool'[i].by = o =>
        /\ same[i] \in DOMAIN mempool /\ mempool'[i] = mempool[same[i]]
        /\ workers[o].tx = "waiting" => workers'[o].tx = "waiting" /\ Submission(o)' = Submission(o)
  <2> SUFFICES ASSUME NEW i \in DOMAIN mempool', NEW o \in Settlers, mempool'[i].by = o
               PROVE  /\ same[i] \in DOMAIN mempool /\ mempool'[i] = mempool[same[i]]
                      /\ workers[o].tx = "waiting" => workers'[o].tx = "waiting" /\ Submission(o)' = Submission(o)
    OBVIOUS
  <2>1. mempool'[i] = mempool[i] /\ o # w
    BY QueueAssumption DEF OwnStep
  <2>2. QED
    BY <1>2, <2>1 DEF OwnStep
<1>4. \A i \in DOMAIN mempool' : mempool'[i].by \in Settlers \cup {NoOne}
  BY Senders DEF Shape
<1>5. \A i, j \in DOMAIN mempool' : same[i] = same[j] => i = j
  BY DEF OwnStep
<1>6. AllWatched'
  <2> HIDE DEF same
  <2> QED BY <1>3, <1>4, <1>5, StillWatched DEF QueueInv
<1>7. QED
  BY <1>2, <1>6

\* Nobody else's transaction names a thread that waits for none.
LEMMA NotWaiting ==
  ASSUME QueueInv, NEW w \in Settlers, workers[w].tx # "waiting"
  PROVE  \A i \in DOMAIN mempool : mempool[i].by # w
BY QueueAssumption DEF QueueInv, AllWatched, Watched

LEMMA MarkedRow ==
  ASSUME rows \in [Receipts -> AnyRow], NEW r \in Receipts, NEW state \in RowStates, mark(r, state)
  PROVE  /\ rows' \in [Receipts -> AnyRow] /\ DatesKept
         /\ rows'[r].state = state /\ \A other \in Receipts \ {r} : rows'[other] = rows[other]
BY DEF mark, AnyRow, DatesKept

LEMMA FailedRow ==
  ASSUME rows \in [Receipts -> AnyRow], NEW r \in Receipts, fail(r)
  PROVE  /\ rows' \in [Receipts -> AnyRow] /\ DatesKept
         /\ rows'[r].state \in {rows[r].state, "rejected"} /\ \A other \in Receipts \ {r} : rows'[other] = rows[other]
<1>1. rows[r] \in AnyRow /\ rows[r].attempts + 1 \in Nat
  BY DEF AnyRow
<1>2. QED
  BY <1>1 DEF fail, AnyRow, DatesKept, RowStates

\* Nobody waits for a transaction that was given up.
LEMMA GivenUp ==
  ASSUME Shape, NEW w \in Settlers, mempool' = Unwatched(w)
  PROVE  /\ mempool' \in Seq(Transaction) /\ DOMAIN mempool' = DOMAIN mempool
         /\ \A i \in DOMAIN mempool : mempool'[i].by = NoOne \/ (mempool'[i] = mempool[i] /\ mempool[i].by # w)
<1>1. \A i \in DOMAIN mempool : mempool[i] \in Transaction
  BY DEF Shape
<1>2. \A i \in DOMAIN mempool :
        /\ mempool'[i] \in Transaction
        /\ mempool'[i].by = NoOne \/ (mempool'[i] = mempool[i] /\ mempool[i].by # w)
  BY <1>1 DEF Unwatched, Transaction
<1>3. DOMAIN mempool' = DOMAIN mempool
  BY DEF Unwatched
<1>4. mempool' \in Seq(Transaction)
  BY <1>2, <1>3 DEF Unwatched, Shape
<1>5. QED
  BY <1>2, <1>3, <1>4

\* A thread goes on, and no row changes: what is left to show is that it can.
LEMMA GoesOn ==
  ASSUME QueueInv, NEW w \in Settlers, NEW now \in Worker, workers' = [workers EXCEPT ![w] = now], Thread(w)',
         settleLock' = settleLock \/ settleLock \in {w, NoOne},
         \/ workers[w].tx # "waiting" /\ mempool' = mempool
         \/ mempool' = Unwatched(w),
         rows' = rows, chain' = chain
  PROVE  QueueInv' /\ Advance
<1>1. Shape'
  BY GivenUp DEF QueueInv, Shape
<1>2. /\ DOMAIN mempool' = DOMAIN mempool
      /\ \A i \in DOMAIN mempool : mempool'[i].by = NoOne \/ (mempool'[i] = mempool[i] /\ mempool[i].by # w)
  BY NotWaiting, GivenUp DEF QueueInv
<1>3. OwnStep(w)
  BY <1>2 DEF OwnStep, DatesKept
<1>4. SettledOnChain' /\ Advance
  BY DEF SettledOnChain, Advance, QueueInv
<1>5. QED
  BY <1>1, <1>3, <1>4, OwnStepKeeps DEF QueueInv

\* A thread may stop wherever it gives the lock back.
LEMMA Stops ==
  ASSUME QueueInv, NEW w \in Settlers, workers' = [workers EXCEPT ![w] = Idle],
         settleLock' = settleLock \/ settleLock = w,
         \/ workers[w].tx # "waiting" /\ mempool' = mempool
         \/ mempool' = Unwatched(w),
         rows' = rows, chain' = chain
  PROVE  QueueInv' /\ Advance
<1>1. Idle \in Worker
  BY DEF Idle, Worker, WorkerPcs, TxStates
<1>2. workers'[w] = Idle
  BY DEF QueueInv, Shape
<1>3. Thread(w)'
  BY <1>2 DEF Thread, Settling, Releasing, Waiting, SettlePcs, ReleasePcs, Idle
<1>4. QED
  BY <1>1, <1>3, GoesOn

\* A thread that sends what it has in hand waits for it.
LEMMA Submitted ==
  ASSUME QueueInv, NEW w \in Settlers, NEW pc, submit(w, pc), UNCHANGED <<rows, settleLock, chain>>,
         <<workers[w].pc, pc>> \in {<<"batch", "batchSent">>, <<"one", "oneSent">>, <<"release", "releaseSent">>},
         workers[w].pc = "one" => workers[w].todo # {}
  PROVE  QueueInv' /\ Advance
<1> DEFINE tx == Submission(w)
<1>1. /\ workers' = [workers EXCEPT ![w] = [workers[w] EXCEPT !.pc = pc, !.tx = "waiting"]]
      /\ workers[w] \in Worker /\ mempool' = Append(mempool, tx)
  BY DEF submit, QueueInv, Shape, Worker
<1>2. workers'[w] = [workers[w] EXCEPT !.pc = pc, !.tx = "waiting"]
  BY <1>1 DEF QueueInv, Shape
<1>3. Items(w)' = Items(w) /\ Submission(w)' = tx
  <2>1. First(workers[w].todo)' = First(workers[w].todo)
    BY <1>1, <1>2 DEF First, Worker
  <2>2. QED
    BY <1>1, <1>2, <2>1 DEF Items, Submission, Worker
<1>4. tx \in Transaction /\ tx.by = w
  <2>1. Items(w) \subseteq workers[w].todo
    BY ItemsIn DEF QueueInv
  <2>2. QED
    BY <1>1, <2>1 DEF Submission, Transaction, Worker
<1>5. Shape'
  <2>1. [workers[w] EXCEPT !.pc = pc, !.tx = "waiting"] \in Worker
    BY <1>1 DEF Worker, WorkerPcs, TxStates
  <2>2. workers' \in [Settlers -> Worker]
    BY <1>1, <2>1 DEF QueueInv, Shape
  <2>3. mempool' \in Seq(Transaction)
    BY <1>1, <1>4 DEF QueueInv, Shape
  <2>4. QED
    BY <2>2, <2>3 DEF QueueInv, Shape
<1>6. \A i \in DOMAIN mempool : mempool[i].by # w
  <2>1. workers[w].tx = "none"
    BY DEF QueueInv, Thread, Waiting, SentPcs
  <2>2. QED
    BY <2>1, NotWaiting
<1>7. \A other \in Settlers \ {w} :
        Thread(other)' /\ (workers[other].tx = "waiting" => Submission(other)' = Submission(other))
  BY <1>1, OthersKept DEF DatesKept, StillOnChain, OnChain
<1>8. Thread(w)'
  BY <1>1, <1>2, <1>3 DEF QueueInv, Thread, Settling, Releasing, Waiting, SettlePcs, ReleasePcs, SentPcs, OnChain, Worker
<1>9. AllWatched'
  <2>1. PICK n : n = Len(mempool) + 1
    OBVIOUS
  <2>2. /\ DOMAIN mempool' = DOMAIN mempool \cup {n} /\ n \notin DOMAIN mempool
        /\ mempool'[n] = tx /\ \A i \in DOMAIN mempool : mempool'[i] = mempool[i]
    BY <1>1, <1>4, <2>1 DEF QueueInv, Shape
  <2>3. ASSUME NEW i \in DOMAIN mempool, NEW other \in Settlers, mempool[i].by = other PROVE Watched(i)'
    <3>1. other # w /\ other # NoOne
      BY <1>6, <2>3, QueueAssumption
    <3>2. workers'[other] = workers[other] /\ Watched(i)
      BY <1>1, <3>1 DEF QueueInv, AllWatched
    <3>3. workers'[other].tx = "waiting" /\ mempool'[i] = Submission(other)'
      BY <1>7, <2>2, <2>3, <3>1, <3>2 DEF Watched
    <3>4. ASSUME NEW j \in DOMAIN mempool', mempool'[j].by = other PROVE i = j
      BY <1>4, <2>2, <2>3, <3>1, <3>2, <3>4 DEF Watched
    <3>5. QED
      BY <2>2, <2>3, <3>3, <3>4 DEF Watched
  <2>4. Watched(n)'
    <3>1. workers'[w].tx = "waiting"
      BY <1>1, <1>2 DEF Worker
    <3>2. \A j \in DOMAIN mempool' : mempool'[j].by = w => j = n
      BY <1>6, <2>2
    <3>3. QED
      BY <1>3, <1>4, <2>2, <3>1, <3>2 DEF Watched
  <2>5. ASSUME NEW i \in DOMAIN mempool' PROVE Watched(i)'
    <3>1. CASE i = n
      BY <2>4, <3>1
    <3>2. CASE i # n /\ mempool'[i].by = NoOne
      BY <3>2 DEF Watched
    <3>3. CASE i # n /\ mempool'[i].by # NoOne
      BY <2>2, <2>3, <3>3, Senders DEF QueueInv, Shape
    <3>4. QED
      BY <3>1, <3>2, <3>3
  <2>6. QED
    BY <2>5 DEF AllWatched
<1>10. SettledOnChain' /\ Advance
  BY DEF SettledOnChain, Advance, QueueInv
<1>11. QED
  BY <1>5, <1>7, <1>8, <1>9, <1>10 DEF QueueInv

-----------------------------------------------------------------------------
(* settle_queued *)

LEMMA TakeBatchStep ==
  ASSUME QueueInv, NEW w \in Settlers, TakeBatch(w)
  PROVE  QueueInv' /\ Advance
<1> DEFINE now == [Idle EXCEPT !.pc = "batch", !.todo = take(MAX_BATCH_SIZE)]
<1>1. take(MAX_BATCH_SIZE) \subseteq Receipts /\ \A r \in take(MAX_BATCH_SIZE) : rows[r].state = "queued"
  BY DEF take, InState
<1>2. /\ workers[w].tx = "none" /\ settleLock = NoOne /\ settleLock' = w
      /\ workers' = [workers EXCEPT ![w] = now] /\ workers'[w] = now
      /\ rows' = rows /\ chain' = chain /\ mempool' = mempool
  BY DEF TakeBatch, Idle, chainVars, QueueInv, Shape
<1>3. /\ now.pc = "batch" /\ now.todo = take(MAX_BATCH_SIZE) /\ now.done = {} /\ now.tx = "none"
      /\ now \in Worker
  BY <1>1 DEF Idle, Worker, WorkerPcs, TxStates
<1> HIDE DEF now
<1>4. Thread(w)'
  BY <1>1, <1>2, <1>3 DEF Thread, Settling, Releasing, Waiting, ReleasePcs
<1>5. QED
  BY <1>2, <1>3, <1>4, GoesOn

LEMMA SubmitBatchStep ==
  ASSUME QueueInv, NEW w \in Settlers, SubmitBatch(w)
  PROVE  QueueInv' /\ Advance
<1>1. /\ workers[w].pc = "batch" /\ workers[w].tx = "none" /\ workers[w] \in Worker /\ Thread(w)
      /\ rows' = rows /\ chain' = chain
  BY DEF SubmitBatch, QueueInv, Shape, Thread, Waiting, SentPcs
<1>2. CASE submit(w, "batchSent") /\ UNCHANGED settleLock
  BY <1>1, <1>2, Submitted
<1>3. CASE workers' = [workers EXCEPT ![w] = Idle] /\ settleLock' = NoOne /\ UNCHANGED mempool
  <2>1. settleLock = w
    BY <1>1 DEF Thread, Settling, SettlePcs
  <2>2. QED
    BY <1>1, <1>3, <2>1, Stops
<1>4. CASE workers' = [workers EXCEPT ![w].pc = "one"] /\ UNCHANGED <<settleLock, mempool>>
  <2> DEFINE now == [workers[w] EXCEPT !.pc = "one"]
  <2>1. /\ now.pc = "one" /\ now.todo = workers[w].todo /\ now.done = workers[w].done /\ now.tx = "none"
        /\ now \in Worker
        /\ workers' = [workers EXCEPT ![w] = now] /\ workers'[w] = now
        /\ settleLock' = settleLock /\ mempool' = mempool
    BY <1>1, <1>4 DEF QueueInv, Shape, Worker, WorkerPcs
  <2> HIDE DEF now
  <2>2. Thread(w)'
    BY <1>1, <2>1 DEF Thread, Settling, Releasing, Waiting, SettlePcs, ReleasePcs, OnChain
  <2>3. QED
    BY <1>1, <2>1, <2>2, GoesOn
<1>5. QED
  BY <1>2, <1>3, <1>4 DEF SubmitBatch

LEMMA AwaitBatchStep ==
  ASSUME QueueInv, NEW w \in Settlers, AwaitBatch(w)
  PROVE  QueueInv' /\ Advance
<1>1. /\ workers[w].pc = "batchSent" /\ workers[w] \in Worker /\ Thread(w)
      /\ rows' = rows /\ chain' = chain /\ settleLock' = settleLock
  BY DEF AwaitBatch, QueueInv, Shape
<1>2. CASE /\ workers[w].tx = "mined" /\ UNCHANGED mempool
           /\ workers' = [workers EXCEPT ![w] = [Idle EXCEPT !.pc = "mark", !.done = workers[w].todo]]
  <2> DEFINE now == [Idle EXCEPT !.pc = "mark", !.done = workers[w].todo]
  <2>1. /\ now.pc = "mark" /\ now.todo = {} /\ now.done = workers[w].todo /\ now.tx = "none"
        /\ now \in Worker
        /\ workers'[w] = now
    BY <1>1, <1>2 DEF Idle, QueueInv, Shape, Worker, WorkerPcs, TxStates
  <2> HIDE DEF now
  <2>2. settleLock = w /\ \A r \in workers[w].todo : rows[r].state = "queued" /\ OnChain(r)
    BY <1>1, <1>2 DEF Thread, Settling, SettlePcs, Items
  <2>3. Thread(w)'
    BY <1>1, <2>1, <2>2 DEF Thread, Settling, Releasing, Waiting, ReleasePcs, OnChain
  <2>4. workers' = [workers EXCEPT ![w] = now]
    BY <1>2 DEF now
  <2>5. QED
    BY <1>1, <1>2, <2>1, <2>3, <2>4, GoesOn
<1>3. CASE workers' = [workers EXCEPT ![w].pc = "one", ![w].tx = "none"] /\ mempool' = Unwatched(w)
  <2> DEFINE now == [workers[w] EXCEPT !.pc = "one", !.tx = "none"]
  <2>1. /\ now.pc = "one" /\ now.todo = workers[w].todo /\ now.done = workers[w].done /\ now.tx = "none"
        /\ now \in Worker
        /\ workers' = [workers EXCEPT ![w] = now] /\ workers'[w] = now
        /\ mempool' = Unwatched(w)
    BY <1>1, <1>3 DEF QueueInv, Shape, Worker, WorkerPcs, TxStates
  <2> HIDE DEF now
  <2>2. Thread(w)'
    BY <1>1, <2>1 DEF Thread, Settling, Releasing, Waiting, SettlePcs, ReleasePcs, OnChain
  <2>3. QED
    BY <1>1, <2>1, <2>2, GoesOn
<1>4. QED
  BY <1>2, <1>3 DEF AwaitBatch

\* A receipt that failed is still queued, or rejected; the thread goes on without it.
LEMMA FailedStep ==
  ASSUME QueueInv, NEW w \in Settlers, Failed(w), UNCHANGED <<settleLock, chain>>,
         workers[w].pc \in {"one", "oneSent"}, workers[w].todo # {},
         \/ workers[w].tx = "none" /\ mempool' = mempool
         \/ mempool' = Unwatched(w)
  PROVE  QueueInv' /\ Advance
<1> DEFINE r == First(workers[w].todo)
           now == [workers[w] EXCEPT !.pc = "one", !.tx = "none", !.todo = @ \ {r}]
<1>1. /\ Thread(w) /\ workers[w] \in Worker /\ rows \in [Receipts -> AnyRow]
      /\ workers[w].todo \subseteq Receipts /\ workers[w].done \subseteq Receipts
  BY DEF QueueInv, Shape, Worker
<1>2. Items(w) = {r} /\ r \in workers[w].todo /\ rows[r].state = "queued"
  BY <1>1, ItemsIn DEF QueueInv, Thread, Settling, SettlePcs
<1>3. /\ rows' \in [Receipts -> AnyRow] /\ DatesKept
      /\ rows'[r].state \in {"queued", "rejected"} /\ \A other \in Receipts \ {r} : rows'[other] = rows[other]
  BY <1>1, <1>2, FailedRow DEF Failed
<1>4. /\ now.pc = "one" /\ now.todo = workers[w].todo \ {r} /\ now.done = workers[w].done /\ now.tx = "none"
      /\ now \in Worker
  BY <1>1 DEF Worker, WorkerPcs, TxStates
<1>5. workers' = [workers EXCEPT ![w] = now] /\ workers'[w] = now
  BY <1>1, <1>2 DEF Failed, QueueInv, Shape, Worker
<1> HIDE DEF r, now
<1>6. Shape'
  BY <1>3, <1>4, <1>5, GivenUp DEF QueueInv, Shape
<1>7. OwnStep(w)
  <2>1. /\ DOMAIN mempool' = DOMAIN mempool
        /\ \A i \in DOMAIN mempool : mempool'[i].by = NoOne \/ (mempool'[i] = mempool[i] /\ mempool[i].by # w)
    BY NotWaiting, GivenUp DEF QueueInv
  <2>2. QED
    BY <1>2, <1>3, <1>5, <2>1 DEF OwnStep, SettlePcs
<1>8. Thread(w)'
  <2>1. r \notin workers[w].done
    BY <1>1, <1>2 DEF Thread, Settling, SettlePcs
  <2>2. \A other \in (workers[w].todo \ {r}) \cup workers[w].done : rows'[other].state = "queued"
    BY <1>1, <1>3, <2>1 DEF Thread, Settling, SettlePcs
  <2>3. QED
    BY <1>1, <1>4, <1>5, <2>2 DEF Thread, Settling, Releasing, Waiting, SettlePcs, ReleasePcs, OnChain
<1>9. SettledOnChain' /\ Advance
  BY <1>1, <1>2, <1>3 DEF SettledOnChain, Advance, QueueInv
<1>10. QED
  BY <1>6, <1>7, <1>8, <1>9, OwnStepKeeps DEF QueueInv

LEMMA SubmitOneStep ==
  ASSUME QueueInv, NEW w \in Settlers, SubmitOne(w)
  PROVE  QueueInv' /\ Advance
<1>1. /\ workers[w].pc = "one" /\ workers[w].todo # {} /\ workers[w].tx = "none"
      /\ workers[w] \in Worker /\ Thread(w)
      /\ chain' = chain /\ settleLock' = settleLock
  BY DEF SubmitOne, QueueInv, Shape, Thread, Waiting, SentPcs
<1>2. CASE submit(w, "oneSent") /\ UNCHANGED rows
  BY <1>1, <1>2, Submitted
<1>3. CASE Failed(w) /\ UNCHANGED mempool
  BY <1>1, <1>3, FailedStep
<1>4. CASE workers' = [workers EXCEPT ![w].pc = "mark", ![w].todo = {}] /\ UNCHANGED <<rows, mempool>>
  <2> DEFINE now == [workers[w] EXCEPT !.pc = "mark", !.todo = {}]
  <2>1. /\ now.pc = "mark" /\ now.todo = {} /\ now.done = workers[w].done /\ now.tx = "none"
        /\ now \in Worker
        /\ workers' = [workers EXCEPT ![w] = now] /\ workers'[w] = now
        /\ rows' = rows /\ mempool' = mempool
    BY <1>1, <1>4 DEF QueueInv, Shape, Worker, WorkerPcs
  <2> HIDE DEF now
  <2>2. Thread(w)'
    BY <1>1, <2>1 DEF Thread, Settling, Releasing, Waiting, SettlePcs, ReleasePcs, OnChain
  <2>3. QED
    BY <1>1, <2>1, <2>2, GoesOn
<1>5. QED
  BY <1>2, <1>3, <1>4 DEF SubmitOne

LEMMA AwaitOneStep ==
  ASSUME QueueInv, NEW w \in Settlers, AwaitOne(w)
  PROVE  QueueInv' /\ Advance
<1>1. /\ workers[w].pc = "oneSent" /\ workers[w] \in Worker /\ Thread(w)
      /\ chain' = chain /\ settleLock' = settleLock
  BY DEF AwaitOne, QueueInv, Shape
<1>2. workers[w].todo # {} /\ Items(w) \subseteq workers[w].todo
  BY <1>1, ItemsIn DEF QueueInv, Thread, Settling, SettlePcs
<1>3. CASE Failed(w) /\ mempool' = Unwatched(w)
  BY <1>1, <1>2, <1>3, FailedStep
<1>4. CASE /\ workers[w].tx = "mined" /\ UNCHANGED <<rows, mempool>>
           /\ workers' = [workers EXCEPT ![w].pc = "one", ![w].tx = "none", ![w].todo = @ \ Items(w),
                                         ![w].done = @ \cup Items(w)]
  <2> DEFINE now == [workers[w] EXCEPT !.pc = "one", !.tx = "none", !.todo = @ \ Items(w), !.done = @ \cup Items(w)]
  <2>1. /\ now.pc = "one" /\ now.todo = workers[w].todo \ Items(w)
        /\ now.done = workers[w].done \cup Items(w) /\ now.tx = "none"
        /\ workers' = [workers EXCEPT ![w] = now] /\ workers'[w] = now
        /\ rows' = rows /\ mempool' = mempool /\ workers[w].tx = "mined"
    BY <1>1, <1>4 DEF QueueInv, Shape, Worker
  <2>2. now \in Worker
    BY <1>1, <1>2 DEF Worker, WorkerPcs, TxStates
  <2> HIDE DEF now
  <2>3. /\ settleLock = w
        /\ \A r \in workers[w].todo \cup workers[w].done : rows[r].state = "queued"
        /\ \A r \in workers[w].done \cup Items(w) : OnChain(r)
        /\ workers[w].todo \cap workers[w].done = {}
    BY <1>1, <2>1 DEF Thread, Settling, SettlePcs
  <2>4. Thread(w)'
    BY <1>1, <1>2, <2>1, <2>3 DEF Thread, Settling, Releasing, Waiting, ReleasePcs, OnChain
  <2>5. QED
    BY <1>1, <2>1, <2>2, <2>4, GoesOn
<1>5. QED
  BY <1>3, <1>4 DEF AwaitOne

\* What is marked settled was mined.
LEMMA MarkSettledStep ==
  ASSUME QueueInv, NEW w \in Settlers, MarkSettled(w)
  PROVE  QueueInv' /\ Advance
<1> DEFINE r == First(workers[w].done)
           now == [workers[w] EXCEPT !.done = @ \ {r}]
<1>1. /\ workers[w].pc \in {"one", "mark"} /\ workers[w].todo = {} /\ workers[w].done # {}
      /\ workers[w] \in Worker /\ rows \in [Receipts -> AnyRow] /\ Thread(w) /\ workers[w].tx = "none"
      /\ chain' = chain /\ settleLock' = settleLock /\ mempool' = mempool
      /\ mark(r, "settled")
  BY DEF MarkSettled, AllTried, QueueInv, Shape, chainVars, Thread, Waiting, SentPcs
<1>2. r \in workers[w].done /\ r \in Receipts
  BY <1>1, FirstIn DEF First, Worker
<1>3. /\ settleLock = w
      /\ \A other \in workers[w].done : rows[other].state = "queued" /\ OnChain(other)
  BY <1>1 DEF Thread, Settling, SettlePcs
<1>4. /\ rows' \in [Receipts -> AnyRow] /\ DatesKept
      /\ rows'[r].state = "settled" /\ \A other \in Receipts \ {r} : rows'[other] = rows[other]
  BY <1>1, <1>2, MarkedRow DEF RowStates
<1>5. /\ now.pc = workers[w].pc /\ now.todo = {} /\ now.done = workers[w].done \ {r} /\ now.tx = "none"
      /\ now \in Worker
  BY <1>1 DEF Worker
<1>6. workers' = [workers EXCEPT ![w] = now] /\ workers'[w] = now
  BY DEF MarkSettled, QueueInv, Shape
<1> HIDE DEF r, now
<1>7. Shape'
  BY <1>1, <1>4, <1>5, <1>6 DEF QueueInv, Shape
<1>8. OwnStep(w)
  BY <1>1, <1>2, <1>3, <1>4, <1>6, NotWaiting DEF OwnStep, SettlePcs
<1>9. Thread(w)'
  <2>1. \A other \in workers[w].done \ {r} : other \in Receipts /\ rows'[other].state = "queued"
    BY <1>1, <1>3, <1>4 DEF Worker
  <2>2. QED
    BY <1>1, <1>3, <1>5, <1>6, <2>1 DEF Thread, Settling, Releasing, Waiting, ReleasePcs, OnChain
<1>10. SettledOnChain' /\ Advance
  BY <1>1, <1>2, <1>3, <1>4 DEF SettledOnChain, Advance, QueueInv, OnChain
<1>11. QED
  BY <1>7, <1>8, <1>9, <1>10, OwnStepKeeps DEF QueueInv

LEMMA ReturnStep ==
  ASSUME QueueInv, NEW w \in Settlers, Return(w)
  PROVE  QueueInv' /\ Advance
<1>1. /\ workers[w].pc \in {"one", "mark"} /\ Thread(w) /\ workers[w].tx = "none"
      /\ workers' = [workers EXCEPT ![w] = Idle] /\ rows' = rows /\ chain' = chain /\ mempool' = mempool
  BY DEF Return, AllTried, QueueInv, chainVars, Thread, Waiting, SentPcs
<1>2. settleLock = w
  BY <1>1 DEF Thread, Settling, SettlePcs
<1>3. QED
  BY <1>1, <1>2, Stops DEF Return

-----------------------------------------------------------------------------
(* release_due *)

LEMMA TakeDueStep ==
  ASSUME QueueInv, NEW w \in Settlers, TakeDue(w)
  PROVE  QueueInv' /\ Advance
<1>1. PICK S \in (SUBSET due_for_release) \ {{}} : workers' = [workers EXCEPT ![w].pc = "release", ![w].todo = S]
  BY DEF TakeDue
<1> DEFINE now == [Idle EXCEPT !.pc = "release", !.todo = S]
<1>2. S \subseteq Receipts /\ \A r \in S : rows[r].state = "settled"
  BY DEF due_for_release, InState
<1>3. /\ workers[w].tx = "none" /\ w = Releaser /\ settleLock' = settleLock
      /\ workers' = [workers EXCEPT ![w] = now] /\ workers'[w] = now
      /\ rows' = rows /\ chain' = chain /\ mempool' = mempool
  <2>1. workers[w] = Idle /\ workers[w].tx = "none"
    BY DEF TakeDue, Idle
  <2>2. workers' = [workers EXCEPT ![w] = now]
    BY <1>1, <2>1
  <2>3. workers'[w] = now
    BY <2>2 DEF QueueInv, Shape
  <2>4. QED
    BY <2>1, <2>2, <2>3 DEF TakeDue, chainVars
<1>4. /\ now.pc = "release" /\ now.todo = S /\ now.done = {} /\ now.tx = "none"
      /\ now \in Worker
  BY <1>2 DEF Idle, Worker, WorkerPcs, TxStates
<1> HIDE DEF now
<1>5. Thread(w)'
  BY <1>2, <1>3, <1>4 DEF Thread, Settling, Releasing, Waiting, SettlePcs
<1>6. QED
  BY <1>3, <1>4, <1>5, GoesOn

\* From one point of a release to another, with the same rows.
LEMMA ReleaseGoesOn ==
  ASSUME QueueInv, NEW w \in Settlers, workers[w].pc \in ReleasePcs,
         workers' = [workers EXCEPT ![w].pc = "markReleased", ![w].tx = "none"], workers[w].tx # "waiting",
         UNCHANGED <<rows, settleLock, chain, mempool>>
  PROVE  QueueInv' /\ Advance
<1> DEFINE now == [workers[w] EXCEPT !.pc = "markReleased", !.tx = "none"]
<1>1. workers[w] \in Worker /\ Thread(w)
  BY DEF QueueInv, Shape
<1>2. /\ now.pc = "markReleased" /\ now.todo = workers[w].todo /\ now.tx = "none" /\ now \in Worker
      /\ workers' = [workers EXCEPT ![w] = now] /\ workers'[w] = now
  BY <1>1 DEF QueueInv, Shape, Worker, WorkerPcs, TxStates
<1> HIDE DEF now
<1>3. Thread(w)'
  BY <1>1, <1>2 DEF Thread, Settling, Releasing, Waiting, SettlePcs
<1>4. QED
  BY <1>2, <1>3, GoesOn

LEMMA SubmitReleaseStep ==
  ASSUME QueueInv, NEW w \in Settlers, SubmitRelease(w)
  PROVE  QueueInv' /\ Advance
<1>1. /\ workers[w].pc = "release" /\ workers[w].tx = "none" /\ workers[w] \in Worker
      /\ rows' = rows /\ chain' = chain /\ settleLock' = settleLock
  BY DEF SubmitRelease, QueueInv, Shape, Thread, Waiting, SentPcs
<1>2. CASE submit(w, "releaseSent")
  BY <1>1, <1>2, Submitted
<1>3. CASE workers' = [workers EXCEPT ![w] = Idle] /\ UNCHANGED mempool
  BY <1>1, <1>3, Stops
<1>4. CASE workers' = [workers EXCEPT ![w].pc = "markReleased"] /\ UNCHANGED mempool
  <2>1. workers' = [workers EXCEPT ![w].pc = "markReleased", ![w].tx = "none"]
    BY <1>1, <1>4 DEF QueueInv, Shape, Worker
  <2>2. QED
    BY <1>1, <1>4, <2>1, ReleaseGoesOn DEF ReleasePcs
<1>5. QED
  BY <1>2, <1>3, <1>4 DEF SubmitRelease

LEMMA AwaitReleaseStep ==
  ASSUME QueueInv, NEW w \in Settlers, AwaitRelease(w)
  PROVE  QueueInv' /\ Advance
<1>1. workers[w].pc = "releaseSent" /\ rows' = rows /\ chain' = chain /\ settleLock' = settleLock
  BY DEF AwaitRelease
<1>2. CASE /\ workers[w].tx \in {"mined", "reverted"} /\ UNCHANGED mempool
           /\ workers' = [workers EXCEPT ![w].pc = "markReleased", ![w].tx = "none"]
  BY <1>1, <1>2, ReleaseGoesOn DEF ReleasePcs
<1>3. CASE workers' = [workers EXCEPT ![w] = Idle] /\ mempool' = Unwatched(w)
  BY <1>1, <1>3, Stops
<1>4. QED
  BY <1>2, <1>3 DEF AwaitRelease

LEMMA MarkReleasedStep ==
  ASSUME QueueInv, NEW w \in Settlers, MarkReleased(w)
  PROVE  QueueInv' /\ Advance
<1>1. /\ workers[w].pc = "markReleased" /\ workers[w].tx = "none" /\ Thread(w) /\ workers[w] \in Worker
      /\ rows \in [Receipts -> AnyRow]
      /\ chain' = chain /\ settleLock' = settleLock /\ mempool' = mempool
  BY DEF MarkReleased, QueueInv, Shape, chainVars, Thread, Waiting, SentPcs
<1>2. PICK r \in workers[w].todo :
        /\ mark(r, "released")
        /\ workers' = IF workers[w].todo = {r} THEN [workers EXCEPT ![w] = Idle]
                      ELSE [workers EXCEPT ![w].todo = @ \ {r}]
  BY DEF MarkReleased
<1> DEFINE now == IF workers[w].todo = {r} THEN Idle ELSE [workers[w] EXCEPT !.todo = @ \ {r}]
<1>3. r \in Receipts /\ rows[r].state = "settled" /\ w = Releaser
  BY <1>1 DEF Worker, Thread, Releasing, ReleasePcs
<1>4. /\ rows' \in [Receipts -> AnyRow] /\ DatesKept
      /\ rows'[r].state = "released" /\ \A other \in Receipts \ {r} : rows'[other] = rows[other]
  BY <1>1, <1>2, <1>3, MarkedRow DEF RowStates
<1>5. /\ now.pc \in {"idle", "markReleased"} /\ now.todo = workers[w].todo \ {r} /\ now.tx = "none"
      /\ now \in Worker
  BY <1>1 DEF Worker, Idle, WorkerPcs, TxStates
<1>6. workers' = [workers EXCEPT ![w] = now] /\ workers'[w] = now
  BY <1>2 DEF QueueInv, Shape
<1> HIDE DEF now
<1>7. Shape'
  BY <1>1, <1>4, <1>5, <1>6 DEF QueueInv, Shape
<1>8. OwnStep(w)
  BY <1>1, <1>3, <1>4, <1>6, NotWaiting DEF OwnStep, ReleasePcs
<1>9. Thread(w)'
  <2>1. \A other \in workers[w].todo \ {r} : other \in Receipts /\ rows'[other].state = "settled"
    BY <1>1, <1>4 DEF Thread, Releasing, ReleasePcs, Worker
  <2>2. QED
    BY <1>3, <1>5, <1>6, <2>1 DEF Thread, Settling, Releasing, Waiting, SettlePcs
<1>10. SettledOnChain' /\ Advance
  BY <1>1, <1>3, <1>4 DEF SettledOnChain, Advance, QueueInv
<1>11. QED
  BY <1>7, <1>8, <1>9, <1>10, OwnStepKeeps DEF QueueInv

-----------------------------------------------------------------------------
(* Steps of nobody's thread *)

\* When no thread moves, all go on, with those of their transactions that are still there.
LEMMA NobodyMoves ==
  ASSUME QueueInv, \A w \in Settlers : Undisturbed(w), DatesKept, StillOnChain, mempool' \in Seq(Transaction), NEW from,
         \A i \in DOMAIN mempool', w \in Settlers : mempool'[i].by = w =>
            from[i] \in DOMAIN mempool /\ mempool'[i] = mempool[from[i]] /\ workers'[w].tx = workers[w].tx,
         \A i, j \in DOMAIN mempool' : from[i] = from[j] => i = j
  PROVE  AllWatched' /\ \A w \in Settlers : Thread(w)'
<1>1. ASSUME NEW w \in Settlers
      PROVE  Thread(w)' /\ (workers[w].tx = "waiting" => Submission(w)' = Submission(w))
  BY ThreadKept DEF QueueInv, Thread, Waiting
<1>2. \A i \in DOMAIN mempool', w \in Settlers : mempool'[i].by = w =>
        /\ from[i] \in DOMAIN mempool /\ mempool'[i] = mempool[from[i]]
        /\ workers[w].tx = "waiting" => workers'[w].tx = "waiting" /\ Submission(w)' = Submission(w)
  BY <1>1
<1>3. \A i \in DOMAIN mempool' : mempool'[i].by \in Settlers \cup {NoOne}
  BY Senders
<1>4. AllWatched'
  BY <1>2, <1>3, StillWatched DEF QueueInv
<1>5. QED
  BY <1>1, <1>4

\* What happens on the chain outside the Relay's transactions undoes no settlement.
LEMMA ChainMoves ==
  ASSUME QueueInv, UNCHANGED <<queueVars, mempool>>, StillOnChain,
         DOMAIN chain' = DOMAIN chain, chain'.status \in [Receipts -> ChainStates]
  PROVE  QueueInv' /\ Advance
<1> DEFINE same == [i \in DOMAIN mempool |-> i]
<1>1. rows' = rows /\ workers' = workers /\ settleLock' = settleLock /\ mempool' = mempool
  BY DEF queueVars
<1>2. Shape'
  BY <1>1 DEF QueueInv, Shape
<1>3. DatesKept /\ \A w \in Settlers : Undisturbed(w)
  BY <1>1 DEF DatesKept, Undisturbed, StateKept
<1>4. AllWatched' /\ \A w \in Settlers : Thread(w)'
  <2>1. /\ \A i \in DOMAIN mempool', w \in Settlers : mempool'[i].by = w =>
             same[i] \in DOMAIN mempool /\ mempool'[i] = mempool[same[i]] /\ workers'[w].tx = workers[w].tx
        /\ \A i, j \in DOMAIN mempool' : same[i] = same[j] => i = j
        /\ mempool' \in Seq(Transaction)
    BY <1>1 DEF QueueInv, Shape
  <2> HIDE DEF same
  <2>2. QED
    BY <1>3, <2>1, NobodyMoves
<1>5. SettledOnChain' /\ Advance
  BY <1>1 DEF SettledOnChain, Advance, QueueInv, StillOnChain, OnChain
<1>6. QED
  BY <1>2, <1>4, <1>5 DEF QueueInv

LEMMA TopUpStep == ASSUME QueueInv, TopUp PROVE QueueInv' /\ Advance
BY ChainMoves DEF TopUp, StillOnChain, OnChain, QueueInv, Shape

LEMMA BecomesUnpayableStep ==
  ASSUME QueueInv, NEW r \in Receipts, BecomesUnpayable(r) PROVE QueueInv' /\ Advance
<1>1. DOMAIN chain' = DOMAIN chain /\ chain'.status \in [Receipts -> ChainStates]
  BY DEF BecomesUnpayable, QueueInv, Shape, ChainStates
<1>2. StillOnChain
  BY DEF BecomesUnpayable, StillOnChain, OnChain, Escrowed, QueueInv, Shape
<1>3. QED
  BY <1>1, <1>2, ChainMoves DEF BecomesUnpayable

LEMMA WindowPassesStep ==
  ASSUME QueueInv, NEW r \in Receipts, WindowPasses(r) PROVE QueueInv' /\ Advance
<1>1. DOMAIN chain' = DOMAIN chain /\ chain'.status \in [Receipts -> ChainStates]
  BY DEF WindowPasses, QueueInv, Shape, ChainStates
<1>2. StillOnChain
  BY DEF WindowPasses, StillOnChain, OnChain, Escrowed, QueueInv, Shape
<1>3. QED
  BY <1>1, <1>2, ChainMoves DEF WindowPasses

\* Ended says so of its receipts, and nothing new of any other.
LEMMA EndedStatus ==
  ASSUME Shape, NEW S \in SUBSET Receipts
  PROVE  /\ DOMAIN Ended(S) = DOMAIN chain
         /\ Ended(S).status = [r \in Receipts |-> IF r \in S THEN "ended" ELSE chain.status[r]]
         /\ Ended(S).status \in [Receipts -> ChainStates]
BY DEF Ended, Shape, ChainStates

LEMMA OthersActStep ==
  ASSUME QueueInv, NEW r \in Receipts, OthersAct(r) PROVE QueueInv' /\ Advance
<1>1. UNCHANGED <<queueVars, mempool>> /\ Shape
  BY DEF OthersAct, QueueInv
<1>2. CASE chain' = [chain EXCEPT !.status[r] = "disputed"]
  <2>1. DOMAIN chain' = DOMAIN chain /\ chain'.status \in [Receipts -> ChainStates]
    BY <1>1, <1>2 DEF Shape, ChainStates
  <2>2. StillOnChain
    BY <1>1, <1>2 DEF StillOnChain, OnChain, Escrowed, Shape
  <2>3. QED
    BY <1>1, <2>1, <2>2, ChainMoves
<1>3. CASE DOMAIN chain' = DOMAIN Ended({r}) /\ chain'.status = Ended({r}).status
  <2>1. /\ DOMAIN chain' = DOMAIN chain /\ chain'.status \in [Receipts -> ChainStates]
        /\ chain'.status = [q \in Receipts |-> IF q \in {r} THEN "ended" ELSE chain.status[q]]
    BY <1>1, <1>3, EndedStatus
  <2>2. StillOnChain
    BY <2>1 DEF StillOnChain, OnChain
  <2>3. QED
    BY <1>1, <2>1, <2>2, ChainMoves
<1>4. CASE chain' = Ended({r})
  BY <1>3, <1>4
<1>5. CASE chain' = [Ended({r}) EXCEPT
                       !.balance[OwnerOf[KeyOf[r]]] = @ + rows[r].fee,
                       !.spent[KeyOf[r]] = IF @ >= rows[r].fee THEN @ - rows[r].fee ELSE @]
  <2>1. DOMAIN Ended({r}) = {"status", "balance", "spent", "active", "exposure"}
    BY <1>1, EndedStatus DEF Shape
  <2>2. QED
    BY <1>3, <1>5, <2>1
<1>6. QED
  BY <1>2, <1>4, <1>5 DEF OthersAct

\* A transaction that is mined settles what it contains, or is refused as a whole.
LEMMA MinedChain ==
  ASSUME Shape, NEW tx \in Transaction,
         chain' = IF Succeeds(tx) THEN Effect(tx) ELSE chain
  PROVE  /\ DOMAIN chain' = DOMAIN chain /\ chain'.status \in [Receipts -> ChainStates] /\ StillOnChain
         /\ Succeeds(tx) /\ tx.kind = "settle" => \A r \in tx.items : OnChain(r)'
<1>1. tx.items \in SUBSET Receipts
  BY DEF Transaction
<1>2. CASE ~Succeeds(tx)
  <2>1. chain' = chain
    BY <1>2
  <2>2. QED
    BY <1>2, <2>1 DEF Shape, StillOnChain, OnChain
<1>3. CASE Succeeds(tx) /\ tx.kind = "settle"
  <2>1. chain' = settleBatch(tx.items)
    BY <1>3 DEF Effect
  <2>2. /\ DOMAIN chain' = DOMAIN chain
        /\ chain'.status = [r \in Receipts |-> IF r \in tx.items THEN "pending" ELSE chain.status[r]]
    BY <2>1 DEF settleBatch, Shape
  <2>3. QED
    BY <1>1, <2>2 DEF Shape, StillOnChain, OnChain, Escrowed, ChainStates
<1>4. CASE Succeeds(tx) /\ tx.kind # "settle"
  <2> DEFINE due == {r \in tx.items : chain.status[r] = "due"}
  <2>1. chain' = Ended(due) /\ due \in SUBSET Receipts
    BY <1>1, <1>4 DEF Effect, releaseBatch
  <2> HIDE DEF due
  <2>2. /\ DOMAIN chain' = DOMAIN chain /\ chain'.status \in [Receipts -> ChainStates]
        /\ chain'.status = [r \in Receipts |-> IF r \in due THEN "ended" ELSE chain.status[r]]
    BY <2>1, EndedStatus
  <2>3. StillOnChain
    BY <2>2 DEF StillOnChain, OnChain
  <2>4. QED
    BY <1>4, <2>2, <2>3
<1>5. QED
  BY <1>2, <1>3, <1>4

LEMMA MineStep == ASSUME QueueInv, Mine PROVE QueueInv' /\ Advance
<1> DEFINE tx == Head(mempool)
           outcome == IF Succeeds(tx) THEN "mined" ELSE "reverted"
           after == [i \in 1 .. Len(mempool) |-> i + 1]
<1>1. /\ mempool \in Seq(Transaction) /\ mempool # <<>> /\ Shape
      /\ rows' = rows /\ settleLock' = settleLock /\ mempool' = Tail(mempool)
  BY DEF Mine, QueueInv, Shape
<1>2. tx \in Transaction /\ tx = mempool[1] /\ 1 \in DOMAIN mempool
  BY <1>1
<1>3. /\ mempool' \in Seq(Transaction) /\ DOMAIN mempool' = 1 .. Len(mempool) - 1 /\ Len(mempool) \in Nat
      /\ \A i \in DOMAIN mempool' : i \in 1 .. Len(mempool) /\ i + 1 \in DOMAIN mempool /\ mempool'[i] = mempool[i + 1]
  BY <1>1
<1>4. \A w \in Settlers : workers'[w] = IF w = tx.by THEN [workers[w] EXCEPT !.tx = outcome] ELSE workers[w]
  BY DEF Mine
<1>5. workers' \in [Settlers -> Worker]
  <2> outcome \in TxStates /\ (outcome = "mined" => Succeeds(tx))
    BY DEF TxStates
  <2> HIDE DEF tx, outcome
  <2>1. \A w \in Settlers : workers'[w] \in Worker
    BY <1>1, <1>4 DEF Shape, Worker
  <2>2. QED
    BY <2>1 DEF Mine
<1>6. /\ DOMAIN chain' = DOMAIN chain /\ chain'.status \in [Receipts -> ChainStates] /\ StillOnChain
      /\ Succeeds(tx) /\ tx.kind = "settle" => \A r \in tx.items : OnChain(r)'
  BY <1>1, <1>2, MinedChain DEF Mine
<1>7. Shape'
  BY <1>1, <1>3, <1>5, <1>6 DEF Shape
<1> HIDE DEF tx
<1>8. ASSUME NEW w \in Settlers, tx.by = w
      PROVE  /\ workers[w].tx = "waiting" /\ tx = Submission(w)
             /\ \A i \in DOMAIN mempool : mempool[i].by = w => i = 1
  <2>1. Watched(1) /\ w # NoOne
    BY <1>2, QueueAssumption DEF QueueInv, AllWatched
  <2>2. QED
    BY <1>2, <1>8, <2>1 DEF Watched
<1>9. ASSUME NEW w \in Settlers PROVE Undisturbed(w)
  <2>1. CASE tx.by # w
    BY <1>1, <1>4, <2>1 DEF Undisturbed, StateKept
  <2>2. CASE tx.by = w
    <3>1. workers[w] \in Worker /\ workers'[w] = [workers[w] EXCEPT !.tx = outcome]
      BY <1>1, <1>4, <2>2 DEF Shape
    <3>2. /\ workers'[w].pc = workers[w].pc /\ workers'[w].todo = workers[w].todo /\ workers'[w].done = workers[w].done
          /\ workers'[w].tx = "mined" => Succeeds(tx)
      BY <3>1 DEF Worker
    <3>3. workers[w].tx = "waiting" /\ tx = Submission(w)
      BY <1>8, <2>2
    <3>4. tx.items = Items(w) /\ (workers[w].pc \in SettlePcs => tx.kind = "settle")
      BY <3>3 DEF Submission, SettlePcs
    <3>5. workers'[w].tx = "mined" /\ workers[w].pc \in SettlePcs => \A r \in Items(w) : OnChain(r)'
      BY <1>6, <3>2, <3>4
    <3>6. QED
      BY <1>1, <3>2, <3>3, <3>5 DEF Undisturbed, StateKept
  <2>3. QED
    BY <2>1, <2>2
<1>10. \A i \in DOMAIN mempool', w \in Settlers : mempool'[i].by = w =>
         after[i] \in DOMAIN mempool /\ mempool'[i] = mempool[after[i]] /\ workers'[w].tx = workers[w].tx
  <2> SUFFICES ASSUME NEW i \in DOMAIN mempool', NEW w \in Settlers, mempool'[i].by = w
               PROVE  after[i] \in DOMAIN mempool /\ mempool'[i] = mempool[after[i]] /\ workers'[w].tx = workers[w].tx
    OBVIOUS
  <2>1. i \in Nat /\ i >= 1 /\ after[i] = i + 1 /\ i + 1 \in DOMAIN mempool /\ mempool'[i] = mempool[i + 1]
    BY <1>3
  <2>2. tx.by # w
    BY <1>8, <2>1
  <2>3. QED
    BY <1>4, <2>1, <2>2
<1>11. \A i, j \in DOMAIN mempool' : after[i] = after[j] => i = j
  BY <1>3
<1>12. AllWatched' /\ \A w \in Settlers : Thread(w)'
  <2>1. DatesKept
    BY <1>1 DEF DatesKept
  <2> HIDE DEF after
  <2>2. QED
    BY <1>3, <1>6, <1>9, <1>10, <1>11, <2>1, NobodyMoves
<1>13. SettledOnChain' /\ Advance
  BY <1>1, <1>6 DEF SettledOnChain, Advance, QueueInv, StillOnChain, OnChain
<1>14. QED
  BY <1>7, <1>12, <1>13 DEF QueueInv

\* Taking one transaction out of the mempool moves up those behind it.
LEMMA Removed ==
  ASSUME NEW q \in Seq(Transaction), NEW k \in 1 .. Len(q)
  PROVE  /\ RemoveAt(q, k) \in Seq(Transaction) /\ DOMAIN RemoveAt(q, k) = 1 .. Len(q) - 1
         /\ \A i \in 1 .. Len(q) - 1 : RemoveAt(q, k)[i] = q[IF i < k THEN i ELSE i + 1]
<1> DEFINE front == SubSeq(q, 1, k - 1)
           back == SubSeq(q, k + 1, Len(q))
<1>1. /\ front \in Seq(Transaction) /\ Len(front) = k - 1
      /\ \A i \in 1 .. k - 1 : front[i] = q[i]
  OBVIOUS
<1>2. /\ back \in Seq(Transaction) /\ Len(back) = Len(q) - k
      /\ \A i \in 1 .. Len(q) - k : back[i] = q[k + i]
  OBVIOUS
<1>3. RemoveAt(q, k) = front \o back
  BY DEF RemoveAt
<1> HIDE DEF front, back
<1>4. RemoveAt(q, k) \in Seq(Transaction) /\ Len(RemoveAt(q, k)) = Len(q) - 1
  BY <1>1, <1>2, <1>3
<1>5. ASSUME NEW i \in 1 .. Len(q) - 1 PROVE RemoveAt(q, k)[i] = q[IF i < k THEN i ELSE i + 1]
  <2>1. CASE i < k
    BY <1>1, <1>2, <1>3, <2>1
  <2>2. CASE i >= k
    <3>1. (front \o back)[i] = back[i - (k - 1)]
      BY <1>1, <1>2, <2>2
    <3>2. back[i - (k - 1)] = q[i + 1]
      BY <1>2, <2>2
    <3>3. QED
      BY <1>3, <2>2, <3>1, <3>2
  <2>3. QED
    BY <2>1, <2>2
<1>6. QED
  BY <1>4, <1>5

LEMMA DropTransactionStep == ASSUME QueueInv, DropTransaction PROVE QueueInv' /\ Advance
<1>1. /\ rows' = rows /\ workers' = workers /\ settleLock' = settleLock /\ chain' = chain
      /\ mempool \in Seq(Transaction) /\ Len(mempool) \in Nat
  BY DEF DropTransaction, queueVars, QueueInv, Shape
<1>2. PICK k \in 1 .. Len(mempool) : mempool' = RemoveAt(mempool, k)
  BY DEF DropTransaction
<1> DEFINE from == [i \in 1 .. Len(mempool) |-> IF i < k THEN i ELSE i + 1]
<1>3. /\ mempool' \in Seq(Transaction) /\ DOMAIN mempool' = 1 .. Len(mempool) - 1
      /\ \A i \in DOMAIN mempool' : from[i] \in DOMAIN mempool /\ mempool'[i] = mempool[from[i]]
  <2>1. /\ mempool' \in Seq(Transaction) /\ DOMAIN mempool' = 1 .. Len(mempool) - 1
        /\ \A i \in 1 .. Len(mempool) - 1 : mempool'[i] = mempool[IF i < k THEN i ELSE i + 1]
    BY <1>1, <1>2, Removed
  <2>2. \A i \in 1 .. Len(mempool) - 1 :
          from[i] = (IF i < k THEN i ELSE i + 1) /\ from[i] \in 1 .. Len(mempool)
    BY <1>1
  <2>3. DOMAIN mempool = 1 .. Len(mempool)
    BY <1>1
  <2> HIDE DEF from
  <2>4. QED
    BY <2>1, <2>2, <2>3
<1>4. \A i, j \in DOMAIN mempool' : from[i] = from[j] => i = j
  BY <1>1, <1>3
<1>5. AllWatched' /\ \A w \in Settlers : Thread(w)'
  <2>1. DatesKept /\ StillOnChain /\ \A w \in Settlers : Undisturbed(w)
    BY <1>1 DEF DatesKept, StillOnChain, OnChain, Undisturbed, StateKept
  <2> HIDE DEF from
  <2>2. QED
    BY <1>1, <1>3, <1>4, <2>1, NobodyMoves
<1>6. Shape' /\ SettledOnChain' /\ Advance
  BY <1>1, <1>3 DEF Shape, SettledOnChain, Advance, QueueInv
<1>7. QED
  BY <1>5, <1>6 DEF QueueInv

\* A crash leaves no thread with anything to do and no transaction with anybody who waits for it.
LEMMA StopWorkersStep == ASSUME QueueInv, StopWorkers PROVE QueueInv' /\ Advance
<1>1. /\ rows' = rows /\ chain' = chain /\ workers' = [w \in Settlers |-> Idle]
      /\ mempool' = [i \in DOMAIN mempool |-> [mempool[i] EXCEPT !.by = NoOne]]
  BY DEF StopWorkers
<1>2. \A i \in DOMAIN mempool' : mempool'[i] \in Transaction /\ mempool'[i].by = NoOne
  <2>1. \A i \in DOMAIN mempool : mempool[i] \in Transaction
    BY DEF QueueInv, Shape
  <2>2. QED
    BY <1>1, <2>1 DEF Transaction
<1>3. mempool' \in Seq(Transaction)
  BY <1>1, <1>2 DEF QueueInv, Shape
<1>4. Shape'
  BY <1>1, <1>3 DEF QueueInv, Shape, Worker, Idle, WorkerPcs, TxStates
<1>5. \A w \in Settlers : Thread(w)'
  BY <1>1 DEF Thread, Settling, Releasing, Waiting, SettlePcs, ReleasePcs, Idle
<1>6. AllWatched'
  BY <1>2 DEF AllWatched, Watched
<1>7. SettledOnChain' /\ Advance
  BY <1>1 DEF SettledOnChain, Advance, QueueInv
<1>8. QED
  BY <1>4, <1>5, <1>6, <1>7 DEF QueueInv

\* A receipt that comes in touches no row but a new one.
LEMMA ArriveStep == ASSUME QueueInv, NEW r \in Receipts, Arrive(r) PROVE QueueInv' /\ Advance
<1>1. PICK fee \in 1 .. MaxFee[r] : add(r, fee)
  BY DEF Arrive
<1> DEFINE place == Cardinality(Receipts \ InState("none")) + 1
           row == [state |-> "queued", attempts |-> 0, fee |-> fee, created |-> place]
           same == [i \in DOMAIN mempool |-> i]
<1>2. /\ workers' = workers /\ settleLock' = settleLock /\ chain' = chain /\ mempool' = mempool
      /\ rows[r].state = "none" /\ rows' = [rows EXCEPT ![r] = row]
  BY <1>1 DEF Arrive, add, chainVars
<1>3. row \in AnyRow
  <2>1. place \in Nat
    BY QueueAssumption, FS_Subset, FS_CardinalityType
  <2>2. fee \in Nat
    BY QueueAssumption
  <2>3. QED
    BY <2>1, <2>2 DEF AnyRow, RowStates
<1>4. row.state = "queued" /\ rows'[r] = row /\ \A other \in Receipts \ {r} : rows'[other] = rows[other]
  BY <1>2 DEF QueueInv, Shape
<1> HIDE DEF row
<1>5. Shape'
  BY <1>2, <1>3 DEF QueueInv, Shape
<1>6. DatesKept /\ StillOnChain /\ \A w \in Settlers : Undisturbed(w)
  BY <1>2, <1>4 DEF DatesKept, StillOnChain, OnChain, Undisturbed, StateKept
<1>7. AllWatched' /\ \A w \in Settlers : Thread(w)'
  <2>1. /\ \A i \in DOMAIN mempool', w \in Settlers : mempool'[i].by = w =>
             same[i] \in DOMAIN mempool /\ mempool'[i] = mempool[same[i]] /\ workers'[w].tx = workers[w].tx
        /\ \A i, j \in DOMAIN mempool' : same[i] = same[j] => i = j
        /\ mempool' \in Seq(Transaction)
    BY <1>2 DEF QueueInv, Shape
  <2> HIDE DEF same
  <2>2. QED
    BY <1>6, <2>1, NobodyMoves
<1>8. SettledOnChain' /\ Advance
  BY <1>2, <1>4 DEF SettledOnChain, Advance, QueueInv
<1>9. QED
  BY <1>5, <1>7, <1>8 DEF QueueInv

-----------------------------------------------------------------------------
(* The theorems *)

LEMMA QueueInvInit == QueueInit => QueueInv
<1> SUFFICES ASSUME QueueInit PROVE QueueInv
  OBVIOUS
<1>1. Shape
  BY DEF QueueInit, Shape, AnyRow, RowStates, NoRow, Worker, Idle, WorkerPcs, TxStates, ChainStates
<1>2. SettledOnChain
  BY DEF QueueInit, SettledOnChain, NoRow
<1>3. AllWatched
  BY DEF QueueInit, AllWatched
<1>4. \A w \in Settlers : Thread(w)
  BY DEF QueueInit, Thread, Settling, Releasing, Waiting, SettlePcs, ReleasePcs, Idle
<1>5. QED
  BY <1>1, <1>2, <1>3, <1>4 DEF QueueInv

LEMMA QueueInvNext == QueueInv /\ [QueueNext]_qvars => QueueInv' /\ Advance
<1> SUFFICES ASSUME QueueInv, [QueueNext]_qvars PROVE QueueInv' /\ Advance
  OBVIOUS
<1>1. ASSUME NEW r \in Receipts, Arrive(r) PROVE QueueInv' /\ Advance
  BY <1>1, ArriveStep
<1>2. ASSUME NEW w \in Settlers, Work(w) PROVE QueueInv' /\ Advance
  BY <1>2, TakeBatchStep, SubmitBatchStep, AwaitBatchStep, SubmitOneStep, AwaitOneStep, MarkSettledStep, ReturnStep,
     TakeDueStep, SubmitReleaseStep, AwaitReleaseStep, MarkReleasedStep DEF Work
<1>3. CASE Environment
  BY <1>3, MineStep, DropTransactionStep, TopUpStep, BecomesUnpayableStep, WindowPassesStep, OthersActStep DEF Environment
<1>4. CASE StopWorkers
  BY <1>4, StopWorkersStep
<1>5. CASE UNCHANGED qvars
  <2>1. UNCHANGED <<queueVars, mempool>> /\ chain' = chain
    BY <1>5 DEF qvars, chainVars
  <2>2. QED
    BY <2>1, ChainMoves DEF StillOnChain, OnChain, QueueInv, Shape
<1>6. QED
  BY <1>1, <1>2, <1>3, <1>4, <1>5 DEF QueueNext

\* However batches fall apart, transactions vanish and the Relay crashes, a row says "settled" only of a receipt
\* that is on the chain.
THEOREM SettledIsOnChain == QueueSpec => []SettledOnChain
<1>1. QueueInv => SettledOnChain
  BY DEF QueueInv
<1>2. QED
  BY <1>1, QueueInvInit, QueueInvNext, PTL DEF QueueSpec

\* And rows only advance, whichever thread writes them.
THEOREM RowsOnlyAdvance == QueueSpec => RowsAdvance
<1>1. QueueInv /\ [QueueNext]_qvars => [Advance]_qvars
  BY QueueInvNext
<1>2. QED
  BY <1>1, QueueInvInit, QueueInvNext, PTL DEF QueueSpec, RowsAdvance

-----------------------------------------------------------------------------
(* With a dispute window no shorter than the chain's, what is marked released is decided *)

Decided(r) == chain.status[r] \in {"disputed", "ended"}

\* What a thread has in hand to release is past its window; once the transaction is over, nothing of it is due.
Ripe(w) ==
  workers[w].pc \in ReleasePcs =>
    \A r \in workers[w].todo :
      /\ chain.status[r] # "pending"
      /\ workers[w].pc = "markReleased" \/ workers[w].tx \in {"mined", "reverted"} => Decided(r)

ReleaseInv == QueueInv /\ ReleasedEnded /\ \A w \in Settlers : Ripe(w)

\* No receipt goes back on the chain.
StillDecided ==
  \A r \in Receipts :
    /\ Decided(r) => Decided(r)'
    /\ OnChain(r) /\ chain.status[r] # "pending" => chain'.status[r] # "pending"

\* A released row's receipt is past escrow as the contract means it.
LEMMA ReleasedDecided ==
  ASSUME QueueInv, ReleasedEnded, NEW r \in Receipts, rows[r].state = "released" PROVE Decided(r)
BY DEF QueueInv, SettledOnChain, ReleasedEnded, InState, Decided, Escrowed

LEMMA SettledIsOn ==
  ASSUME QueueInv, NEW w \in Settlers, workers[w].pc \in ReleasePcs, NEW r \in workers[w].todo
  PROVE  r \in Receipts /\ OnChain(r)
BY DEF QueueInv, Thread, Releasing, SettledOnChain, OnChain, Shape, Worker

\* What a thread has in hand stays ripe while the thread stays where it is.
LEMMA RipeKept ==
  ASSUME ReleaseInv, StillDecided, NEW w \in Settlers, workers'[w] = workers[w] PROVE Ripe(w)'
BY SettledIsOn DEF ReleaseInv, Ripe, StillDecided, Decided

\* Rows released before stay decided; new ones have to be.
LEMMA ReleasedKept ==
  ASSUME ReleaseInv, StillDecided,
         \A r \in Receipts : rows'[r].state = "released" => rows[r].state = "released" \/ Decided(r)
  PROVE  ReleasedEnded'
<1> SUFFICES ASSUME NEW r \in Receipts, rows'[r].state = "released" PROVE chain'.status[r] \notin {"pending", "due"}
  BY DEF ReleasedEnded, InState
<1>1. Decided(r)
  BY ReleasedDecided DEF ReleaseInv
<1>2. QED
  BY <1>1 DEF StillDecided, Decided

\* A step of a thread that leaves the chain alone.
LEMMA RipeStep ==
  ASSUME ReleaseInv, NEW w \in Settlers, chain' = chain,
         \A other \in Settlers \ {w} : workers'[other] = workers[other], Ripe(w)',
         \A r \in Receipts : rows'[r].state = "released" => rows[r].state = "released" \/ Decided(r)
  PROVE  ReleasedEnded' /\ \A other \in Settlers : Ripe(other)'
<1>1. StillDecided
  BY DEF StillDecided, Decided
<1>2. QED
  BY <1>1, RipeKept, ReleasedKept

\* settle_queued hands nothing to release_due.
LEMMA SettleStepsRipe ==
  ASSUME ReleaseInv, NEW w \in Settlers,
         TakeBatch(w) \/ SubmitBatch(w) \/ AwaitBatch(w) \/ SubmitOne(w) \/ AwaitOne(w) \/ MarkSettled(w) \/ Return(w)
  PROVE  ReleasedEnded' /\ \A other \in Settlers : Ripe(other)'
<1>1. rows \in [Receipts -> AnyRow] /\ workers[w] \in Worker
  BY DEF ReleaseInv, QueueInv, Shape
<1>2. chain' = chain /\ \A other \in Settlers \ {w} : workers'[other] = workers[other]
  BY DEF ReleaseInv, QueueInv, Shape, TakeBatch, SubmitBatch, AwaitBatch, SubmitOne, AwaitOne, MarkSettled, Return,
         submit, Failed, chainVars
<1>3. workers'[w].pc \notin ReleasePcs
  <2>1. workers \in [Settlers -> Worker]
    BY DEF ReleaseInv, QueueInv, Shape
  <2>2. workers'[w].pc \in {"batch", "mark", "one"} \/ ~(TakeBatch(w) \/ AwaitBatch(w))
    <3>1. CASE TakeBatch(w)
      BY <1>1, <2>1, <3>1 DEF TakeBatch, Worker
    <3>2. CASE AwaitBatch(w)
      <4>1. CASE workers' = [workers EXCEPT ![w] = [Idle EXCEPT !.pc = "mark", !.done = workers[w].todo]]
        BY <2>1, <4>1 DEF Idle
      <4>2. CASE workers' = [workers EXCEPT ![w].pc = "one", ![w].tx = "none"]
        BY <1>1, <2>1, <4>2 DEF Worker
      <4>3. QED
        BY <3>2, <4>1, <4>2 DEF AwaitBatch
    <3>3. QED
      BY <3>1, <3>2
  <2>3. CASE SubmitBatch(w) \/ Return(w)
    BY <1>1, <2>1, <2>3 DEF SubmitBatch, submit, Return, Worker, Idle, ReleasePcs
  <2>4. CASE SubmitOne(w) \/ AwaitOne(w)
    BY <1>1, <2>1, <2>4 DEF SubmitOne, AwaitOne, submit, Failed, Worker, ReleasePcs
  <2>5. CASE MarkSettled(w)
    BY <1>1, <2>1, <2>5 DEF MarkSettled, AllTried, Worker, ReleasePcs
  <2>6. QED
    BY <2>2, <2>3, <2>4, <2>5 DEF ReleasePcs
<1>4. \A r \in Receipts : rows'[r].state = "released" => rows[r].state = "released"
  BY <1>1 DEF TakeBatch, SubmitBatch, AwaitBatch, SubmitOne, AwaitOne, MarkSettled, Return, Failed, mark, fail, AnyRow
<1>5. QED
  BY <1>2, <1>3, <1>4, RipeStep DEF Ripe

\* Nothing due is left of a release that would be refused.
LEMMA NothingDue ==
  ASSUME ReleaseInv, NEW w \in Settlers, workers[w].pc \in ReleasePcs, ~Releases(workers[w].todo)
  PROVE  \A r \in workers[w].todo : Decided(r)
BY SettledIsOn DEF ReleaseInv, Ripe, Releases, OnChain, Decided, Escrowed

LEMMA ReleaseStepsRipe ==
  ASSUME ReleaseInv, "window" \notin Faults, NEW w \in Settlers,
         TakeDue(w) \/ SubmitRelease(w) \/ AwaitRelease(w) \/ MarkReleased(w)
  PROVE  ReleasedEnded' /\ \A other \in Settlers : Ripe(other)'
<1>1. /\ rows \in [Receipts -> AnyRow] /\ workers[w] \in Worker /\ workers \in [Settlers -> Worker]
      /\ workers[w].tx # "none" => workers[w].pc \in SentPcs
      /\ Ripe(w) /\ QueueInv
  BY DEF ReleaseInv, QueueInv, Shape, Thread, Waiting
<1>2. chain' = chain /\ \A other \in Settlers \ {w} : workers'[other] = workers[other]
  BY <1>1 DEF TakeDue, SubmitRelease, AwaitRelease, MarkReleased, submit, chainVars
<1>3. CASE TakeDue(w)
  <2>1. PICK S \in (SUBSET due_for_release) \ {{}} : workers' = [workers EXCEPT ![w].pc = "release", ![w].todo = S]
    BY <1>3 DEF TakeDue
  <2>2. \A r \in S : chain.status[r] # "pending"
    BY DEF due_for_release
  <2>3. /\ workers'[w].pc = "release" /\ workers'[w].todo = S
        /\ workers'[w].tx = "none" /\ rows' = rows
    <3>1. workers[w].tx = "none" /\ rows' = rows
      BY <1>3 DEF TakeDue, Idle
    <3>2. workers'[w] = [workers[w] EXCEPT !.pc = "release", !.todo = S]
      BY <1>1, <2>1
    <3>3. QED
      BY <1>1, <3>1, <3>2 DEF Worker
  <2>4. Ripe(w)'
    BY <1>2, <2>2, <2>3 DEF Ripe
  <2>5. QED
    BY <1>2, <2>3, <2>4, RipeStep
<1>4. CASE SubmitRelease(w)
  <2>1. workers[w].pc = "release" /\ workers[w].tx = "none" /\ rows' = rows
    BY <1>1, <1>4 DEF SubmitRelease, SentPcs
  <2>2. CASE submit(w, "releaseSent")
    <3>1. workers'[w].pc = "releaseSent" /\ workers'[w].todo = workers[w].todo /\ workers'[w].tx = "waiting"
      BY <1>1, <2>2 DEF submit, Worker
    <3>2. Ripe(w)'
      BY <1>1, <1>2, <2>1, <3>1 DEF Ripe, ReleasePcs
    <3>3. QED
      BY <1>2, <2>1, <3>2, RipeStep
  <2>3. CASE workers' = [workers EXCEPT ![w] = Idle]
    <3>1. workers'[w].pc = "idle"
      BY <1>1, <2>3 DEF Idle
    <3>2. QED
      BY <1>2, <2>1, <3>1, RipeStep DEF Ripe, ReleasePcs
  <2>4. CASE ~Succeeds(Submission(w)) /\ workers' = [workers EXCEPT ![w].pc = "markReleased"]
    <3>1. workers'[w].pc = "markReleased" /\ workers'[w].todo = workers[w].todo
      BY <1>1, <2>4 DEF Worker
    <3>2. \A r \in workers[w].todo : Decided(r)
      BY <2>1, <2>4, NothingDue DEF Succeeds, Submission, Items, ReleasePcs
    <3>3. Ripe(w)'
      BY <1>2, <3>1, <3>2 DEF Ripe, Decided
    <3>4. QED
      BY <1>2, <2>1, <3>3, RipeStep
  <2>5. QED
    BY <1>4, <2>2, <2>3, <2>4 DEF SubmitRelease
<1>5. CASE AwaitRelease(w)
  <2>1. workers[w].pc = "releaseSent" /\ rows' = rows
    BY <1>5 DEF AwaitRelease
  <2>2. CASE /\ workers[w].tx \in {"mined", "reverted"}
             /\ workers' = [workers EXCEPT ![w].pc = "markReleased", ![w].tx = "none"]
    <3>1. workers'[w].todo = workers[w].todo
      BY <1>1, <2>2 DEF Worker
    <3>2. \A r \in workers[w].todo : Decided(r)
      BY <1>1, <2>1, <2>2 DEF Ripe, ReleasePcs
    <3>3. Ripe(w)'
      BY <1>2, <3>1, <3>2 DEF Ripe, Decided
    <3>4. QED
      BY <1>2, <2>1, <3>3, RipeStep
  <2>3. CASE workers' = [workers EXCEPT ![w] = Idle]
    <3>1. workers'[w].pc = "idle"
      BY <1>1, <2>3 DEF Idle
    <3>2. QED
      BY <1>2, <2>1, <3>1, RipeStep DEF Ripe, ReleasePcs
  <2>4. QED
    BY <1>5, <2>2, <2>3 DEF AwaitRelease
<1>6. CASE MarkReleased(w)
  <2>1. PICK r \in workers[w].todo :
          /\ mark(r, "released")
          /\ workers' = IF workers[w].todo = {r} THEN [workers EXCEPT ![w] = Idle]
                        ELSE [workers EXCEPT ![w].todo = @ \ {r}]
    BY <1>6 DEF MarkReleased
  <2>2. r \in Receipts /\ \A q \in workers[w].todo : Decided(q)
    BY <1>1, <1>6 DEF MarkReleased, Ripe, ReleasePcs, Worker
  <2>3. \A q \in Receipts \ {r} : rows'[q] = rows[q]
    BY <1>1, <2>1, <2>2, MarkedRow DEF RowStates
  <2>4. workers'[w].todo \subseteq workers[w].todo
    BY <1>1, <2>1 DEF Worker, Idle
  <2>5. Ripe(w)'
    BY <1>2, <2>2, <2>4 DEF Ripe, Decided
  <2>6. QED
    BY <1>2, <2>2, <2>3, <2>5, RipeStep
<1>7. QED
  BY <1>3, <1>4, <1>5, <1>6

\* A mined transaction takes receipts from nothing to escrow and from due to ended, and nothing else.
LEMMA MinedStatus ==
  ASSUME Shape, NEW tx \in Transaction, chain' = IF Succeeds(tx) THEN Effect(tx) ELSE chain
  PROVE  /\ StillDecided
         /\ tx.kind # "settle" => \A r \in tx.items : chain'.status[r] # "due"
<1>1. tx.items \in SUBSET Receipts
  BY DEF Transaction
<1>2. CASE Succeeds(tx) /\ tx.kind = "settle"
  <2>1. chain'.status = [r \in Receipts |-> IF r \in tx.items THEN "pending" ELSE chain.status[r]]
    BY <1>2 DEF Effect, settleBatch, Shape
  <2>2. \A r \in tx.items : chain.status[r] = "none"
    BY <1>2 DEF Succeeds, Settles
  <2>3. QED
    BY <1>1, <1>2, <2>1, <2>2 DEF StillDecided, Decided, OnChain, Escrowed
<1>3. CASE Succeeds(tx) /\ tx.kind # "settle"
  <2> DEFINE due == {r \in tx.items : chain.status[r] = "due"}
  <2>1. chain' = Ended(due) /\ due \in SUBSET Receipts
    BY <1>1, <1>3 DEF Effect, releaseBatch
  <2>2. \A r \in Receipts : r \in tx.items /\ chain.status[r] = "due" => r \in due
    OBVIOUS
  <2> HIDE DEF due
  <2>3. chain'.status = [r \in Receipts |-> IF r \in due THEN "ended" ELSE chain.status[r]]
    BY <2>1, EndedStatus
  <2>4. QED
    BY <1>1, <2>2, <2>3 DEF StillDecided, Decided
<1>4. CASE ~Succeeds(tx)
  <2>1. chain' = chain
    BY <1>4
  <2>2. tx.kind # "settle" => \A r \in tx.items : chain.status[r] # "due"
    BY <1>4 DEF Succeeds, Releases
  <2>3. QED
    BY <2>1, <2>2 DEF StillDecided, Decided
<1>5. QED
  BY <1>2, <1>3, <1>4

LEMMA MineRipe == ASSUME ReleaseInv, Mine PROVE ReleasedEnded' /\ \A w \in Settlers : Ripe(w)'
<1> DEFINE tx == Head(mempool)
<1>1. /\ Shape /\ tx \in Transaction /\ tx = mempool[1] /\ 1 \in DOMAIN mempool /\ rows' = rows
      /\ workers \in [Settlers -> Worker]
  BY DEF Mine, ReleaseInv, QueueInv, Shape
<1>2. /\ StillDecided
      /\ tx.kind # "settle" => \A r \in tx.items : chain'.status[r] # "due"
  BY <1>1, MinedStatus DEF Mine
<1>3. \A w \in Settlers : workers'[w] = IF w = tx.by
                                        THEN [workers[w] EXCEPT !.tx = IF Succeeds(tx) THEN "mined" ELSE "reverted"]
                                        ELSE workers[w]
  BY DEF Mine
<1> HIDE DEF tx
<1>4. ASSUME NEW w \in Settlers PROVE Ripe(w)'
  <2>1. CASE tx.by # w
    BY <1>2, <1>3, <2>1, RipeKept
  <2>2. CASE tx.by = w
    <3>1. tx = Submission(w) /\ workers[w].tx = "waiting"
      BY <1>1, <2>2, QueueAssumption DEF ReleaseInv, QueueInv, AllWatched, Watched
    <3>2. workers'[w].pc = workers[w].pc /\ workers'[w].todo = workers[w].todo
      BY <1>1, <1>3, <2>2 DEF Worker
    <3>3. workers[w].pc \in SentPcs
      BY <3>1 DEF ReleaseInv, QueueInv, Thread, Waiting
    <3>4. ASSUME workers[w].pc \in ReleasePcs, NEW r \in workers[w].todo
          PROVE  chain'.status[r] # "pending" /\ Decided(r)'
      <4>1. tx.kind # "settle" /\ r \in tx.items
        BY <3>1, <3>3, <3>4 DEF Submission, Items, ReleasePcs, SentPcs
      <4>2. r \in Receipts /\ OnChain(r) /\ chain.status[r] # "pending"
        BY <3>4, SettledIsOn DEF ReleaseInv, Ripe
      <4>3. chain'.status[r] # "pending" /\ chain'.status[r] # "due"
        BY <1>2, <4>1, <4>2 DEF StillDecided, OnChain, Escrowed, Decided
      <4>4. OnChain(r)'
        BY <4>2, MinedChain, <1>1 DEF Mine, tx, StillOnChain
      <4>5. QED
        BY <4>3, <4>4 DEF OnChain, Escrowed, Decided
    <3>5. QED
      BY <3>2, <3>4 DEF Ripe
  <2>3. QED
    BY <2>1, <2>2
<1>5. ReleasedEnded'
  BY <1>1, <1>2, ReleasedKept
<1>6. QED
  BY <1>4, <1>5

\* Steps of others, of the Relay's clients and of the machine it runs on.
LEMMA OtherStepsRipe ==
  ASSUME ReleaseInv,
         \/ \E r \in Receipts : Arrive(r) \/ BecomesUnpayable(r) \/ WindowPasses(r) \/ OthersAct(r)
         \/ DropTransaction \/ TopUp \/ UNCHANGED qvars
  PROVE  ReleasedEnded' /\ \A w \in Settlers : Ripe(w)'
<1>1. Shape /\ rows \in [Receipts -> AnyRow]
  BY DEF ReleaseInv, QueueInv, Shape
<1>2. workers' = workers
  BY DEF Arrive, BecomesUnpayable, WindowPasses, OthersAct, DropTransaction, TopUp, queueVars, qvars
<1>3. StillDecided
  <2>1. CASE \E r \in Receipts : BecomesUnpayable(r) \/ WindowPasses(r)
    BY <1>1, <2>1 DEF BecomesUnpayable, WindowPasses, StillDecided, Decided, OnChain, Shape
  <2>2. ASSUME NEW r \in Receipts, OthersAct(r) PROVE StillDecided
    <3>1. Ended({r}).status = [q \in Receipts |-> IF q \in {r} THEN "ended" ELSE chain.status[q]]
          /\ DOMAIN Ended({r}) = {"status", "balance", "spent", "active", "exposure"}
      BY <1>1, EndedStatus DEF Shape
    <3>2. \/ chain'.status = [chain.status EXCEPT ![r] = "disputed"]
          \/ chain'.status = [q \in Receipts |-> IF q \in {r} THEN "ended" ELSE chain.status[q]]
      BY <1>1, <2>2, <3>1 DEF OthersAct, Shape
    <3>3. QED
      BY <1>1, <3>2 DEF StillDecided, Decided, OnChain, Shape
  <2>3. CASE chain' = chain
    BY <2>3 DEF StillDecided, Decided
  <2>4. QED
    BY <2>1, <2>2, <2>3 DEF Arrive, DropTransaction, TopUp, chainVars, qvars
<1>4. \A r \in Receipts : rows'[r].state = "released" => rows[r].state = "released"
  <2>1. ASSUME NEW r \in Receipts, Arrive(r) PROVE \A q \in Receipts : rows'[q].state = "released" => rows'[q] = rows[q]
    <3>1. PICK fee \in 1 .. MaxFee[r] : add(r, fee)
      BY <2>1 DEF Arrive
    <3>2. CASE rows' = rows
      BY <3>2
    <3>3. CASE rows' # rows
      <4> DEFINE new == [state |-> "queued", attempts |-> 0, fee |-> fee,
                         created |-> Cardinality(Receipts \ InState("none")) + 1]
      <4>1. rows' = [rows EXCEPT ![r] = new] /\ new.state = "queued"
        BY <3>1, <3>3 DEF add
      <4> HIDE DEF new
      <4>2. QED
        BY <1>1, <4>1
    <3>4. QED
      BY <3>2, <3>3
  <2>2. CASE rows' = rows
    BY <2>2
  <2>3. QED
    BY <2>1, <2>2 DEF BecomesUnpayable, WindowPasses, OthersAct, DropTransaction, TopUp, queueVars, qvars
<1>5. QED
  BY <1>2, <1>3, <1>4, RipeKept, ReleasedKept

LEMMA StopWorkersRipe == ASSUME ReleaseInv, StopWorkers PROVE ReleasedEnded' /\ \A w \in Settlers : Ripe(w)'
<1>1. rows' = rows /\ chain' = chain /\ \A w \in Settlers : workers'[w] = Idle
  BY DEF StopWorkers
<1>2. \A w \in Settlers : Ripe(w)'
  BY <1>1 DEF Ripe, Idle, ReleasePcs
<1>3. QED
  BY <1>1, <1>2, ReleasedKept DEF StillDecided, Decided

LEMMA ReleaseInvNext ==
  ASSUME "window" \notin Faults PROVE ReleaseInv /\ [QueueNext]_qvars => ReleaseInv'
<1> SUFFICES ASSUME ReleaseInv, [QueueNext]_qvars PROVE ReleaseInv'
  OBVIOUS
<1>1. QueueInv'
  BY QueueInvNext DEF ReleaseInv
<1>2. ASSUME NEW w \in Settlers, Work(w) PROVE ReleasedEnded' /\ \A other \in Settlers : Ripe(other)'
  BY <1>2, SettleStepsRipe, ReleaseStepsRipe DEF Work
<1>3. CASE Mine
  BY <1>1, <1>3, MineRipe DEF ReleaseInv
<1>4. CASE StopWorkers
  BY <1>1, <1>4, StopWorkersRipe DEF ReleaseInv
<1>5. CASE \/ \E r \in Receipts : Arrive(r) \/ BecomesUnpayable(r) \/ WindowPasses(r) \/ OthersAct(r)
           \/ DropTransaction \/ TopUp \/ UNCHANGED qvars
  BY <1>1, <1>5, OtherStepsRipe DEF ReleaseInv
<1>6. QED
  BY <1>1, <1>2, <1>3, <1>4, <1>5 DEF QueueNext, Environment, ReleaseInv

\* A Relay whose dispute window is not shorter than the contract's stops releasing only what is decided there.
THEOREM ReleasedIsEnded == ASSUME "window" \notin Faults PROVE QueueSpec => []ReleasedEnded
<1>1. QueueInit => ReleaseInv
  BY QueueInvInit DEF QueueInit, ReleaseInv, ReleasedEnded, InState, NoRow, Ripe, ReleasePcs, Idle
<1>2. ReleaseInv /\ [QueueNext]_qvars => ReleaseInv'
  BY ReleaseInvNext
<1>3. ReleaseInv => ReleasedEnded
  BY DEF ReleaseInv
<1>4. QED
  BY <1>1, <1>2, <1>3, PTL DEF QueueSpec

-----------------------------------------------------------------------------
(* Amounts: a Provider's exposure is what its receipts hold in escrow *)

HasRow(r) == rows[r].state # "none"
ExposureOf(c, p) == FeesOf(OfProvider({r \in Receipts : c.status[r] \in Escrowed}, p))

Chains == [status: [Receipts -> ChainStates], balance: [Owners -> Nat], active: SUBSET Keys, spent: [Keys -> Nat],
           exposure: [Providers -> Int]]
Exact(c) == c \in Chains /\ \A p \in Providers : c.exposure[p] = ExposureOf(c, p)

\* What settles or waits to settle has its row, and so its fee.
Recorded ==
  /\ \A r \in Receipts : chain.status[r] \in Escrowed => HasRow(r)
  /\ \A i \in DOMAIN mempool : \A r \in mempool[i].items : HasRow(r)

\* A row that is still queued has an attempt left.
Tried ==
  \A r \in Receipts :
    rows[r].attempts <= MAX_SETTLE_ATTEMPTS /\ (rows[r].state = "queued" => rows[r].attempts < MAX_SETTLE_ATTEMPTS)

Counters == settleLock \in Settlers \cup {NoOne} /\ funded \in BOOLEAN /\ crashes \in 0 .. MaxCrashes

AmountsInv == QueueInv /\ Exact(chain) /\ Recorded /\ Tried /\ Counters

LEMMA FeesNat == ASSUME Shape, NEW S \in SUBSET Receipts PROVE FeesOf(S) \in Nat
<1> DEFINE f == [r \in Receipts |-> rows[r].fee]
<1>1. IsFiniteSet(S)
  BY QueueAssumption, FS_Subset
<1>2. \A r \in S : f[r] \in Nat
  BY DEF Shape, AnyRow
<1> HIDE DEF f
<1>3. SumFunctionOnSet(f, S) \in Nat
  BY <1>1, <1>2, SumNat
<1>4. QED
  BY <1>3 DEF FeesOf, f

\* Fees of rows that did not change.
LEMMA FeesSame ==
  ASSUME NEW S \in SUBSET Receipts, \A r \in S : rows'[r].fee = rows[r].fee
  PROVE  FeesOf(S)' = FeesOf(S)
<1> DEFINE f == [r \in Receipts |-> rows[r].fee]
           g == [r \in Receipts |-> rows'[r].fee]
<1>1. IsFiniteSet(S)
  BY QueueAssumption, FS_Subset
<1>2. \A r \in S : g[r] = f[r]
  OBVIOUS
<1> HIDE DEF f, g
<1>3. SumFunctionOnSet(g, S) = SumFunctionOnSet(f, S)
  BY <1>1, <1>2, SumSame
<1>4. QED
  BY <1>3 DEF FeesOf, f, g

LEMMA FeesUnion ==
  ASSUME Shape, NEW S \in SUBSET Receipts, NEW T \in SUBSET Receipts, S \cap T = {}
  PROVE  FeesOf(S \cup T) = FeesOf(S) + FeesOf(T)
<1> DEFINE f == [r \in Receipts |-> rows[r].fee]
<1>1. IsFiniteSet(S) /\ IsFiniteSet(T)
  BY QueueAssumption, FS_Subset
<1>2. \A r \in S \cup T : f[r] \in Int
  BY DEF Shape, AnyRow
<1> HIDE DEF f
<1>3. SumFunctionOnSet(f, S \cup T) = SumFunctionOnSet(f, S) + SumFunctionOnSet(f, T)
  BY <1>1, <1>2, SumUnion
<1>4. QED
  BY <1>3 DEF FeesOf, f

-----------------------------------------------------------------------------
(* What transactions do to the amounts *)

\* The fields of a chain that is changed in some of them.
LEMMA ChainSet ==
  ASSUME NEW c \in Chains, NEW s, NEW b, NEW t, NEW e
  PROVE  [c EXCEPT !.status = s, !.balance = b, !.spent = t, !.exposure = e]
           = [status |-> s, balance |-> b, active |-> c.active, spent |-> t, exposure |-> e]
<1>1. PICK d : d = [c EXCEPT !.status = s, !.balance = b, !.spent = t, !.exposure = e]
  OBVIOUS
<1>2. d = [status |-> s, balance |-> b, active |-> c.active, spent |-> t, exposure |-> e]
  BY <1>1 DEF Chains
<1>3. QED
  BY <1>1, <1>2

LEMMA ChainEnds ==
  ASSUME NEW c \in Chains, NEW s, NEW e
  PROVE  [c EXCEPT !.status = s, !.exposure = e]
           = [status |-> s, balance |-> c.balance, active |-> c.active, spent |-> c.spent, exposure |-> e]
<1>1. PICK d : d = [c EXCEPT !.status = s, !.exposure = e]
  OBVIOUS
<1>2. d = [status |-> s, balance |-> c.balance, active |-> c.active, spent |-> c.spent, exposure |-> e]
  BY <1>1 DEF Chains
<1>3. QED
  BY <1>1, <1>2

\* The contract after a batch that settles.
LEMMA BatchFields ==
  ASSUME chain \in Chains, NEW S, NEW c, c = settleBatch(S)
  PROVE  /\ c.status = [r \in Receipts |-> IF r \in S THEN "pending" ELSE chain.status[r]]
         /\ c.balance = [o \in Owners |-> chain.balance[o] - FeesOf(OfOwner(S, o))]
         /\ c.spent = [k \in Keys |-> IF Limit[k] = 0 THEN chain.spent[k] ELSE chain.spent[k] + FeesOf(OfKey(S, k))]
         /\ c.exposure = [p \in Providers |-> chain.exposure[p] + FeesOf(OfProvider(S, p))]
         /\ c.active = chain.active
         /\ c = [status |-> c.status, balance |-> c.balance, active |-> c.active, spent |-> c.spent, exposure |-> c.exposure]
<1> DEFINE s == [r \in Receipts |-> IF r \in S THEN "pending" ELSE chain.status[r]]
           b == [o \in Owners |-> chain.balance[o] - FeesOf(OfOwner(S, o))]
           t == [k \in Keys |-> IF Limit[k] = 0 THEN chain.spent[k] ELSE chain.spent[k] + FeesOf(OfKey(S, k))]
           e == [p \in Providers |-> chain.exposure[p] + FeesOf(OfProvider(S, p))]
<1>1. c = [chain EXCEPT !.status = s, !.balance = b, !.spent = t, !.exposure = e]
  BY DEF settleBatch
<1>2. /\ c.status = s /\ c.balance = b /\ c.spent = t /\ c.exposure = e /\ c.active = chain.active
      /\ c = [status |-> s, balance |-> b, active |-> chain.active, spent |-> t, exposure |-> e]
  <2> HIDE DEF s, b, t, e
  <2> QED BY ONLY chain \in Chains, <1>1, ChainSet
<1>3. QED
  BY <1>2

\* And after receipts have ended.
LEMMA EndedFields ==
  ASSUME chain \in Chains, NEW S, NEW c, c = Ended(S)
  PROVE  /\ c.status = [r \in Receipts |-> IF r \in S THEN "ended" ELSE chain.status[r]]
         /\ c.exposure = [p \in Providers |-> chain.exposure[p] - FeesOf(OfProvider(S, p))]
         /\ c.active = chain.active /\ c.balance = chain.balance /\ c.spent = chain.spent
         /\ c = [status |-> c.status, balance |-> c.balance, active |-> c.active, spent |-> c.spent, exposure |-> c.exposure]
<1> DEFINE s == [r \in Receipts |-> IF r \in S THEN "ended" ELSE chain.status[r]]
           e == [p \in Providers |-> chain.exposure[p] - FeesOf(OfProvider(S, p))]
<1>1. c = [chain EXCEPT !.status = s, !.exposure = e]
  BY DEF Ended
<1>2. /\ c.status = s /\ c.exposure = e /\ c.balance = chain.balance /\ c.spent = chain.spent /\ c.active = chain.active
      /\ c = [status |-> s, balance |-> chain.balance, active |-> chain.active, spent |-> chain.spent, exposure |-> e]
  <2> HIDE DEF s, e
  <2> QED BY ONLY chain \in Chains, <1>1, ChainEnds
<1>3. QED
  BY <1>2

LEMMA SettlesExact ==
  ASSUME Shape, Exact(chain), NEW S \in SUBSET Receipts, Settles(S) PROVE Exact(settleBatch(S))
<1> DEFINE c == settleBatch(S)
<1>1. chain \in Chains
  BY DEF Exact
<1>2. /\ c.status = [r \in Receipts |-> IF r \in S THEN "pending" ELSE chain.status[r]]
      /\ c.balance = [o \in Owners |-> chain.balance[o] - FeesOf(OfOwner(S, o))]
      /\ c.spent = [k \in Keys |-> IF Limit[k] = 0 THEN chain.spent[k] ELSE chain.spent[k] + FeesOf(OfKey(S, k))]
      /\ c.exposure = [p \in Providers |-> chain.exposure[p] + FeesOf(OfProvider(S, p))]
      /\ c.active = chain.active
      /\ c = [status |-> c.status, balance |-> c.balance, active |-> c.active, spent |-> c.spent, exposure |-> c.exposure]
  BY <1>1, BatchFields
<1> HIDE DEF c
<1>3. \A x : OfOwner(S, x) \in SUBSET Receipts /\ OfKey(S, x) \in SUBSET Receipts /\ OfProvider(S, x) \in SUBSET Receipts
  BY DEF OfOwner, OfKey, OfProvider
<1>4. c.status \in [Receipts -> ChainStates]
  BY <1>1, <1>2 DEF Chains, ChainStates
<1>5. c.balance \in [Owners -> Nat]
  <2>1. \A o \in Owners : chain.balance[o] \in Nat /\ FeesOf(OfOwner(S, o)) \in Nat /\ FeesOf(OfOwner(S, o)) <= chain.balance[o]
    BY <1>1, <1>3, FeesNat DEF Chains, Settles
  <2>2. \A o \in Owners : chain.balance[o] - FeesOf(OfOwner(S, o)) \in Nat
    BY ONLY <2>1
  <2>3. QED
    BY <1>2, <2>2
<1>6. c.spent \in [Keys -> Nat]
  <2>1. \A k \in Keys : chain.spent[k] \in Nat /\ FeesOf(OfKey(S, k)) \in Nat
    BY <1>1, <1>3, FeesNat DEF Chains
  <2>2. QED
    BY <1>2, <2>1
<1>7. c.exposure \in [Providers -> Int]
  <2>1. \A p \in Providers : chain.exposure[p] \in Int /\ FeesOf(OfProvider(S, p)) \in Nat
    BY <1>1, <1>3, FeesNat DEF Chains
  <2>2. QED
    BY <1>2, <2>1
<1>8. c \in Chains
  BY <1>1, <1>2, <1>4, <1>5, <1>6, <1>7 DEF Chains
<1>9. ASSUME NEW p \in Providers PROVE c.exposure[p] = ExposureOf(c, p)
  <2> DEFINE before == OfProvider({r \in Receipts : chain.status[r] \in Escrowed}, p)
             after == OfProvider({r \in Receipts : c.status[r] \in Escrowed}, p)
             new == OfProvider(S, p)
  <2>1. after = before \cup new /\ before \cap new = {} /\ before \in SUBSET Receipts /\ new \in SUBSET Receipts
    BY <1>2 DEF OfProvider, Settles, Escrowed
  <2> HIDE DEF before, after, new
  <2>2. FeesOf(after) = FeesOf(before) + FeesOf(new)
    BY <2>1, FeesUnion
  <2>3. chain.exposure[p] = FeesOf(before) /\ ExposureOf(c, p) = FeesOf(after)
    BY DEF Exact, ExposureOf, before, after
  <2>4. c.exposure[p] = chain.exposure[p] + FeesOf(new)
    BY <1>2 DEF new
  <2>5. QED
    BY <2>2, <2>3, <2>4
<1>10. QED
  BY <1>8, <1>9 DEF Exact, c

LEMMA EndedExact ==
  ASSUME Shape, Exact(chain), NEW S \in SUBSET Receipts, \A r \in S : chain.status[r] \in Escrowed PROVE Exact(Ended(S))
<1> DEFINE c == Ended(S)
<1>1. chain \in Chains
  BY DEF Exact
<1>2. /\ c.status = [r \in Receipts |-> IF r \in S THEN "ended" ELSE chain.status[r]]
      /\ c.exposure = [p \in Providers |-> chain.exposure[p] - FeesOf(OfProvider(S, p))]
      /\ c.active = chain.active /\ c.balance = chain.balance /\ c.spent = chain.spent
      /\ c = [status |-> c.status, balance |-> c.balance, active |-> c.active, spent |-> c.spent, exposure |-> c.exposure]
  BY <1>1, EndedFields
<1> HIDE DEF c
<1>3. \A x : OfProvider(S, x) \in SUBSET Receipts
  BY DEF OfProvider
<1>4. c.status \in [Receipts -> ChainStates]
  BY <1>1, <1>2 DEF Chains, ChainStates
<1>5. \A p \in Providers : chain.exposure[p] \in Int /\ FeesOf(OfProvider(S, p)) \in Nat
  BY <1>1, <1>3, FeesNat DEF Chains
<1>6. c.exposure \in [Providers -> Int]
  BY <1>2, <1>5
<1>7. c \in Chains
  BY <1>1, <1>2, <1>4, <1>6 DEF Chains
<1>8. ASSUME NEW p \in Providers PROVE c.exposure[p] = ExposureOf(c, p)
  <2> DEFINE before == OfProvider({r \in Receipts : chain.status[r] \in Escrowed}, p)
             after == OfProvider({r \in Receipts : c.status[r] \in Escrowed}, p)
             gone == OfProvider(S, p)
  <2>1. before = after \cup gone /\ after \cap gone = {} /\ after \in SUBSET Receipts /\ gone \in SUBSET Receipts
    BY <1>2 DEF OfProvider, Escrowed
  <2> HIDE DEF before, after, gone
  <2>2. FeesOf(before) = FeesOf(after) + FeesOf(gone) /\ FeesOf(after) \in Nat /\ FeesOf(gone) \in Nat
    BY <2>1, FeesUnion, FeesNat
  <2>3. chain.exposure[p] = FeesOf(before) /\ ExposureOf(c, p) = FeesOf(after)
    BY DEF Exact, ExposureOf, before, after
  <2>4. c.exposure[p] = chain.exposure[p] - FeesOf(gone)
    BY <1>2 DEF gone
  <2>5. QED
    BY <2>2, <2>3, <2>4
<1>9. QED
  BY <1>7, <1>8 DEF Exact, c

\* Nothing but balances, budgets and keys, or the status of a receipt that stays in escrow or out of it.
LEMMA ExactSame ==
  ASSUME Exact(chain), NEW c \in Chains, c.exposure = chain.exposure,
         \A r \in Receipts : c.status[r] \in Escrowed <=> chain.status[r] \in Escrowed
  PROVE  Exact(c)
<1>1. \A p \in Providers : ExposureOf(c, p) = ExposureOf(chain, p)
  BY DEF ExposureOf, OfProvider
<1>2. QED
  BY <1>1 DEF Exact

\* Rows that change leave the fees in escrow as they are.
LEMMA ExactKept ==
  ASSUME Exact(chain), Recorded, chain' = chain, \A r \in Receipts : HasRow(r) => rows'[r].fee = rows[r].fee
  PROVE  Exact(chain)'
<1>1. ASSUME NEW p \in Providers PROVE ExposureOf(chain, p)' = ExposureOf(chain, p)
  <2>1. PICK S : S = OfProvider({r \in Receipts : chain.status[r] \in Escrowed}, p)
    OBVIOUS
  <2>2. S \in SUBSET Receipts /\ \A r \in S : rows'[r].fee = rows[r].fee
    BY <2>1 DEF OfProvider, Recorded
  <2>3. FeesOf(S)' = FeesOf(S)
    BY <2>2, FeesSame
  <2>4. S = OfProvider({r \in Receipts : chain'.status[r] \in Escrowed}, p)
    BY <2>1
  <2>5. QED
    BY <2>1, <2>3, <2>4 DEF ExposureOf
<1>2. QED
  BY <1>1 DEF Exact

-----------------------------------------------------------------------------
(* What threads do to rows and transactions *)

\* A row stays, or is changed without its fee and has an attempt left if it is still queued.
RowsWorked ==
  \A r \in Receipts :
    \/ rows'[r] = rows[r]
    \/ /\ HasRow(r) /\ HasRow(r)' /\ rows'[r].fee = rows[r].fee
       /\ rows'[r].attempts <= MAX_SETTLE_ATTEMPTS
       /\ rows'[r].state = "queued" => rows'[r].attempts < MAX_SETTLE_ATTEMPTS

\* Or it is new.
RowsStep ==
  \A r \in Receipts :
    \/ rows'[r] = rows[r]
    \/ ~HasRow(r) /\ HasRow(r)' /\ rows'[r].attempts = 0
    \/ /\ HasRow(r) /\ HasRow(r)' /\ rows'[r].fee = rows[r].fee
       /\ rows'[r].attempts <= MAX_SETTLE_ATTEMPTS
       /\ rows'[r].state = "queued" => rows'[r].attempts < MAX_SETTLE_ATTEMPTS

LEMMA WorkedStep == ASSUME RowsWorked PROVE RowsStep
BY DEF RowsWorked, RowsStep

\* Transactions are of those that were there, or of receipts with rows.
Sent ==
  \A i \in DOMAIN mempool' :
    \/ \E j \in DOMAIN mempool : mempool'[i].items = mempool[j].items
    \/ \A r \in mempool'[i].items : r \in Receipts /\ HasRow(r)

LEMMA SameSent == ASSUME mempool' = mempool PROVE Sent
BY DEF Sent

LEMMA UnwatchedSent == ASSUME Shape, NEW w \in Settlers, mempool' = Unwatched(w) PROVE Sent
<1>1. \A i \in DOMAIN mempool : mempool[i] \in Transaction
  BY DEF Shape
<1>2. DOMAIN mempool' = DOMAIN mempool /\ \A i \in DOMAIN mempool : mempool'[i].items = mempool[i].items
  BY <1>1 DEF Unwatched, Transaction
<1>3. QED
  BY <1>2 DEF Sent

LEMMA AmountsKept ==
  ASSUME AmountsInv, QueueInv', chain' = chain, RowsStep, Sent, Counters' PROVE AmountsInv'
<1>1. \A r \in Receipts : HasRow(r) => HasRow(r)' /\ rows'[r].fee = rows[r].fee
  BY DEF RowsStep, HasRow
<1>2. Exact(chain)'
  BY <1>1, ExactKept DEF AmountsInv
<1>3. Recorded'
  <2>1. \A r \in Receipts : chain.status[r] \in Escrowed => HasRow(r)'
    BY <1>1 DEF AmountsInv, Recorded
  <2>2. ASSUME NEW i \in DOMAIN mempool', NEW r \in mempool'[i].items PROVE HasRow(r)'
    <3>1. r \in Receipts
      <4>1. mempool'[i] \in Transaction
        BY <2>2 DEF QueueInv, Shape
      <4>2. QED
        BY <2>2, <4>1 DEF Transaction
    <3>2. HasRow(r)
      BY <2>2 DEF Sent, AmountsInv, Recorded
    <3>3. QED
      BY <1>1, <3>1, <3>2
  <2>3. QED
    BY <2>1, <2>2 DEF Recorded
<1>4. Tried'
  <2>1. 0 < MAX_SETTLE_ATTEMPTS /\ 0 <= MAX_SETTLE_ATTEMPTS
    BY QueueAssumption
  <2>2. QED
    BY <2>1 DEF AmountsInv, Tried, RowsStep
<1>5. QED
  BY <1>2, <1>3, <1>4 DEF AmountsInv

LEMMA SubmitSent ==
  ASSUME QueueInv, NEW w \in Settlers, NEW pc, submit(w, pc), workers[w].pc \in {"batch", "one", "release"},
         workers[w].pc = "one" => workers[w].todo # {}
  PROVE  Sent
<1>1. Items(w) \subseteq workers[w].todo /\ workers[w].todo \subseteq Receipts
  BY ItemsIn DEF QueueInv, Shape, Worker
<1>2. \A r \in workers[w].todo : HasRow(r)
  BY DEF QueueInv, Thread, Settling, Releasing, SettlePcs, ReleasePcs, HasRow
<1>3. Submission(w).items = Items(w) /\ mempool' = Append(mempool, Submission(w))
  BY DEF submit, Submission
<1>4. Submission(w) \in Transaction /\ mempool \in Seq(Transaction)
  BY <1>1 DEF Submission, Transaction, QueueInv, Shape
<1>5. \A i \in DOMAIN mempool' : mempool'[i] = Submission(w) \/ (i \in DOMAIN mempool /\ mempool'[i] = mempool[i])
  BY <1>3, <1>4
<1>6. QED
  BY <1>1, <1>2, <1>3, <1>5 DEF Sent

LEMMA FailedRows ==
  ASSUME AmountsInv, NEW w \in Settlers, Failed(w), workers[w].pc \in {"one", "oneSent"}, workers[w].todo # {}
  PROVE  RowsWorked
<1>1. PICK r : r = First(workers[w].todo)
  OBVIOUS
<1>2. r \in workers[w].todo /\ r \in Receipts
  BY <1>1, ItemsIn DEF AmountsInv, QueueInv, Shape, Worker
<1>3. rows[r].state = "queued" /\ rows[r] \in AnyRow /\ rows \in [Receipts -> AnyRow]
  BY <1>2 DEF AmountsInv, QueueInv, Thread, Settling, SettlePcs, Shape
<1>4. rows[r].attempts \in Nat /\ rows[r].attempts < MAX_SETTLE_ATTEMPTS
  BY <1>2, <1>3 DEF AmountsInv, Tried, AnyRow
<1>5. PICK n : n = rows[r].attempts + 1
  OBVIOUS
<1>6. rows' = [rows EXCEPT ![r].attempts = n,
                           ![r].state = IF n >= MAX_SETTLE_ATTEMPTS THEN "rejected" ELSE @]
  BY <1>1, <1>5 DEF Failed, fail
<1>7. n \in Nat /\ n <= MAX_SETTLE_ATTEMPTS
  BY <1>4, <1>5, QueueAssumption
<1>8. /\ rows'[r].fee = rows[r].fee /\ rows'[r].attempts = n
      /\ rows'[r].state = (IF n >= MAX_SETTLE_ATTEMPTS THEN "rejected" ELSE "queued")
      /\ \A other \in Receipts \ {r} : rows'[other] = rows[other]
  BY <1>2, <1>3, <1>6 DEF AnyRow
<1>9. rows'[r].state = "queued" => rows'[r].attempts < MAX_SETTLE_ATTEMPTS
  BY <1>7, <1>8, QueueAssumption
<1>10. QED
  BY <1>2, <1>3, <1>7, <1>8, <1>9 DEF RowsWorked, HasRow

LEMMA MarkedRows ==
  ASSUME AmountsInv, NEW r \in Receipts, HasRow(r), NEW state \in {"settled", "released"}, mark(r, state)
  PROVE  RowsWorked
<1>1. /\ rows'[r].fee = rows[r].fee /\ rows'[r].attempts = rows[r].attempts /\ rows'[r].state = state
      /\ \A other \in Receipts \ {r} : rows'[other] = rows[other]
  BY DEF mark, AmountsInv, QueueInv, Shape, AnyRow
<1>2. QED
  BY <1>1 DEF RowsWorked, HasRow, AmountsInv, Tried

LEMMA SettleRows ==
  ASSUME AmountsInv, NEW w \in Settlers,
         TakeBatch(w) \/ SubmitBatch(w) \/ AwaitBatch(w) \/ SubmitOne(w) \/ AwaitOne(w) \/ MarkSettled(w) \/ Return(w)
  PROVE  chain' = chain /\ RowsWorked
<1>1. Shape /\ Thread(w) /\ workers[w] \in Worker
  BY DEF AmountsInv, QueueInv, Shape
<1>2. chain' = chain
  BY DEF TakeBatch, SubmitBatch, AwaitBatch, SubmitOne, AwaitOne, MarkSettled, Return, chainVars
<1>3. ASSUME rows' = rows PROVE RowsWorked
  BY <1>3 DEF RowsWorked
<1>4. CASE TakeBatch(w) \/ SubmitBatch(w) \/ AwaitBatch(w) \/ Return(w)
  BY <1>2, <1>3, <1>4 DEF TakeBatch, SubmitBatch, AwaitBatch, Return
<1>5. CASE SubmitOne(w)
  BY <1>2, <1>3, <1>5, FailedRows DEF SubmitOne
<1>6. CASE AwaitOne(w)
  <2>1. workers[w].todo # {}
    BY <1>1, <1>6 DEF AwaitOne, Thread, Settling, SettlePcs
  <2>2. QED
    BY <1>2, <1>3, <1>6, <2>1, FailedRows DEF AwaitOne
<1>7. CASE MarkSettled(w)
  <2>1. PICK r : r = First(workers[w].done)
    OBVIOUS
  <2>2. r \in workers[w].done /\ workers[w].done \subseteq Receipts /\ workers[w].pc \in {"one", "mark"}
    BY <1>1, <1>7, <2>1, FirstIn DEF MarkSettled, AllTried, First, Shape, Worker
  <2>3. r \in Receipts /\ HasRow(r) /\ mark(r, "settled")
    BY <1>1, <1>7, <2>1, <2>2 DEF MarkSettled, Thread, Settling, SettlePcs, HasRow
  <2>4. QED
    BY <1>2, <2>3, MarkedRows
<1>8. QED
  BY <1>4, <1>5, <1>6, <1>7

LEMMA ReleaseRows ==
  ASSUME AmountsInv, NEW w \in Settlers, TakeDue(w) \/ SubmitRelease(w) \/ AwaitRelease(w) \/ MarkReleased(w)
  PROVE  chain' = chain /\ RowsWorked
<1>1. Shape /\ Thread(w) /\ workers[w] \in Worker
  BY DEF AmountsInv, QueueInv, Shape
<1>2. chain' = chain
  BY DEF TakeDue, SubmitRelease, AwaitRelease, MarkReleased, chainVars
<1>3. CASE TakeDue(w) \/ SubmitRelease(w) \/ AwaitRelease(w)
  BY <1>2, <1>3 DEF TakeDue, SubmitRelease, AwaitRelease, RowsWorked
<1>4. CASE MarkReleased(w)
  <2>1. PICK r \in workers[w].todo : mark(r, "released")
    BY <1>4 DEF MarkReleased
  <2>2. r \in Receipts /\ HasRow(r)
    BY <1>1, <1>4, <2>1 DEF MarkReleased, Thread, Releasing, ReleasePcs, HasRow, Worker
  <2>3. QED
    BY <1>2, <2>1, <2>2, MarkedRows
<1>5. QED
  BY <1>3, <1>4

\* Threads make no rows and change no fees.
LEMMA WorkRows == ASSUME AmountsInv, NEW w \in Settlers, Work(w) PROVE chain' = chain /\ RowsWorked
BY SettleRows, ReleaseRows DEF Work

LEMMA SettleAmounts ==
  ASSUME AmountsInv, QueueInv', NEW w \in Settlers,
         TakeBatch(w) \/ SubmitBatch(w) \/ AwaitBatch(w) \/ SubmitOne(w) \/ AwaitOne(w) \/ MarkSettled(w) \/ Return(w)
  PROVE  AmountsInv'
<1>1. Shape /\ Thread(w) /\ workers[w] \in Worker
  BY DEF AmountsInv, QueueInv, Shape
<1>2. chain' = chain /\ Counters'
  <2>1. chain' = chain /\ settleLock' \in {settleLock, w, NoOne} /\ UNCHANGED <<funded, crashes>>
    BY DEF TakeBatch, SubmitBatch, AwaitBatch, SubmitOne, AwaitOne, MarkSettled, Return, chainVars
  <2>2. QED
    BY <2>1 DEF AmountsInv, Counters
<1>3. RowsStep
  BY SettleRows, WorkedStep
<1>4. Sent
  <2>1. CASE TakeBatch(w) \/ MarkSettled(w) \/ Return(w)
    BY <2>1, SameSent DEF TakeBatch, MarkSettled, Return, chainVars
  <2>2. CASE SubmitBatch(w)
    BY <2>2, SameSent, SubmitSent DEF SubmitBatch, AmountsInv
  <2>3. CASE SubmitOne(w)
    BY <2>3, SameSent, SubmitSent DEF SubmitOne, AmountsInv
  <2>4. CASE AwaitBatch(w)
    BY <1>1, <2>4, SameSent, UnwatchedSent DEF AwaitBatch
  <2>5. CASE AwaitOne(w)
    BY <1>1, <2>5, SameSent, UnwatchedSent DEF AwaitOne
  <2>6. QED
    BY <2>1, <2>2, <2>3, <2>4, <2>5
<1>5. QED
  BY <1>2, <1>3, <1>4, AmountsKept

LEMMA ReleaseAmounts ==
  ASSUME AmountsInv, QueueInv', NEW w \in Settlers,
         TakeDue(w) \/ SubmitRelease(w) \/ AwaitRelease(w) \/ MarkReleased(w)
  PROVE  AmountsInv'
<1>1. Shape
  BY DEF AmountsInv, QueueInv
<1>2. chain' = chain /\ Counters'
  <2>1. chain' = chain /\ settleLock' = settleLock /\ UNCHANGED <<funded, crashes>>
    BY DEF TakeDue, SubmitRelease, AwaitRelease, MarkReleased, chainVars
  <2>2. QED
    BY <2>1 DEF AmountsInv, Counters
<1>3. RowsStep
  BY ReleaseRows, WorkedStep
<1>4. Sent
  <2>1. CASE TakeDue(w) \/ MarkReleased(w)
    BY <2>1, SameSent DEF TakeDue, MarkReleased, chainVars
  <2>2. CASE SubmitRelease(w)
    BY <2>2, SameSent, SubmitSent DEF SubmitRelease, AmountsInv
  <2>3. CASE AwaitRelease(w)
    BY <1>1, <2>3, SameSent, UnwatchedSent DEF AwaitRelease
  <2>4. QED
    BY <2>1, <2>2, <2>3
<1>5. QED
  BY <1>2, <1>3, <1>4, AmountsKept

LEMMA ArriveAmounts == ASSUME AmountsInv, QueueInv', NEW r \in Receipts, Arrive(r) PROVE AmountsInv'
<1>1. PICK fee \in 1 .. MaxFee[r] : add(r, fee)
  BY DEF Arrive
<1>2. PICK row : row = [state |-> "queued", attempts |-> 0, fee |-> fee,
                        created |-> Cardinality(Receipts \ InState("none")) + 1]
  OBVIOUS
<1>3. rows[r].state = "none" /\ rows' = [rows EXCEPT ![r] = row] /\ rows \in [Receipts -> AnyRow]
  BY <1>1, <1>2 DEF Arrive, add, AmountsInv, QueueInv, Shape
<1>4. rows'[r] = row /\ \A other \in Receipts \ {r} : rows'[other] = rows[other]
  BY <1>3
<1>5. RowsStep
  BY <1>2, <1>3, <1>4 DEF RowsStep, HasRow
<1>6. chain' = chain /\ Sent /\ Counters'
  BY SameSent DEF Arrive, chainVars, AmountsInv, Counters
<1>7. QED
  BY <1>5, <1>6, AmountsKept

LEMMA DroppedAmounts == ASSUME AmountsInv, QueueInv', DropTransaction PROVE AmountsInv'
<1>1. PICK k \in 1 .. Len(mempool) : mempool' = RemoveAt(mempool, k)
  BY DEF DropTransaction
<1>2. mempool \in Seq(Transaction) /\ Len(mempool) \in Nat /\ DOMAIN mempool = 1 .. Len(mempool)
  BY DEF AmountsInv, QueueInv, Shape
<1>3. /\ DOMAIN mempool' = 1 .. Len(mempool) - 1
      /\ \A i \in 1 .. Len(mempool) - 1 : mempool'[i] = mempool[IF i < k THEN i ELSE i + 1]
  BY <1>1, <1>2, Removed
<1>4. \A i \in 1 .. Len(mempool) - 1 : (IF i < k THEN i ELSE i + 1) \in DOMAIN mempool
  BY <1>2
<1>5. Sent
  BY <1>3, <1>4 DEF Sent
<1>6. chain' = chain /\ RowsStep /\ Counters'
  BY DEF DropTransaction, queueVars, RowsStep, AmountsInv, Counters
<1>7. QED
  BY <1>5, <1>6, AmountsKept

LEMMA StoppedAmounts == ASSUME AmountsInv, QueueInv', StopWorkers PROVE AmountsInv'
<1>1. \A i \in DOMAIN mempool : mempool[i] \in Transaction
  BY DEF AmountsInv, QueueInv, Shape
<1>2. Sent
  BY <1>1 DEF StopWorkers, Sent, Transaction
<1>3. crashes' \in 0 .. MaxCrashes
  BY QueueAssumption DEF StopWorkers, AmountsInv, Counters
<1>4. chain' = chain /\ RowsStep /\ Counters'
  BY <1>3 DEF StopWorkers, RowsStep, AmountsInv, Counters
<1>5. QED
  BY <1>2, <1>4, AmountsKept

-----------------------------------------------------------------------------
(* What the chain does *)

\* The chain moves and no row does.
LEMMA ChainAmounts ==
  ASSUME AmountsInv, QueueInv', rows' = rows, Exact(chain'), Sent, Counters',
         \A r \in Receipts : chain'.status[r] \in Escrowed => HasRow(r)
  PROVE  AmountsInv'
<1>1. Exact(chain)'
  BY DEF Exact, ExposureOf, FeesOf
<1>2. Tried' /\ \A r : HasRow(r)' = HasRow(r)
  BY DEF AmountsInv, Tried, HasRow
<1>3. Recorded'
  <2>1. ASSUME NEW i \in DOMAIN mempool', NEW r \in mempool'[i].items PROVE HasRow(r)
    BY <2>1 DEF Sent, AmountsInv, Recorded
  <2>2. QED
    BY <1>2, <2>1 DEF Recorded
<1>4. QED
  BY <1>1, <1>2, <1>3 DEF AmountsInv

LEMMA MinedAmounts == ASSUME AmountsInv, QueueInv', Mine PROVE AmountsInv'
<1>1. PICK tx : tx = Head(mempool)
  OBVIOUS
<1>2. /\ mempool \in Seq(Transaction) /\ mempool # <<>> /\ Shape
      /\ rows' = rows /\ mempool' = Tail(mempool)
      /\ chain' = IF Succeeds(tx) THEN Effect(tx) ELSE chain
  BY <1>1 DEF Mine, AmountsInv, QueueInv, Shape
<1>3. tx \in Transaction /\ tx = mempool[1] /\ 1 \in DOMAIN mempool
  BY <1>1, <1>2
<1>4. tx.items \in SUBSET Receipts /\ \A r \in tx.items : HasRow(r)
  BY <1>3 DEF Transaction, AmountsInv, Recorded
<1>5. Sent
  <2>1. \A i \in DOMAIN mempool' : i + 1 \in DOMAIN mempool /\ mempool'[i] = mempool[i + 1]
    BY <1>2
  <2>2. QED
    BY <2>1 DEF Sent
<1>6. Counters'
  BY DEF Mine, AmountsInv, Counters
<1>7. CASE ~Succeeds(tx)
  BY <1>2, <1>5, <1>6, <1>7, ChainAmounts DEF AmountsInv, Recorded
<1>8. CASE Succeeds(tx) /\ tx.kind = "settle"
  <2>1. chain' = settleBatch(tx.items) /\ Settles(tx.items)
    BY <1>2, <1>8 DEF Effect, Succeeds
  <2>2. Exact(chain')
    BY <1>2, <1>4, <2>1, SettlesExact DEF AmountsInv
  <2>3. chain'.status = [r \in Receipts |-> IF r \in tx.items THEN "pending" ELSE chain.status[r]]
    BY <1>2, <2>1 DEF settleBatch, Shape
  <2>4. QED
    BY <1>2, <1>4, <1>5, <1>6, <2>2, <2>3, ChainAmounts DEF AmountsInv, Recorded
<1>9. CASE Succeeds(tx) /\ tx.kind # "settle"
  <2>1. PICK due : due = {r \in tx.items : chain.status[r] = "due"}
    OBVIOUS
  <2>2. chain' = Ended(due) /\ due \in SUBSET Receipts /\ \A r \in due : chain.status[r] \in Escrowed
    BY <1>2, <1>4, <1>9, <2>1 DEF Effect, releaseBatch, Escrowed
  <2>3. Exact(chain')
    BY <1>2, <2>2, EndedExact DEF AmountsInv
  <2>4. chain'.status = [r \in Receipts |-> IF r \in due THEN "ended" ELSE chain.status[r]]
    BY <1>2, <2>2, EndedStatus
  <2>5. QED
    BY <1>2, <1>5, <1>6, <2>3, <2>4, ChainAmounts DEF AmountsInv, Recorded, Escrowed
<1>10. QED
  BY <1>7, <1>8, <1>9

LEMMA OthersAmounts ==
  ASSUME AmountsInv, QueueInv', NEW r \in Receipts, BecomesUnpayable(r) \/ WindowPasses(r) \/ OthersAct(r)
  PROVE  AmountsInv'
<1>1. Shape /\ Exact(chain) /\ chain \in Chains
  BY DEF AmountsInv, QueueInv, Exact
<1>2. rows' = rows /\ Sent /\ Counters'
  BY SameSent DEF BecomesUnpayable, WindowPasses, OthersAct, queueVars, AmountsInv, Counters
<1>3. ASSUME NEW state \in ChainStates, chain' = [chain EXCEPT !.status[r] = state],
             state \in Escrowed <=> chain.status[r] \in Escrowed
      PROVE  AmountsInv'
  <2>1. /\ chain' \in Chains /\ chain'.exposure = chain.exposure
        /\ \A q \in Receipts : chain'.status[q] = IF q = r THEN state ELSE chain.status[q]
    BY <1>1, <1>3 DEF Chains
  <2>2. Exact(chain')
    BY <1>1, <1>3, <2>1, ExactSame
  <2>3. QED
    BY <1>2, <1>3, <2>1, <2>2, ChainAmounts DEF AmountsInv, Recorded
<1>4. ASSUME chain' = [chain EXCEPT !.active = @ \ {KeyOf[r]}] PROVE AmountsInv'
  <2>1. chain' \in Chains /\ chain'.exposure = chain.exposure /\ chain'.status = chain.status
    BY <1>1, <1>4 DEF Chains
  <2>2. Exact(chain')
    BY <1>1, <2>1, ExactSame
  <2>3. QED
    BY <1>2, <2>1, <2>2, ChainAmounts DEF AmountsInv, Recorded
<1>5. ASSUME chain.status[r] \in Escrowed PROVE /\ Exact(Ended({r})) /\ Ended({r}) \in Chains
                                                /\ \A q \in Receipts : Ended({r}).status[q] \in Escrowed => HasRow(q)
  <2>1. Exact(Ended({r})) /\ Ended({r}) \in Chains
    BY <1>1, <1>5, EndedExact DEF Exact
  <2>2. Ended({r}).status = [q \in Receipts |-> IF q \in {r} THEN "ended" ELSE chain.status[q]]
    BY <1>1, EndedStatus
  <2>3. QED
    BY <2>1, <2>2 DEF AmountsInv, Recorded, Escrowed
<1>6. ASSUME chain.status[r] \in Escrowed, chain' = Ended({r}) PROVE AmountsInv'
  BY <1>2, <1>5, <1>6, ChainAmounts
<1>7. ASSUME chain.status[r] \in Escrowed,
             chain' = [Ended({r}) EXCEPT
                         !.balance[OwnerOf[KeyOf[r]]] = @ + rows[r].fee,
                         !.spent[KeyOf[r]] = IF @ >= rows[r].fee THEN @ - rows[r].fee ELSE @]
      PROVE  AmountsInv'
  <2>1. PICK c : c = Ended({r})
    OBVIOUS
  <2>2. c \in Chains /\ rows[r].fee \in Nat /\ OwnerOf[KeyOf[r]] \in Owners /\ KeyOf[r] \in Keys
    BY <1>1, <1>5, <1>7, <2>1, QueueAssumption DEF Shape, AnyRow
  <2>3. /\ chain' \in Chains /\ chain'.exposure = c.exposure /\ chain'.status = c.status
    <3>1. c.balance[OwnerOf[KeyOf[r]]] + rows[r].fee \in Nat
      BY <2>2 DEF Chains
    <3>2. (IF c.spent[KeyOf[r]] >= rows[r].fee THEN c.spent[KeyOf[r]] - rows[r].fee ELSE c.spent[KeyOf[r]]) \in Nat
      BY <2>2 DEF Chains
    <3>3. PICK b, t : /\ b = [c.balance EXCEPT ![OwnerOf[KeyOf[r]]] = @ + rows[r].fee]
                      /\ t = [c.spent EXCEPT ![KeyOf[r]] = IF @ >= rows[r].fee THEN @ - rows[r].fee ELSE @]
      OBVIOUS
    <3>4. b \in [Owners -> Nat] /\ t \in [Keys -> Nat]
      BY <2>2, <3>1, <3>2, <3>3 DEF Chains
    <3>5. chain' = [c EXCEPT !.balance = b, !.spent = t]
      BY <1>7, <2>1, <2>2, <3>3 DEF Chains
    <3>6. QED
      BY <2>2, <3>4, <3>5 DEF Chains
  <2>4. Exact(c) /\ \A p \in Providers : ExposureOf(chain', p) = ExposureOf(c, p)
    BY <1>5, <1>7, <2>1, <2>3 DEF ExposureOf
  <2>5. Exact(chain')
    BY <2>3, <2>4 DEF Exact
  <2>6. QED
    BY <1>2, <1>5, <1>7, <2>1, <2>3, <2>5, ChainAmounts
<1>8. "lapsed" \in ChainStates /\ "due" \in ChainStates /\ "disputed" \in ChainStates
  BY DEF ChainStates
<1>9. CASE BecomesUnpayable(r)
  BY <1>3, <1>4, <1>8, <1>9 DEF BecomesUnpayable, Escrowed
<1>10. CASE WindowPasses(r)
  BY <1>3, <1>8, <1>10 DEF WindowPasses, Escrowed
<1>11. CASE OthersAct(r)
  BY <1>3, <1>6, <1>7, <1>8, <1>11 DEF OthersAct, Escrowed
<1>12. QED
  BY <1>9, <1>10, <1>11

LEMMA ToppedAmounts == ASSUME AmountsInv, QueueInv', TopUp PROVE AmountsInv'
BY ChainAmounts, SameSent DEF TopUp, queueVars, AmountsInv, Recorded, Counters

LEMMA AmountsStep == AmountsInv /\ [QueueNext]_qvars => AmountsInv'
<1> SUFFICES ASSUME AmountsInv, [QueueNext]_qvars PROVE AmountsInv'
  OBVIOUS
<1>1. QueueInv'
  BY QueueInvNext DEF AmountsInv
<1>2. ASSUME NEW w \in Settlers, Work(w) PROVE AmountsInv'
  BY <1>1, <1>2, SettleAmounts, ReleaseAmounts DEF Work
<1>3. CASE Environment
  BY <1>1, <1>3, MinedAmounts, DroppedAmounts, ToppedAmounts, OthersAmounts DEF Environment
<1>4. CASE UNCHANGED qvars
  BY <1>1, <1>4, ChainAmounts, SameSent DEF qvars, queueVars, chainVars, AmountsInv, Recorded, Counters
<1>5. QED
  BY <1>1, <1>2, <1>3, <1>4, ArriveAmounts, StoppedAmounts DEF QueueNext

LEMMA AmountsInit == QueueInit => AmountsInv
<1> SUFFICES ASSUME QueueInit PROVE AmountsInv
  OBVIOUS
<1>1. QueueInv
  BY QueueInvInit
<1>2. chain \in Chains
  BY QueueAssumption DEF QueueInit, Chains, ChainStates
<1>3. ASSUME NEW p \in Providers PROVE chain.exposure[p] = ExposureOf(chain, p)
  <2>1. OfProvider({r \in Receipts : chain.status[r] \in Escrowed}, p) = {}
    BY DEF QueueInit, OfProvider, Escrowed
  <2>2. FeesOf({}) = 0
    BY SumEmpty DEF FeesOf
  <2>3. QED
    BY <2>1, <2>2 DEF QueueInit, ExposureOf
<1>4. Recorded /\ Tried /\ Counters
  BY QueueAssumption DEF QueueInit, Recorded, Tried, Counters, Escrowed, NoRow
<1>5. QED
  BY <1>1, <1>2, <1>3, <1>4 DEF AmountsInv, Exact

LEMMA AmountsTyped == AmountsInv => TypeOK
<1> SUFFICES ASSUME AmountsInv PROVE TypeOK
  OBVIOUS
<1>1. rows \in [Receipts -> Row]
  <2>1. \A r \in Receipts : rows[r] \in Row
    BY QueueAssumption DEF AmountsInv, Tried, QueueInv, Shape, AnyRow, Row
  <2>2. QED
    BY <2>1 DEF AmountsInv, QueueInv, Shape
<1>2. chain.exposure \in [Providers -> Nat]
  <2>1. ASSUME NEW p \in Providers PROVE chain.exposure[p] \in Nat
    BY FeesNat DEF AmountsInv, Exact, ExposureOf, OfProvider, QueueInv
  <2>2. QED
    BY <2>1 DEF AmountsInv, Exact, Chains
<1>3. chain \in [status: [Receipts -> ChainStates], balance: [Owners -> Nat], active: SUBSET Keys,
                 spent: [Keys -> Nat], exposure: [Providers -> Nat]]
  BY <1>2 DEF AmountsInv, Exact, Chains
<1>4. QED
  BY <1>1, <1>3 DEF AmountsInv, TypeOK, Counters, QueueInv, Shape, Worker, Transaction

\* Amounts never go below zero: what leaves a Provider's exposure was in it, for any order in which transactions of
\* several threads, keepers and jurors are mined; and no row is tried more often than it may be.
THEOREM QueueTyped == QueueSpec => []TypeOK
BY AmountsTyped, AmountsInit, AmountsStep, PTL DEF QueueSpec

-----------------------------------------------------------------------------
(* The Relay around the queue *)

Occupying == Holding \cup {"gone"}
Loading == Admitted \cup {"gone"}
Running == {"admitted", "sent", "answered"}

\* To whose account a request is put.
KeysOf == [t \in Requests |-> Key(t)]
OwnersOf == [t \in Requests |-> Owner(t)]
ProvidersOf == [t \in Requests |-> Provider(t)]

\* f says for every account what the requests in T may cost it.
Counts(f, accounts, of, T) ==
  f \in [accounts -> Nat] /\ \A a \in accounts : f[a] = FeesIn({t \in T : of[t] = a})

Session == [provider: Providers, in_flight: Int]

\* What a request has read and what it costs, by where it is.
Fits(t, q) ==
  /\ q \in Request
  /\ q.pc \notin {"answered", "queued", "returning"} => q.fee = 0
  /\ q.fee <= Fee(t) /\ (q.pc = "answered" => q.fee # 0)
  /\ q.pc \in {"over", "checked"} => \A value \in DOMAIN NoReads : q.reads[value] # Unread
  /\ q.reads.limit \in {Unread, 0, Limit[Key(t)]}

\* A request has its place in a session that was made.
Placed(q) == q.session \in 0 .. Len(sessions) /\ (q.pc \in Occupying \cup {"found"} => q.session # 0)

InQueue(t, q) == q.pc = "queued" /\ q.fee # 0 => HasRow(Auth(t))

CoreTyped ==
  /\ sessions \in Seq(Session)
  /\ providers \in [Providers -> 0 .. Len(sessions)]
  /\ DOMAIN requests = Requests
  /\ \A t \in Requests : Fits(t, requests[t]) /\ Placed(requests[t]) /\ InQueue(t, requests[t])

PlacesCounted ==
  \A s \in DOMAIN sessions :
    sessions[s].in_flight = Cardinality({t \in InPc(Occupying) : requests[t].session = s})

LoadOwed ==
  /\ Counts(outstanding.key, Keys, KeysOf, InPc(Loading))
  /\ Counts(outstanding.owner, Owners, OwnersOf, InPc(Loading))
  /\ Counts(outstanding.provider, Providers, ProvidersOf, InPc(Loading))

CoreInv == AmountsInv /\ CoreTyped /\ PlacesCounted /\ LoadOwed

-----------------------------------------------------------------------------
(* What requests may cost *)

LEMMA Accounts ==
  /\ \A t \in Requests : /\ Auth(t) \in Receipts /\ Key(t) \in Keys /\ Owner(t) \in Owners /\ Provider(t) \in Providers
                         /\ Fee(t) \in Nat \ {0}
  /\ KeysOf \in [Requests -> Keys] /\ OwnersOf \in [Requests -> Owners] /\ ProvidersOf \in [Requests -> Providers]
<1>1. \A t \in Requests : Auth(t) \in Receipts
  BY CoreAssumption DEF Auth
<1>2. \A t \in Requests : Key(t) \in Keys /\ Provider(t) \in Providers /\ Fee(t) \in Nat \ {0}
  BY <1>1, QueueAssumption DEF Key, Provider, Fee
<1>3. \A t \in Requests : Owner(t) \in Owners
  BY <1>2, QueueAssumption DEF Owner
<1>4. QED
  BY <1>1, <1>2, <1>3 DEF KeysOf, OwnersOf, ProvidersOf

LEMMA LoadFacts ==
  ASSUME NEW T \in SUBSET Requests
  PROVE  /\ IsFiniteSet(T) /\ FeesIn(T) \in Nat
         /\ \A t \in Requests \ T : FeesIn(T \cup {t}) = FeesIn(T) + Fee(t)
         /\ \A t \in T : FeesIn(T) = FeesIn(T \ {t}) + Fee(t)
         /\ \A U \in SUBSET T : FeesIn(U) <= FeesIn(T)
<1> DEFINE fee == [t \in Requests |-> Fee(t)]
<1>1. IsFiniteSet(Requests) /\ \A t \in Requests : fee[t] \in Nat /\ fee[t] \in Int /\ fee[t] = Fee(t)
  BY CoreAssumption, Accounts
<1>2. \A U : FeesIn(U) = SumFunctionOnSet(fee, U)
  BY DEF FeesIn
<1> HIDE DEF fee
<1>3. IsFiniteSet(T)
  BY <1>1, FS_Subset
<1>4. FeesIn(T) \in Nat
  BY <1>1, <1>2, <1>3, SumNat
<1>5. ASSUME NEW t \in Requests \ T PROVE FeesIn(T \cup {t}) = FeesIn(T) + Fee(t)
  <2>1. \A u \in T \cup {t} : fee[u] \in Int
    BY <1>1
  <2>2. SumFunctionOnSet(fee, T \cup {t}) = SumFunctionOnSet(fee, T) + fee[t]
    BY <1>3, <2>1, SumAdd
  <2>3. QED
    BY <1>1, <1>2, <2>2
<1>6. ASSUME NEW t \in T PROVE FeesIn(T) = FeesIn(T \ {t}) + Fee(t)
  <2>1. IsFiniteSet(T \ {t}) /\ \A u \in T \ {t} : fee[u] \in Int
    BY <1>1, <1>3, FS_Subset
  <2>2. SumFunctionOnSet(fee, T \ {t}) \in Int
    BY <2>1, SumInt
  <2>3. \A u \in T : fee[u] \in Int
    BY <1>1
  <2>4. SumFunctionOnSet(fee, T) = fee[t] + SumFunctionOnSet(fee, T \ {t})
    BY <1>3, <2>3, SumTakeOut
  <2>5. QED
    BY <1>1, <1>2, <2>2, <2>4
<1>7. ASSUME NEW U \in SUBSET T PROVE FeesIn(U) <= FeesIn(T)
  <2>1. \A u \in T : fee[u] \in Nat
    BY <1>1
  <2>2. QED
    BY <1>2, <1>3, <2>1, SumPart
<1>8. QED
  BY <1>3, <1>4, <1>5, <1>6, <1>7

LEMMA NoLoad == FeesIn({}) = 0
BY SumEmpty DEF FeesIn

\* A request is put to its account.
LEMMA CountsAdd ==
  ASSUME NEW f, NEW accounts, NEW of \in [Requests -> accounts], NEW T \in SUBSET Requests, NEW t \in Requests \ T,
         Counts(f, accounts, of, T), NEW g, NEW amount, amount = Fee(t),
         g = [f EXCEPT ![of[t]] = IF @ + amount < 0 THEN 0 ELSE @ + amount]
  PROVE  Counts(g, accounts, of, T \cup {t})
<1>1. Fee(t) \in Nat /\ f \in [accounts -> Nat] /\ of[t] \in accounts
  BY Accounts DEF Counts
<1>2. g \in [accounts -> Nat] /\ g[of[t]] = f[of[t]] + Fee(t) /\ \A a \in accounts \ {of[t]} : g[a] = f[a]
  <2>1. f[of[t]] \in Nat
    BY <1>1
  <2>2. f[of[t]] + amount \in Nat /\ ~(f[of[t]] + amount < 0)
    BY <1>1, <2>1
  <2>3. QED
    BY <1>1, <2>2
<1>3. ASSUME NEW a \in accounts PROVE g[a] = FeesIn({u \in T \cup {t} : of[u] = a})
  <2> DEFINE before == {u \in T : of[u] = a}
  <2>1. f[a] = FeesIn(before) /\ before \in SUBSET Requests /\ t \notin before
    BY DEF Counts
  <2>2. CASE a = of[t]
    <3>1. {u \in T \cup {t} : of[u] = a} = before \cup {t}
      BY <2>2
    <3>2. FeesIn(before \cup {t}) = FeesIn(before) + Fee(t)
      BY <2>1, LoadFacts
    <3>3. QED
      BY <1>2, <2>1, <2>2, <3>1, <3>2
  <2>3. CASE a # of[t]
    <3>1. {u \in T \cup {t} : of[u] = a} = before
      BY <2>3
    <3>2. QED
      BY <1>2, <2>1, <2>3, <3>1
  <2>4. QED
    BY <2>2, <2>3
<1>4. QED
  BY <1>2, <1>3 DEF Counts

\* It is taken off it.
LEMMA CountsTake ==
  ASSUME NEW f, NEW accounts, NEW of \in [Requests -> accounts], NEW T \in SUBSET Requests, NEW t \in T,
         Counts(f, accounts, of, T), NEW g, NEW amount, amount = -Fee(t),
         g = [f EXCEPT ![of[t]] = IF @ + amount < 0 THEN 0 ELSE @ + amount]
  PROVE  Counts(g, accounts, of, T \ {t})
<1>1. Fee(t) \in Nat /\ f \in [accounts -> Nat] /\ of[t] \in accounts
  BY Accounts DEF Counts
<1>2. ASSUME NEW a \in accounts
      PROVE  FeesIn({u \in T : of[u] = a}) = FeesIn({u \in T \ {t} : of[u] = a}) + (IF a = of[t] THEN Fee(t) ELSE 0)
  <2> DEFINE before == {u \in T : of[u] = a}
  <2>1. CASE a = of[t]
    <3>1. {u \in T \ {t} : of[u] = a} = before \ {t} /\ t \in before /\ before \in SUBSET Requests
      BY <2>1
    <3>2. FeesIn(before) = FeesIn(before \ {t}) + Fee(t)
      BY <3>1, LoadFacts
    <3>3. QED
      BY <2>1, <3>1, <3>2
  <2>2. CASE a # of[t]
    <3>1. {u \in T \ {t} : of[u] = a} = before /\ before \in SUBSET Requests
      BY <2>2
    <3>2. FeesIn(before) \in Nat
      BY <3>1, LoadFacts
    <3>3. FeesIn(before) = FeesIn(before) + 0
      BY <3>2
    <3>4. QED
      BY <2>2, <3>1, <3>3
  <2>3. QED
    BY <2>1, <2>2
<1>3. \A a \in accounts : FeesIn({u \in T \ {t} : of[u] = a}) \in Nat
  BY LoadFacts
<1>4. /\ g \in [accounts -> Nat]
      /\ g[of[t]] = FeesIn({u \in T \ {t} : of[u] = of[t]})
      /\ \A a \in accounts \ {of[t]} : g[a] = f[a]
  <2>1. f[of[t]] = FeesIn({u \in T \ {t} : of[u] = of[t]}) + Fee(t)
    BY <1>1, <1>2 DEF Counts
  <2>2. f[of[t]] + amount = FeesIn({u \in T \ {t} : of[u] = of[t]}) /\ ~(f[of[t]] + amount < 0)
    BY <1>1, <1>3, <2>1
  <2>3. QED
    BY <1>1, <1>3, <2>2
<1>5. ASSUME NEW a \in accounts PROVE g[a] = FeesIn({u \in T \ {t} : of[u] = a})
  <2>1. CASE a = of[t]
    BY <1>4, <2>1
  <2>2. CASE a # of[t]
    <3>1. f[a] = FeesIn({u \in T \ {t} : of[u] = a}) + 0
      BY <1>2, <2>2 DEF Counts
    <3>2. QED
      BY <1>3, <1>4, <2>2, <3>1
  <2>3. QED
    BY <2>1, <2>2
<1>6. QED
  BY <1>4, <1>5 DEF Counts

-----------------------------------------------------------------------------
(* What a step does to its request *)

\* The thread of t makes a step, the others do not.
Turns(t) ==
  /\ DOMAIN requests' = Requests /\ \A u \in Requests \ {t} : requests'[u] = requests[u]
  /\ Fits(t, requests'[t]) /\ Placed(requests'[t])

\* It keeps its place, or takes or leaves one.
KeepsPlace(t) ==
  /\ sessions' = sessions
  /\ requests'[t].pc \in Occupying <=> requests[t].pc \in Occupying
  /\ requests[t].pc \in Occupying => requests'[t].session = requests[t].session
TakesPlace(t) ==
  /\ requests[t].pc \notin Occupying /\ requests'[t].pc \in Occupying
  /\ requests'[t].session \in DOMAIN sessions
  /\ sessions' = [sessions EXCEPT ![requests'[t].session].in_flight = @ + 1]
LeavesPlace(t) ==
  /\ requests[t].pc \in Occupying /\ requests'[t].pc \notin Occupying
  /\ requests[t].session \in DOMAIN sessions
  /\ sessions' = [sessions EXCEPT ![requests[t].session].in_flight = @ - 1]

KeepsLoad(t) == outstanding' = outstanding /\ (requests'[t].pc \in Loading <=> requests[t].pc \in Loading)
TakesLoad(t) == Owes(t, Fee(t)) /\ requests[t].pc \notin Loading /\ requests'[t].pc \in Loading
LeavesLoad(t) == Owes(t, -Fee(t)) /\ requests[t].pc \in Loading /\ requests'[t].pc \notin Loading

Pending == {"new", "found", "done"}

LEMMA RequestFields ==
  ASSUME NEW q \in Request
  PROVE  /\ q.pc \in Pcs /\ q.session \in Nat /\ q.fee \in Nat /\ q.reads \in Reads
         /\ q.pc \in Occupying <=> q.pc \notin Pending
BY DEF Request, Pcs, Occupying, Holding, Pending

LEMMA SessionNumbers ==
  ASSUME CoreTyped PROVE Len(sessions) \in Nat /\ DOMAIN sessions = 1 .. Len(sessions)
BY DEF CoreTyped

LEMMA DoneFits ==
  ASSUME NEW t \in Requests
  PROVE  /\ NewRequest \in Request /\ Done \in Request /\ Fits(t, NewRequest) /\ Fits(t, Done)
         /\ NewRequest.pc = "new" /\ Done.pc = "done" /\ Done.session = 0 /\ NewRequest.session = 0
<1>1. NewRequest \in Request /\ NewRequest.pc = "new" /\ NewRequest.session = 0 /\ NewRequest.fee = 0 /\ NewRequest.reads = NoReads
  BY DEF NewRequest, Request, NoReads, Reads, Pcs
<1>2. Done \in Request /\ Done.pc = "done" /\ Done.session = 0 /\ Done.fee = 0 /\ Done.reads = NoReads
  BY DEF Done, NewRequest, Request, NoReads, Reads, Pcs
<1>3. NoReads.limit = Unread /\ 0 <= Fee(t)
  BY Accounts DEF NoReads
<1>4. QED
  BY <1>1, <1>2, <1>3 DEF Fits

LEMMA FindStep ==
  ASSUME CoreTyped, NEW t \in Requests, find(t)
  PROVE  Turns(t) /\ KeepsPlace(t) /\ KeepsLoad(t)
<1>1. Fits(t, requests[t]) /\ requests[t].pc = "new" /\ requests[t] \in Request /\ Provider(t) \in Providers
  BY Accounts DEF CoreTyped, find, At, Fits
<1>2. sessions' = sessions /\ outstanding' = outstanding
  BY DEF find
<1>3. CASE providers[Provider(t)] = 0 \/ Provider(t) \in suspended
  <2>1. requests' = [requests EXCEPT ![t] = Done]
    BY <1>3 DEF find
  <2>2. Placed(Done)
    BY DoneFits, SessionNumbers DEF Placed, Occupying, Holding
  <2>3. QED
    BY <1>1, <1>2, <2>1, <2>2, DoneFits DEF Turns, KeepsPlace, KeepsLoad, CoreTyped, Occupying, Holding, Loading, Admitted
<1>4. CASE ~(providers[Provider(t)] = 0 \/ Provider(t) \in suspended)
  <2>1. PICK n : n = providers[Provider(t)]
    OBVIOUS
  <2>2. n \in 1 .. Len(sessions) /\ n \in Nat
    BY <1>1, <1>4, <2>1, SessionNumbers DEF CoreTyped
  <2>3. requests' = [requests EXCEPT ![t].pc = "found", ![t].session = n]
    BY <1>4, <2>1 DEF find
  <2>4. /\ DOMAIN requests' = Requests /\ \A u \in Requests \ {t} : requests'[u] = requests[u]
        /\ requests'[t].pc = "found" /\ requests'[t].session = n /\ requests'[t] \in Request
        /\ requests'[t].fee = requests[t].fee /\ requests'[t].reads = requests[t].reads
    BY <1>1, <2>2, <2>3 DEF CoreTyped, Request, Pcs
  <2>5. Fits(t, requests'[t]) /\ Placed(requests'[t])
    BY <1>1, <2>2, <2>4, SessionNumbers DEF Fits, Placed
  <2>6. QED
    BY <1>1, <1>2, <2>4, <2>5 DEF Turns, KeepsPlace, KeepsLoad, Occupying, Holding, Loading, Admitted
<1>5. QED
  BY <1>3, <1>4

LEMMA ReserveStep ==
  ASSUME CoreTyped, NEW t \in Requests, reserve(t)
  PROVE  Turns(t) /\ (KeepsPlace(t) \/ TakesPlace(t)) /\ KeepsLoad(t)
<1>1. /\ Fits(t, requests[t]) /\ requests[t].pc = "found" /\ requests[t] \in Request
      /\ requests[t].session \in DOMAIN sessions /\ Placed(requests[t])
  BY SessionNumbers DEF CoreTyped, reserve, At, Fits, Placed
<1>2. outstanding' = outstanding
  BY DEF reserve
<1>3. CASE Busy(requests[t].session)
  <2>1. requests' = [requests EXCEPT ![t] = Done] /\ sessions' = sessions
    BY <1>3 DEF reserve
  <2>2. Placed(Done)
    BY DoneFits, SessionNumbers DEF Placed, Occupying, Holding
  <2>3. QED
    BY <1>1, <1>2, <2>1, <2>2, DoneFits DEF Turns, KeepsPlace, KeepsLoad, CoreTyped, Occupying, Holding, Loading, Admitted
<1>4. CASE ~Busy(requests[t].session)
  <2>1. PICK hint : hint \in BOOLEAN /\ requests' = [requests EXCEPT ![t].pc = "reading", ![t].hinted = hint]
    <3>1. (Key(t) \in knownKeys) \in BOOLEAN
      OBVIOUS
    <3>2. requests' = [requests EXCEPT ![t].pc = "reading", ![t].hinted = Key(t) \in knownKeys]
      BY <1>4 DEF reserve
    <3>3. QED
      BY <3>1, <3>2
  <2>2. sessions' = [sessions EXCEPT ![requests[t].session].in_flight = @ + 1]
    BY <1>4 DEF reserve
  <2>3. /\ DOMAIN requests' = Requests /\ \A u \in Requests \ {t} : requests'[u] = requests[u]
        /\ requests'[t].pc = "reading" /\ requests'[t].session = requests[t].session /\ requests'[t] \in Request
        /\ requests'[t].fee = requests[t].fee /\ requests'[t].reads = requests[t].reads
    BY <1>1, <2>1 DEF CoreTyped, Request, Pcs
  <2>4. Fits(t, requests'[t]) /\ Placed(requests'[t])
    BY <1>1, <2>3 DEF Fits, Placed
  <2>5. QED
    BY <1>1, <1>2, <2>2, <2>3, <2>4 DEF Turns, TakesPlace, KeepsLoad, Occupying, Holding, Loading, Admitted
<1>5. QED
  BY <1>3, <1>4

\* What the chain may answer.
LEMMA Answers ==
  ASSUME AmountsInv, NEW t \in Requests
  PROVE  /\ chain.balance[Owner(t)] \in Nat /\ chain.exposure[Provider(t)] \in Nat /\ chain.spent[Key(t)] \in Nat
         /\ Limit[Key(t)] \in Nat
<1>1. chain.balance \in [Owners -> Nat] /\ chain.exposure \in [Providers -> Nat] /\ chain.spent \in [Keys -> Nat]
  BY AmountsTyped DEF TypeOK
<1>2. QED
  BY <1>1, Accounts, QueueAssumption

LEMMA ReadStep ==
  ASSUME AmountsInv, CoreTyped, NEW t \in Requests, readGrant(t) \/ readBalance(t) \/ readExposure(t) \/ readBudget(t)
  PROVE  Turns(t) /\ KeepsPlace(t) /\ KeepsLoad(t)
<1>1. Fits(t, requests[t]) /\ requests[t].pc \in {"reading", "granted"} /\ requests[t] \in Request /\ Placed(requests[t])
  BY DEF CoreTyped, readGrant, readBalance, readExposure, readBudget, At, Reading, Fits
<1>2. sessions' = sessions /\ outstanding' = outstanding
  BY DEF readGrant, readBalance, readExposure, readBudget
<1>3. /\ DOMAIN requests' = Requests /\ \A u \in Requests \ {t} : requests'[u] = requests[u]
      /\ requests'[t].pc = requests[t].pc /\ requests'[t].session = requests[t].session /\ requests'[t] \in Request
      /\ requests'[t].fee = requests[t].fee
      /\ requests'[t].reads.limit \in {requests[t].reads.limit, 0, Limit[Key(t)]}
  <2>1. CASE readGrant(t)
    <3>1. PICK reply \in {0, 1} : Learn(t, "active", reply)
      BY <2>1 DEF readGrant
    <3>2. QED
      BY <1>1, <3>1 DEF Learn, CoreTyped, Request, Reads
  <2>2. CASE readBalance(t)
    <3>1. PICK reply \in Nat : Learn(t, "balance", reply)
      BY <2>2, Answers DEF readBalance
    <3>2. QED
      BY <1>1, <3>1 DEF Learn, CoreTyped, Request, Reads
  <2>3. CASE readExposure(t)
    <3>1. PICK reply \in Nat : Learn(t, "exposure", reply)
      BY <2>3, Answers DEF readExposure
    <3>2. QED
      BY <1>1, <3>1 DEF Learn, CoreTyped, Request, Reads
  <2>4. CASE readBudget(t)
    <3>1. PICK limit \in {0, Limit[Key(t)]}, spent \in Nat :
            requests' = [requests EXCEPT ![t].reads.limit = limit, ![t].reads.spent = spent]
      BY <2>4, Answers DEF readBudget
    <3>2. limit \in Nat
      BY Answers
    <3>3. QED
      BY <1>1, <3>1, <3>2 DEF CoreTyped, Request, Reads
  <2>5. QED
    BY <2>1, <2>2, <2>3, <2>4
<1>4. Fits(t, requests'[t]) /\ Placed(requests'[t])
  BY <1>1, <1>3 DEF Fits, Placed, Occupying, Holding
<1>5. QED
  BY <1>1, <1>2, <1>3, <1>4 DEF Turns, KeepsPlace, KeepsLoad

\* The thread goes on with what it has.
LEMMA GotoStep ==
  ASSUME CoreTyped, NEW t \in Requests, NEW pc \in Pcs, Goto(t, pc), sessions' = sessions, outstanding' = outstanding,
         requests[t].pc \in Occupying, pc \in Occupying, requests[t].pc \in Loading <=> pc \in Loading,
         pc \in {"over", "checked"} => \A value \in DOMAIN NoReads : HasRead(t, value),
         pc \notin {"answered", "queued", "returning"} => requests[t].fee = 0,
         pc # "answered"
  PROVE  Turns(t) /\ KeepsPlace(t) /\ KeepsLoad(t)
<1>1. Fits(t, requests[t]) /\ requests[t] \in Request /\ Placed(requests[t])
  BY DEF CoreTyped, Fits
<1>2. /\ DOMAIN requests' = Requests /\ \A u \in Requests \ {t} : requests'[u] = requests[u]
      /\ requests'[t].pc = pc /\ requests'[t].session = requests[t].session /\ requests'[t] \in Request
      /\ requests'[t].fee = requests[t].fee /\ requests'[t].reads = requests[t].reads
  BY <1>1 DEF Goto, CoreTyped, Request
<1>3. Fits(t, requests'[t]) /\ Placed(requests'[t])
  BY <1>1, <1>2 DEF Fits, Placed, HasRead
<1>4. QED
  BY <1>2, <1>3 DEF Turns, KeepsPlace, KeepsLoad

LEMMA DecideStep ==
  ASSUME CoreTyped, NEW t \in Requests, readFails(t) \/ useGrant(t) \/ checkBudget(t)
  PROVE  Turns(t) /\ KeepsPlace(t) /\ KeepsLoad(t)
<1>1. sessions' = sessions /\ outstanding' = outstanding
  BY DEF readFails, useGrant, checkBudget
<1>2. /\ requests[t].pc \in {"reading", "granted", "over"}
      /\ requests[t].pc \in Occupying /\ requests[t].pc \notin Loading /\ requests[t].fee = 0
  BY DEF readFails, useGrant, checkBudget, Reading, At, Occupying, Holding, Loading, Admitted, CoreTyped, Fits
<1>3. /\ {"raising", "granted", "over", "checked"} \subseteq Pcs
      /\ {"raising", "granted", "over", "checked"} \subseteq Occupying
      /\ {"raising", "granted", "over", "checked"} \cap Loading = {}
  BY DEF Pcs, Occupying, Holding, Loading, Admitted
<1>4. CASE readFails(t)
  BY <1>1, <1>2, <1>3, <1>4, GotoStep DEF readFails
<1>5. CASE useGrant(t)
  BY <1>1, <1>2, <1>3, <1>5, GotoStep DEF useGrant
<1>6. CASE checkBudget(t)
  <2>1. PICK pc \in {"over", "checked"} : Goto(t, pc)
    BY <1>6 DEF checkBudget
  <2>2. \A value \in DOMAIN NoReads : HasRead(t, value)
    BY <1>6 DEF checkBudget
  <2>3. pc \in Pcs /\ pc \in Occupying /\ pc \notin Loading /\ pc # "answered"
    BY <1>3
  <2>4. QED
    BY <1>1, <1>2, <2>1, <2>2, <2>3, GotoStep
<1>7. QED
  BY <1>4, <1>5, <1>6

LEMMA RecountStep ==
  ASSUME AmountsInv, CoreTyped, NEW t \in Requests, recount(t)
  PROVE  Turns(t) /\ KeepsPlace(t) /\ KeepsLoad(t)
<1>1. Fits(t, requests[t]) /\ requests[t].pc = "over" /\ requests[t] \in Request /\ Placed(requests[t])
  BY DEF CoreTyped, recount, At, Fits
<1>2. PICK limit \in Nat, spent \in Nat : limit = Limit[Key(t)] /\ spent = chain.spent[Key(t)]
  BY Answers
<1>3. requests' = [requests EXCEPT ![t].pc = "checked", ![t].reads.limit = limit, ![t].reads.spent = spent]
  BY <1>2 DEF recount, Reread
<1>4. PICK reads : reads = [requests[t].reads EXCEPT !.limit = limit, !.spent = spent]
  OBVIOUS
<1>5. /\ reads \in Reads /\ reads.limit = limit /\ reads.spent = spent /\ reads.active = requests[t].reads.active
      /\ reads.balance = requests[t].reads.balance /\ reads.exposure = requests[t].reads.exposure
  BY <1>1, <1>4 DEF Request, Reads
<1>6. requests' = [requests EXCEPT ![t].pc = "checked", ![t].reads = reads]
  BY <1>1, <1>3, <1>4 DEF CoreTyped, Request
<1>7. /\ DOMAIN requests' = Requests /\ \A u \in Requests \ {t} : requests'[u] = requests[u]
      /\ requests'[t].pc = "checked" /\ requests'[t].session = requests[t].session /\ requests'[t] \in Request
      /\ requests'[t].fee = requests[t].fee /\ requests'[t].reads = reads
  BY <1>1, <1>5, <1>6 DEF CoreTyped, Request, Pcs
<1>8. \A value \in DOMAIN NoReads : reads[value] # Unread
  BY <1>1, <1>5 DEF Fits, NoReads, Unread
<1>9. Fits(t, requests'[t]) /\ Placed(requests'[t])
  BY <1>1, <1>2, <1>5, <1>7, <1>8 DEF Fits, Placed, Occupying, Holding
<1>10. sessions' = sessions /\ outstanding' = outstanding
  BY DEF recount
<1>11. QED
  BY <1>1, <1>7, <1>9, <1>10 DEF Turns, KeepsPlace, KeepsLoad, Occupying, Holding, Loading, Admitted

LEMMA AdmitStep ==
  ASSUME CoreTyped, NEW t \in Requests, admit(t)
  PROVE  Turns(t) /\ KeepsPlace(t) /\ (KeepsLoad(t) \/ TakesLoad(t))
<1>1. Fits(t, requests[t]) /\ requests[t].pc = "checked" /\ requests[t] \in Request /\ Placed(requests[t])
  BY DEF CoreTyped, admit, At, Fits
<1>2. sessions' = sessions
  BY DEF admit
<1>3. CASE OverBudget(t) \/ OverDeposit(t) \/ OverExposure(t)
  <2>1. Goto(t, "raising") /\ outstanding' = outstanding
    BY <1>3 DEF admit
  <2>2. /\ requests[t].pc \in Occupying /\ "raising" \in Occupying /\ "raising" \in Pcs
        /\ requests[t].pc \notin Loading /\ "raising" \notin Loading /\ requests[t].fee = 0
    BY <1>1 DEF Occupying, Holding, Pcs, Loading, Admitted, Fits
  <2>3. QED
    BY <1>2, <2>1, <2>2, GotoStep
<1>4. CASE ~(OverBudget(t) \/ OverDeposit(t) \/ OverExposure(t))
  <2>1. requests' = [requests EXCEPT ![t].pc = "admitted", ![t].reads = NoReads] /\ Owes(t, Fee(t))
    BY <1>4 DEF admit
  <2>2. NoReads \in Reads /\ NoReads.limit = Unread
    BY DEF NoReads, Reads
  <2>3. /\ DOMAIN requests' = Requests /\ \A u \in Requests \ {t} : requests'[u] = requests[u]
        /\ requests'[t].pc = "admitted" /\ requests'[t].session = requests[t].session /\ requests'[t] \in Request
        /\ requests'[t].fee = requests[t].fee /\ requests'[t].reads = NoReads
    BY <1>1, <2>1, <2>2 DEF CoreTyped, Request, Pcs
  <2>4. Fits(t, requests'[t]) /\ Placed(requests'[t])
    BY <1>1, <2>2, <2>3 DEF Fits, Placed, Occupying, Holding
  <2>5. QED
    BY <1>1, <1>2, <2>1, <2>3, <2>4 DEF Turns, KeepsPlace, TakesLoad, Occupying, Holding, Loading, Admitted
<1>5. QED
  BY <1>3, <1>4

LEMMA DispatchStep ==
  ASSUME CoreTyped, NEW t \in Requests, send(t) \/ answer(t)
  PROVE  Turns(t) /\ KeepsPlace(t) /\ KeepsLoad(t)
<1>1. /\ Fits(t, requests[t]) /\ requests[t].pc \in {"admitted", "sent"} /\ requests[t] \in Request /\ Placed(requests[t])
      /\ requests[t].pc \in Occupying /\ requests[t].pc \in Loading /\ requests[t].fee = 0
  BY DEF CoreTyped, send, answer, At, Fits, Occupying, Holding, Loading, Admitted
<1>2. sessions' = sessions /\ outstanding' = outstanding
  BY DEF send, answer
<1>3. /\ {"sent", "gone", "queued"} \subseteq Pcs /\ {"sent", "gone", "queued"} \subseteq Occupying
      /\ {"sent", "gone", "queued"} \subseteq Loading
  BY DEF Pcs, Occupying, Holding, Loading, Admitted
<1>4. CASE send(t)
  BY <1>1, <1>2, <1>3, <1>4, GotoStep DEF send
<1>5. CASE answer(t) /\ Goto(t, "queued")
  BY <1>1, <1>2, <1>3, <1>5, GotoStep
<1>6. ASSUME NEW fee \in 1 .. Fee(t), requests' = [requests EXCEPT ![t].pc = "answered", ![t].fee = fee]
      PROVE  Turns(t) /\ KeepsPlace(t) /\ KeepsLoad(t)
  <2>1. fee \in Nat /\ fee # 0 /\ fee <= Fee(t)
    BY Accounts
  <2>2. /\ DOMAIN requests' = Requests /\ \A u \in Requests \ {t} : requests'[u] = requests[u]
        /\ requests'[t].pc = "answered" /\ requests'[t].session = requests[t].session /\ requests'[t] \in Request
        /\ requests'[t].fee = fee /\ requests'[t].reads = requests[t].reads
    BY <1>1, <1>6, <2>1 DEF CoreTyped, Request, Pcs
  <2>3. Fits(t, requests'[t]) /\ Placed(requests'[t])
    BY <1>1, <2>1, <2>2 DEF Fits, Placed, Occupying, Holding
  <2>4. QED
    BY <1>1, <1>2, <2>2, <2>3 DEF Turns, KeepsPlace, KeepsLoad, Occupying, Holding, Loading, Admitted
<1>7. QED
  BY <1>4, <1>5, <1>6 DEF answer

LEMMA QueueReceiptStep ==
  ASSUME CoreTyped, NEW t \in Requests, queueReceipt(t)
  PROVE  Turns(t) /\ KeepsPlace(t) /\ KeepsLoad(t) /\ requests'[t].pc = "queued"
<1>1. /\ requests[t].pc = "answered" /\ Goto(t, "queued") /\ sessions' = sessions /\ outstanding' = outstanding
      /\ "queued" \in Pcs
  BY DEF queueReceipt, At, Pcs
<1>2. requests[t].pc \in Occupying /\ "queued" \in Occupying /\ requests[t].pc \in Loading /\ "queued" \in Loading
  BY <1>1 DEF Occupying, Holding, Loading, Admitted
<1>3. requests'[t].pc = "queued"
  BY <1>1 DEF Goto, CoreTyped, Fits, Request
<1>4. QED
  BY <1>1, <1>2, <1>3, GotoStep

LEMMA ReleaseStep ==
  ASSUME CoreTyped, NEW t \in Requests, release(t)
  PROVE  Turns(t) /\ KeepsPlace(t) /\ LeavesLoad(t)
<1>1. /\ Fits(t, requests[t]) /\ requests[t].pc = "queued" /\ requests[t] \in Request /\ Placed(requests[t])
      /\ requests' = [requests EXCEPT ![t].pc = "returning"] /\ sessions' = sessions /\ Owes(t, -Fee(t))
  BY DEF CoreTyped, release, At, Fits, Goto
<1>2. /\ DOMAIN requests' = Requests /\ \A u \in Requests \ {t} : requests'[u] = requests[u]
      /\ requests'[t].pc = "returning" /\ requests'[t].session = requests[t].session /\ requests'[t] \in Request
      /\ requests'[t].fee = requests[t].fee /\ requests'[t].reads = requests[t].reads
  BY <1>1 DEF CoreTyped, Request, Pcs
<1>3. Fits(t, requests'[t]) /\ Placed(requests'[t])
  BY <1>1, <1>2 DEF Fits, Placed, Occupying, Holding
<1>4. QED
  BY <1>1, <1>2, <1>3 DEF Turns, KeepsPlace, LeavesLoad, Occupying, Holding, Loading, Admitted

LEMMA GiveBackStep ==
  ASSUME CoreTyped, NEW t \in Requests, giveBack(t)
  PROVE  Turns(t) /\ LeavesPlace(t) /\ KeepsLoad(t)
<1>1. /\ requests[t].pc \in {"raising", "returning"} /\ Placed(requests[t])
      /\ requests' = [requests EXCEPT ![t] = Done] /\ outstanding' = outstanding
      /\ sessions' = [sessions EXCEPT ![requests[t].session].in_flight = @ - 1]
  BY DEF CoreTyped, giveBack, At
<1>2. requests[t].session \in DOMAIN sessions
  BY <1>1, SessionNumbers DEF Placed, Occupying, Holding
<1>3. DOMAIN requests' = Requests /\ requests'[t] = Done /\ \A u \in Requests \ {t} : requests'[u] = requests[u]
  BY <1>1 DEF CoreTyped
<1>4. Placed(Done)
  BY DoneFits, SessionNumbers DEF Placed, Occupying, Holding
<1>5. QED
  BY <1>1, <1>2, <1>3, <1>4, DoneFits DEF Turns, LeavesPlace, KeepsLoad, Occupying, Holding, Loading, Admitted

LEMMA Served ==
  ASSUME AmountsInv, CoreTyped, NEW t \in Requests, Serve(t)
  PROVE  Turns(t) /\ (KeepsPlace(t) \/ TakesPlace(t) \/ LeavesPlace(t)) /\ (KeepsLoad(t) \/ TakesLoad(t) \/ LeavesLoad(t))
BY FindStep, ReserveStep, ReadStep, DecideStep, RecountStep, AdmitStep, DispatchStep, QueueReceiptStep, ReleaseStep,
   GiveBackStep DEF Serve

-----------------------------------------------------------------------------
(* Places and load *)

Holders(s) == {t \in InPc(Occupying) : requests[t].session = s}

LEMMA SessionSet ==
  ASSUME sessions \in Seq(Session), NEW s \in DOMAIN sessions, NEW n \in Int,
         sessions' = [sessions EXCEPT ![s].in_flight = n]
  PROVE  /\ sessions' \in Seq(Session) /\ Len(sessions') = Len(sessions) /\ DOMAIN sessions' = DOMAIN sessions
         /\ sessions'[s].in_flight = n
         /\ \A other \in DOMAIN sessions \ {s} : sessions'[other] = sessions[other]
<1>1. \A i \in DOMAIN sessions : sessions[i] \in Session
  OBVIOUS
<1>2. PICK now : now = [sessions[s] EXCEPT !.in_flight = n]
  OBVIOUS
<1>3. now \in Session /\ now.in_flight = n
  BY <1>1, <1>2 DEF Session
<1>4. sessions' = [sessions EXCEPT ![s] = now]
  BY <1>2
<1>5. QED
  BY <1>3, <1>4

LEMMA PlacesStep ==
  ASSUME CoreTyped, PlacesCounted, NEW t \in Requests, Turns(t), KeepsPlace(t) \/ TakesPlace(t) \/ LeavesPlace(t)
  PROVE  PlacesCounted' /\ sessions' \in Seq(Session) /\ Len(sessions') = Len(sessions)
<1>1. /\ sessions \in Seq(Session) /\ \A s : IsFiniteSet(Holders(s)) /\ Holders(s) \subseteq Requests
      /\ \A s \in DOMAIN sessions : sessions[s].in_flight = Cardinality(Holders(s))
  <2>1. \A s : Holders(s) \subseteq Requests
    BY DEF Holders, InPc
  <2>2. QED
    BY <2>1, CoreAssumption, FS_Subset DEF CoreTyped, PlacesCounted, Holders
<1>2. \A u \in Requests \ {t} : requests'[u] = requests[u]
  BY DEF Turns
<1>3. \A s, u : /\ u \in Holders(s) <=> u \in Requests /\ requests[u].pc \in Occupying /\ requests[u].session = s
                /\ u \in Holders(s)' <=> u \in Requests /\ requests'[u].pc \in Occupying /\ requests'[u].session = s
  BY DEF Holders, InPc
<1>4. CASE KeepsPlace(t)
  <2>1. ASSUME NEW s PROVE Holders(s)' = Holders(s)
    BY <1>2, <1>4 DEF KeepsPlace, Holders, InPc
  <2>2. QED
    BY <1>1, <1>4, <2>1 DEF KeepsPlace, PlacesCounted, Holders
<1>5. CASE TakesPlace(t)
  <2>1. PICK s \in DOMAIN sessions : s = requests'[t].session /\ sessions' = [sessions EXCEPT ![s].in_flight = @ + 1]
    BY <1>5 DEF TakesPlace
  <2>2. sessions[s].in_flight \in Int
    <3>1. sessions[s] \in Session
      BY <1>1
    <3>2. QED
      BY <3>1 DEF Session
  <2>3. PICK n : n = sessions[s].in_flight + 1
    OBVIOUS
  <2>4. n \in Int /\ sessions' = [sessions EXCEPT ![s].in_flight = n]
    BY <2>1, <2>2, <2>3
  <2>5. /\ sessions' \in Seq(Session) /\ Len(sessions') = Len(sessions) /\ DOMAIN sessions' = DOMAIN sessions
        /\ sessions'[s].in_flight = n
        /\ \A other \in DOMAIN sessions \ {s} : sessions'[other] = sessions[other]
    BY ONLY <1>1, <2>4, s \in DOMAIN sessions, SessionSet
  <2>6. Holders(s)' = Holders(s) \cup {t} /\ t \notin Holders(s)
    BY <1>2, <1>3, <1>5, <2>1 DEF TakesPlace
  <2>7. ASSUME NEW other \in DOMAIN sessions \ {s} PROVE Holders(other)' = Holders(other)
    BY <1>2, <1>5, <2>1 DEF TakesPlace, Holders, InPc
  <2>8. Cardinality(Holders(s)') = Cardinality(Holders(s)) + 1
    BY <1>1, <2>6, FS_AddElement
  <2>9. \A other \in DOMAIN sessions : sessions'[other].in_flight = Cardinality(Holders(other)')
    BY <1>1, <2>3, <2>5, <2>7, <2>8
  <2>10. QED
    BY <2>5, <2>9 DEF PlacesCounted, Holders
<1>6. CASE LeavesPlace(t)
  <2>1. PICK s \in DOMAIN sessions : s = requests[t].session /\ sessions' = [sessions EXCEPT ![s].in_flight = @ - 1]
    BY <1>6 DEF LeavesPlace
  <2>2. sessions[s].in_flight \in Int
    <3>1. sessions[s] \in Session
      BY <1>1
    <3>2. QED
      BY <3>1 DEF Session
  <2>3. PICK n : n = sessions[s].in_flight - 1
    OBVIOUS
  <2>4. n \in Int /\ sessions' = [sessions EXCEPT ![s].in_flight = n]
    BY <2>1, <2>2, <2>3
  <2>5. /\ sessions' \in Seq(Session) /\ Len(sessions') = Len(sessions) /\ DOMAIN sessions' = DOMAIN sessions
        /\ sessions'[s].in_flight = n
        /\ \A other \in DOMAIN sessions \ {s} : sessions'[other] = sessions[other]
    BY ONLY <1>1, <2>4, s \in DOMAIN sessions, SessionSet
  <2>6. Holders(s)' = Holders(s) \ {t} /\ t \in Holders(s)
    BY <1>2, <1>3, <1>6, <2>1 DEF LeavesPlace
  <2>7. ASSUME NEW other \in DOMAIN sessions \ {s} PROVE Holders(other)' = Holders(other)
    BY <1>2, <1>6, <2>1 DEF LeavesPlace, Holders, InPc
  <2>8. Cardinality(Holders(s)') = Cardinality(Holders(s)) - 1
    BY <1>1, <2>6, FS_RemoveElement
  <2>9. \A other \in DOMAIN sessions : sessions'[other].in_flight = Cardinality(Holders(other)')
    BY <1>1, <2>3, <2>5, <2>7, <2>8
  <2>10. QED
    BY <2>5, <2>9 DEF PlacesCounted, Holders
<1>7. QED
  BY <1>4, <1>5, <1>6

LEMMA LoadStep ==
  ASSUME LoadOwed, NEW t \in Requests, Turns(t), KeepsLoad(t) \/ TakesLoad(t) \/ LeavesLoad(t)
  PROVE  LoadOwed'
<1> DEFINE T == InPc(Loading)
           U == InPc(Loading)'
<1>1. T \in SUBSET Requests /\ \A u \in Requests \ {t} : requests'[u] = requests[u]
  BY DEF InPc, Turns
<1>2. KeysOf \in [Requests -> Keys] /\ OwnersOf \in [Requests -> Owners] /\ ProvidersOf \in [Requests -> Providers]
  BY Accounts
<1>3. KeysOf[t] = Key(t) /\ OwnersOf[t] = Owner(t) /\ ProvidersOf[t] = Provider(t)
  BY DEF KeysOf, OwnersOf, ProvidersOf
<1>4. Counts(outstanding.key, Keys, KeysOf, T) /\ Counts(outstanding.owner, Owners, OwnersOf, T)
      /\ Counts(outstanding.provider, Providers, ProvidersOf, T)
  BY DEF LoadOwed
<1>5. SUFFICES /\ Counts(outstanding'.key, Keys, KeysOf, U) /\ Counts(outstanding'.owner, Owners, OwnersOf, U)
               /\ Counts(outstanding'.provider, Providers, ProvidersOf, U)
  BY DEF LoadOwed, KeysOf, OwnersOf, ProvidersOf, Counts, FeesIn, Fee, Key, Owner, Provider, Auth
<1>6. CASE KeepsLoad(t)
  <2>1. U = T
    BY <1>1, <1>6 DEF KeepsLoad, InPc
  <2>2. QED
    BY <1>4, <1>6, <2>1 DEF KeepsLoad
<1>7. ASSUME NEW amount, Owes(t, amount)
      PROVE  /\ outstanding'.key = [outstanding.key EXCEPT ![KeysOf[t]] = IF @ + amount < 0 THEN 0 ELSE @ + amount]
             /\ outstanding'.owner = [outstanding.owner EXCEPT ![OwnersOf[t]] = IF @ + amount < 0 THEN 0 ELSE @ + amount]
             /\ outstanding'.provider = [outstanding.provider EXCEPT ![ProvidersOf[t]] = IF @ + amount < 0 THEN 0 ELSE @ + amount]
  BY <1>3, <1>7 DEF Owes
<1>8. CASE TakesLoad(t)
  <2>1. t \in Requests \ T /\ U = T \cup {t}
    BY <1>1, <1>8 DEF TakesLoad, InPc
  <2> HIDE DEF T, U
  <2>2. PICK amount : amount = Fee(t) /\ Owes(t, amount)
    BY <1>8 DEF TakesLoad
  <2>3. Counts(outstanding'.key, Keys, KeysOf, U)
    <3>1. outstanding'.key = [outstanding.key EXCEPT ![KeysOf[t]] = IF @ + amount < 0 THEN 0 ELSE @ + amount]
      BY <1>7, <2>2
    <3>2. QED
      BY ONLY <1>1, <1>2, <1>4, <2>1, <2>2, <3>1, CountsAdd
  <2>4. Counts(outstanding'.owner, Owners, OwnersOf, U)
    <3>1. outstanding'.owner = [outstanding.owner EXCEPT ![OwnersOf[t]] = IF @ + amount < 0 THEN 0 ELSE @ + amount]
      BY <1>7, <2>2
    <3>2. QED
      BY ONLY <1>1, <1>2, <1>4, <2>1, <2>2, <3>1, CountsAdd
  <2>5. Counts(outstanding'.provider, Providers, ProvidersOf, U)
    <3>1. outstanding'.provider = [outstanding.provider EXCEPT ![ProvidersOf[t]] = IF @ + amount < 0 THEN 0 ELSE @ + amount]
      BY <1>7, <2>2
    <3>2. QED
      BY ONLY <1>1, <1>2, <1>4, <2>1, <2>2, <3>1, CountsAdd
  <2>6. QED
    BY <2>3, <2>4, <2>5
<1>9. CASE LeavesLoad(t)
  <2>1. t \in T /\ U = T \ {t}
    BY <1>1, <1>9 DEF LeavesLoad, InPc
  <2> HIDE DEF T, U
  <2>2. PICK amount : amount = -Fee(t) /\ Owes(t, amount)
    BY <1>9 DEF LeavesLoad
  <2>3. Counts(outstanding'.key, Keys, KeysOf, U)
    <3>1. outstanding'.key = [outstanding.key EXCEPT ![KeysOf[t]] = IF @ + amount < 0 THEN 0 ELSE @ + amount]
      BY <1>7, <2>2
    <3>2. QED
      BY ONLY <1>1, <1>2, <1>4, <2>1, <2>2, <3>1, CountsTake
  <2>4. Counts(outstanding'.owner, Owners, OwnersOf, U)
    <3>1. outstanding'.owner = [outstanding.owner EXCEPT ![OwnersOf[t]] = IF @ + amount < 0 THEN 0 ELSE @ + amount]
      BY <1>7, <2>2
    <3>2. QED
      BY ONLY <1>1, <1>2, <1>4, <2>1, <2>2, <3>1, CountsTake
  <2>5. Counts(outstanding'.provider, Providers, ProvidersOf, U)
    <3>1. outstanding'.provider = [outstanding.provider EXCEPT ![ProvidersOf[t]] = IF @ + amount < 0 THEN 0 ELSE @ + amount]
      BY <1>7, <2>2
    <3>2. QED
      BY ONLY <1>1, <1>2, <1>4, <2>1, <2>2, <3>1, CountsTake
  <2>6. QED
    BY <2>3, <2>4, <2>5
<1>10. QED
  BY <1>6, <1>8, <1>9

-----------------------------------------------------------------------------
(* The Relay runs its queue *)

LEMMA ServeQueue ==
  ASSUME CoreTyped, NEW t \in Requests, Serve(t) PROVE [QueueNext]_qvars
<1>1. CASE queueReceipt(t)
  <2>1. PICK r, fee : r = Auth(t) /\ fee = requests[t].fee /\ add(r, fee)
    BY <1>1 DEF queueReceipt
  <2>2. r \in Receipts /\ fee \in 1 .. MaxFee[r]
    <3>1. Fits(t, requests[t]) /\ requests[t].pc = "answered" /\ fee \in Nat
      BY <1>1, <2>1 DEF CoreTyped, queueReceipt, At, Fits, Request
    <3>2. Fee(t) = MaxFee[r] /\ Fee(t) \in Nat
      BY <2>1, Accounts DEF Fee
    <3>3. fee # 0 /\ fee <= Fee(t)
      BY <2>1, <3>1 DEF Fits
    <3>4. QED
      BY <2>1, <3>1, <3>2, <3>3, Accounts
  <2>3. UNCHANGED <<settleLock, workers, chainVars, crashes>>
    BY <1>1 DEF queueReceipt
  <2>4. CASE rows' = rows
    BY <2>3, <2>4 DEF qvars, queueVars, chainVars
  <2>5. CASE rows' # rows
    BY <2>1, <2>2, <2>3, <2>5 DEF QueueNext, Arrive
  <2>6. QED
    BY <2>4, <2>5
<1>2. CASE ~queueReceipt(t)
  BY <1>2 DEF Serve, find, reserve, readGrant, readBalance, readExposure, readBudget, readFails, useGrant, checkBudget,
              recount, admit, send, answer, release, giveBack
<1>3. QED
  BY <1>1, <1>2

LEMMA CoreQueue == CoreTyped /\ [Next]_vars => [QueueNext]_qvars
<1> SUFFICES ASSUME CoreTyped, [Next]_vars PROVE [QueueNext]_qvars
  OBVIOUS
<1>1. CASE \E p \in Providers : register_provider(p) \/ unregister_provider(p) \/ suspend(p)
  BY <1>1 DEF register_provider, unregister_provider, suspend
<1>2. CASE \E t \in Requests : Serve(t)
  BY <1>2, ServeQueue
<1>3. CASE (\E w \in Settlers : Work(w)) \/ Environment \/ Crash
  BY <1>3 DEF QueueNext, Crash
<1>4. CASE UNCHANGED vars
  BY <1>4 DEF vars
<1>5. QED
  BY <1>1, <1>2, <1>3, <1>4 DEF Next, Run

-----------------------------------------------------------------------------
(* The invariant *)

\* A row that is there stays.
LEMMA RowsStay == ASSUME AmountsInv, [QueueNext]_qvars PROVE \A r \in Receipts : HasRow(r) => HasRow(r)'
BY QueueInvNext DEF AmountsInv, Advance, HasRow

\* Where a request can come from: a receipt with a fee comes to the queue by way of its table, only a client
\* that leaves takes its request along, and only admission lets a request run.
LEMMA Comes ==
  ASSUME CoreTyped, NEW t \in Requests, Serve(t)
  PROVE  /\ requests'[t].pc = "queued" => queueReceipt(t) \/ requests'[t].fee = 0
         /\ requests'[t].pc = "gone" => "client" \in Faults
         /\ requests'[t].pc \in Running => requests[t].pc \in Running \/ (admit(t) /\ requests'[t].pc = "admitted")
<1>1. requests[t] \in Request /\ Fits(t, requests[t]) /\ DOMAIN requests = Requests
  BY DEF CoreTyped, Fits
<1>2. CASE find(t) \/ reserve(t) \/ giveBack(t)
  BY <1>1, <1>2, DoneFits DEF find, reserve, giveBack, Request, Running
<1>3. CASE readGrant(t) \/ readBalance(t) \/ readExposure(t) \/ readBudget(t)
  <2>1. requests[t].pc \in {"reading", "granted"}
    BY <1>3 DEF readGrant, readBalance, readExposure, readBudget, Reading, At
  <2>2. requests'[t].pc = requests[t].pc
    <3>1. CASE readGrant(t)
      BY <1>1, <3>1 DEF readGrant, Learn, Request
    <3>2. CASE readBalance(t)
      BY <1>1, <3>2 DEF readBalance, Learn, Request
    <3>3. CASE readExposure(t)
      BY <1>1, <3>3 DEF readExposure, Learn, Request
    <3>4. CASE readBudget(t)
      BY <1>1, <3>4 DEF readBudget, Request
    <3>5. QED
      BY <1>3, <3>1, <3>2, <3>3, <3>4
  <2>3. QED
    BY <2>1, <2>2 DEF Running
<1>4. CASE readFails(t) \/ useGrant(t) \/ checkBudget(t) \/ release(t)
  BY <1>1, <1>4 DEF readFails, useGrant, checkBudget, release, Goto, Request, Running
<1>5. CASE recount(t) \/ admit(t)
  BY <1>1, <1>5 DEF recount, Reread, admit, Goto, Request, Running
<1>6. CASE send(t) \/ answer(t)
  BY <1>1, <1>6 DEF send, answer, Goto, Request, At, Fits, Running
<1>7. CASE queueReceipt(t)
  BY <1>1, <1>7 DEF queueReceipt, Goto, Request, Running
<1>8. QED
  BY <1>2, <1>3, <1>4, <1>5, <1>6, <1>7 DEF Serve

LEMMA ServeInv == ASSUME CoreInv, NEW t \in Requests, Serve(t) PROVE CoreInv'
<1>1. AmountsInv' /\ \A r \in Receipts : HasRow(r) => HasRow(r)'
  BY ServeQueue, AmountsStep, RowsStay DEF CoreInv
<1>2. Turns(t) /\ (KeepsPlace(t) \/ TakesPlace(t) \/ LeavesPlace(t)) /\ (KeepsLoad(t) \/ TakesLoad(t) \/ LeavesLoad(t))
  BY Served DEF CoreInv
<1>3. PlacesCounted' /\ sessions' \in Seq(Session) /\ Len(sessions') = Len(sessions)
  BY <1>2, PlacesStep DEF CoreInv
<1>4. LoadOwed'
  BY <1>2, LoadStep DEF CoreInv
<1>5. providers' = providers
  BY DEF Serve, find, reserve, readGrant, readBalance, readExposure, readBudget, readFails, useGrant, checkBudget,
         recount, admit, send, answer, queueReceipt, release, giveBack
<1>6. \A u \in Requests : Fits(u, requests'[u]) /\ Placed(requests'[u])
  BY <1>2 DEF Turns, CoreInv, CoreTyped
<1>7. ASSUME NEW u \in Requests PROVE InQueue(u, requests[u])'
  <2>1. Auth(u) \in Receipts
    BY Accounts
  <2>2. CASE u # t
    BY <1>1, <1>2, <2>1, <2>2 DEF Turns, CoreInv, CoreTyped, InQueue, HasRow, Auth
  <2>3. CASE u = t
    <3> SUFFICES ASSUME requests'[t].pc = "queued", requests'[t].fee # 0 PROVE rows'[Auth(t)].state # "none"
      BY <2>3 DEF InQueue, HasRow, Auth
    <3>1. queueReceipt(t)
      BY Comes DEF CoreInv
    <3>2. PICK r, fee : r = Auth(t) /\ add(r, fee)
      BY <3>1 DEF queueReceipt
    <3>3. rows \in [Receipts -> AnyRow] /\ r \in Receipts
      BY <2>1, <2>3, <3>2 DEF CoreInv, AmountsInv, QueueInv, Shape
    <3>4. QED
      BY <3>2, <3>3 DEF add
  <2>4. QED
    BY <2>2, <2>3
<1>8. CoreTyped'
  <2>1. \A u \in Requests : Fits(u, requests[u])' /\ Placed(requests[u])'
    BY <1>3, <1>6 DEF Fits, Placed, Fee, Key, Auth
  <2>2. DOMAIN requests' = Requests
    BY <1>2 DEF Turns
  <2>3. \A u \in Requests : InQueue(u, requests[u])'
    BY <1>7
  <2>4. QED
    BY <1>3, <1>5, <2>1, <2>2, <2>3 DEF CoreTyped, CoreInv
<1>9. QED
  BY <1>1, <1>3, <1>4, <1>8 DEF CoreInv

\* A step that no request makes.
LEMMA RequestsStay ==
  ASSUME CoreInv, [QueueNext]_qvars, requests' = requests, outstanding' = outstanding,
         sessions' \in Seq(Session), Len(sessions) <= Len(sessions'),
         \A s \in DOMAIN sessions : sessions'[s] = sessions[s],
         \A s \in DOMAIN sessions' \ DOMAIN sessions : sessions'[s].in_flight = 0,
         providers' \in [Providers -> 0 .. Len(sessions')]
  PROVE  CoreInv'
<1>1. AmountsInv' /\ \A r \in Receipts : HasRow(r) => HasRow(r)'
  BY AmountsStep, RowsStay DEF CoreInv
<1>2. Len(sessions) \in Nat /\ Len(sessions') \in Nat /\ DOMAIN sessions = 1 .. Len(sessions)
  BY DEF CoreInv, CoreTyped
<1>3. \A t \in Requests : Auth(t) \in Receipts
  BY Accounts
<1>4. CoreTyped'
  <2>1. ASSUME NEW t \in Requests PROVE Fits(t, requests[t])' /\ Placed(requests[t])' /\ InQueue(t, requests[t])'
    <3>1. Fits(t, requests[t]) /\ Placed(requests[t]) /\ InQueue(t, requests[t])
      BY DEF CoreInv, CoreTyped
    <3>2. Fits(t, requests[t])'
      BY <3>1 DEF Fits, Fee, Key, Auth
    <3>3. Placed(requests[t])'
      BY <1>2, <3>1 DEF Placed
    <3>4. InQueue(t, requests[t])'
      BY <1>1, <1>3, <3>1 DEF InQueue, Auth
    <3>5. QED
      BY <3>2, <3>3, <3>4
  <2>2. QED
    BY <2>1 DEF CoreTyped, CoreInv
<1>5. PlacesCounted'
  <2>1. ASSUME NEW s \in DOMAIN sessions'
        PROVE  sessions'[s].in_flight = Cardinality({t \in InPc(Occupying) : requests[t].session = s})
    <3>1. CASE s \in DOMAIN sessions
      BY <3>1 DEF CoreInv, PlacesCounted
    <3>2. CASE s \notin DOMAIN sessions
      <4>1. \A t \in Requests : requests[t].session # s
        BY <1>2, <3>2 DEF CoreInv, CoreTyped, Placed
      <4>2. {t \in InPc(Occupying) : requests[t].session = s} = {}
        BY <4>1 DEF InPc
      <4>3. QED
        BY <3>2, <4>2, FS_EmptySet
    <3>3. QED
      BY <3>1, <3>2
  <2>2. QED
    BY <2>1 DEF PlacesCounted, InPc
<1>6. LoadOwed'
  BY DEF CoreInv, LoadOwed, InPc, Counts, KeysOf, OwnersOf, ProvidersOf, FeesIn, Fee, Key, Owner, Provider, Auth
<1>7. QED
  BY <1>1, <1>4, <1>5, <1>6 DEF CoreInv

LEMMA RegisterInv ==
  ASSUME CoreInv, NEW p \in Providers, register_provider(p) \/ unregister_provider(p) \/ suspend(p) PROVE CoreInv'
<1>1. [QueueNext]_qvars /\ requests' = requests /\ outstanding' = outstanding
  BY DEF register_provider, unregister_provider, suspend
<1>2. /\ sessions \in Seq(Session) /\ providers \in [Providers -> 0 .. Len(sessions)] /\ Len(sessions) \in Nat
      /\ DOMAIN sessions = 1 .. Len(sessions)
  BY DEF CoreInv, CoreTyped
<1>3. CASE register_provider(p)
  <2>1. PICK session : session = [provider |-> p, in_flight |-> 0]
    OBVIOUS
  <2>2. session \in Session /\ session.in_flight = 0
    BY <2>1 DEF Session
  <2>3. sessions' = Append(sessions, session) /\ providers' = [providers EXCEPT ![p] = Len(sessions) + 1]
    BY <1>3, <2>1 DEF register_provider
  <2>4. /\ sessions' \in Seq(Session) /\ Len(sessions') = Len(sessions) + 1
        /\ \A s \in DOMAIN sessions : sessions'[s] = sessions[s]
        /\ DOMAIN sessions' = 1 .. (Len(sessions) + 1) /\ sessions'[Len(sessions) + 1] = session
    BY <1>2, <2>2, <2>3
  <2>5. \A s \in DOMAIN sessions' \ DOMAIN sessions : sessions'[s].in_flight = 0
    BY <1>2, <2>2, <2>4
  <2>6. providers' \in [Providers -> 0 .. Len(sessions')] /\ Len(sessions) <= Len(sessions')
    BY <1>2, <2>3, <2>4
  <2>7. QED
    BY <1>1, <2>4, <2>5, <2>6, RequestsStay
<1>4. CASE unregister_provider(p) \/ suspend(p)
  <2>1. sessions' = sessions /\ providers' \in [Providers -> 0 .. Len(sessions')]
    BY <1>2, <1>4 DEF unregister_provider, suspend
  <2>2. QED
    BY <1>1, <1>2, <2>1, RequestsStay
<1>5. QED
  BY <1>3, <1>4

LEMMA QueueWorksInv ==
  ASSUME CoreInv, [QueueNext]_qvars, UNCHANGED coreVars PROVE CoreInv'
<1>1. sessions' = sessions /\ providers' = providers /\ requests' = requests /\ outstanding' = outstanding
  BY DEF coreVars
<1>2. sessions \in Seq(Session) /\ providers \in [Providers -> 0 .. Len(sessions)] /\ Len(sessions) <= Len(sessions)
  BY DEF CoreInv, CoreTyped
<1>3. QED
  BY <1>1, <1>2, RequestsStay

LEMMA NothingOwed == ASSUME InPc(Loading) = {}, outstanding = Nothing PROVE LoadOwed
<1>1. FeesIn({}) = 0
  BY NoLoad
<1>2. QED
  BY <1>1 DEF LoadOwed, Nothing, Counts

LEMMA CrashInv == ASSUME CoreInv, Crash PROVE CoreInv'
<1>1. AmountsInv' /\ \A r \in Receipts : HasRow(r) => HasRow(r)'
  BY AmountsStep, RowsStay DEF CoreInv, QueueNext, Crash
<1>2. \A t \in Requests : requests'[t] \in {NewRequest, Done}
  BY DEF Crash
<1>3. sessions \in Seq(Session) /\ \A s \in DOMAIN sessions : sessions[s] \in Session
  BY DEF CoreInv, CoreTyped
<1>4. /\ sessions' \in Seq(Session) /\ DOMAIN sessions' = DOMAIN sessions
      /\ \A s \in DOMAIN sessions' : sessions'[s].in_flight = 0
  <2>1. sessions' = [s \in DOMAIN sessions |-> [sessions[s] EXCEPT !.in_flight = 0]]
    BY DEF Crash
  <2>2. \A s \in DOMAIN sessions : [sessions[s] EXCEPT !.in_flight = 0] \in Session
    BY <1>3 DEF Session
  <2>3. \A s \in DOMAIN sessions : [sessions[s] EXCEPT !.in_flight = 0].in_flight = 0
    BY <1>3 DEF Session
  <2>4. DOMAIN sessions' = DOMAIN sessions /\ \A s \in DOMAIN sessions : sessions'[s].in_flight = 0
    BY <2>1, <2>3
  <2>5. sessions' \in Seq(Session)
    <3>1. Len(sessions) \in Nat /\ DOMAIN sessions = 1 .. Len(sessions)
      BY <1>3
    <3>2. sessions' \in [1 .. Len(sessions) -> Session]
      BY <2>1, <2>2, <3>1
    <3>3. QED
      BY <3>1, <3>2
  <2>6. QED
    BY <2>4, <2>5
<1>5. InPc(Occupying)' = {} /\ InPc(Loading)' = {}
  BY <1>2, DoneFits DEF InPc, Occupying, Holding, Loading, Admitted
<1>6. CoreTyped'
  <2>1. Len(sessions') \in Nat /\ Crash
    BY <1>4
  <2>2. ASSUME NEW t \in Requests PROVE Fits(t, requests[t])' /\ Placed(requests[t])' /\ InQueue(t, requests[t])'
    <3>1. Fits(t, requests'[t]) /\ requests'[t].session = 0 /\ requests'[t].pc \in {"new", "done"}
      BY <1>2, DoneFits
    <3>2. Fits(t, requests[t])'
      BY <3>1 DEF Fits, Fee, Key, Auth
    <3>3. QED
      BY <2>1, <3>1, <3>2 DEF Placed, InQueue, Occupying, Holding
  <2>3. DOMAIN requests' = Requests /\ providers' \in [Providers -> 0 .. Len(sessions')]
    BY <2>1 DEF Crash
  <2>4. QED
    BY <1>4, <2>2, <2>3 DEF CoreTyped
<1>7. PlacesCounted'
  BY <1>4, <1>5, FS_EmptySet DEF PlacesCounted
<1>8. outstanding' = Nothing
  BY DEF Crash
<1>9. LoadOwed'
  <2>1. FeesIn({}) = 0
    BY NoLoad
  <2>2. Counts(outstanding'.key, Keys, KeysOf, {}) /\ Counts(outstanding'.owner, Owners, OwnersOf, {})
        /\ Counts(outstanding'.provider, Providers, ProvidersOf, {})
    BY <1>8, <2>1 DEF Counts, Nothing
  <2>3. QED
    BY <1>5, <2>2 DEF LoadOwed, Counts, KeysOf, OwnersOf, ProvidersOf, FeesIn, Fee, Key, Owner, Provider, Auth
<1>10. QED
  BY <1>1, <1>6, <1>7, <1>9 DEF CoreInv

LEMMA CoreInvNext == CoreInv /\ [Next]_vars => CoreInv'
<1> SUFFICES ASSUME CoreInv, [Next]_vars PROVE CoreInv'
  OBVIOUS
<1>1. [QueueNext]_qvars
  BY CoreQueue DEF CoreInv
<1>2. CASE (\E w \in Settlers : Work(w)) /\ UNCHANGED coreVars
  BY <1>1, <1>2, QueueWorksInv
<1>3. CASE Environment /\ UNCHANGED coreVars
  BY <1>1, <1>3, QueueWorksInv
<1>4. CASE UNCHANGED vars
  BY <1>1, <1>4, QueueWorksInv DEF vars
<1>5. QED
  BY <1>2, <1>3, <1>4, RegisterInv, ServeInv, CrashInv DEF Next, Run

LEMMA CoreInvInit == Init => CoreInv
<1> SUFFICES ASSUME Init PROVE CoreInv
  OBVIOUS
<1>1. AmountsInv
  BY AmountsInit DEF Init
<1>2. \A t \in Requests : requests[t] = NewRequest
  BY DEF Init
<1>3. InPc(Occupying) = {} /\ InPc(Loading) = {}
  BY <1>2, DoneFits DEF InPc, Occupying, Holding, Loading, Admitted
<1>4. CoreTyped
  <2>1. ASSUME NEW t \in Requests PROVE Fits(t, requests[t]) /\ Placed(requests[t]) /\ InQueue(t, requests[t])
    <3>1. Len(sessions) = 0
      BY DEF Init
    <3>2. QED
      BY <1>2, <3>1, DoneFits DEF Placed, InQueue, Occupying, Holding
  <2>2. sessions \in Seq(Session) /\ providers \in [Providers -> 0 .. Len(sessions)] /\ DOMAIN requests = Requests
    BY DEF Init
  <2>3. QED
    BY <2>1, <2>2 DEF CoreTyped
<1>5. PlacesCounted
  BY DEF Init, PlacesCounted
<1>6. LoadOwed
  BY <1>3, NothingOwed DEF Init
<1>7. QED
  BY <1>1, <1>4, <1>5, <1>6 DEF CoreInv

-----------------------------------------------------------------------------
(* What it means for the Relay *)

\* Serving requests, the Relay does nothing to its queue that RelaySettlement does not: what holds of the queue by
\* itself holds of it while requests are admitted, dispatched and cut off.
THEOREM RunsItsQueue == Spec => QueueSpec
<1>1. Init => QueueInit
  BY DEF Init
<1>2. CoreInv /\ [Next]_vars => [QueueNext]_qvars
  BY CoreQueue DEF CoreInv
<1>3. QED
  BY <1>1, <1>2, CoreInvInit, CoreInvNext, PTL DEF Spec, QueueSpec

NobodyGone == \A t \in Requests : requests[t].pc # "gone"

LEMMA NobodyGoes == ASSUME "client" \notin Faults PROVE CoreInv /\ NobodyGone /\ [Next]_vars => NobodyGone'
<1> SUFFICES ASSUME CoreInv, NobodyGone, [Next]_vars PROVE NobodyGone'
  OBVIOUS
<1>1. ASSUME NEW t \in Requests, Serve(t) PROVE NobodyGone'
  BY <1>1, Served, Comes DEF CoreInv, NobodyGone, Turns
<1>2. CASE Crash
  BY <1>2, DoneFits DEF Crash, NobodyGone
<1>3. CASE requests' = requests
  BY <1>3 DEF NobodyGone
<1>4. QED
  BY <1>1, <1>2, <1>3 DEF Next, Run, register_provider, unregister_provider, suspend, coreVars, vars

LEMMA NobodyGoneInit == Init => NobodyGone
BY DoneFits DEF Init, NobodyGone

\* Whatever becomes of a request, a read that fails, a Provider that answers badly, is replaced or goes away, its
\* place is taken once and given back once, to the session it was taken from.
THEOREM PlacesGivenBack == ASSUME "client" \notin Faults PROVE Spec => []InFlightExact
<1>1. CoreInv /\ NobodyGone => InFlightExact
  BY DEF CoreInv, PlacesCounted, NobodyGone, InFlightExact, InPc, Occupying
<1>2. QED
  BY <1>1, NobodyGoes, NobodyGoneInit, CoreInvInit, CoreInvNext, PTL DEF Spec

\* And what a request may cost stays on the accounts of its key, its owner and its Provider until its receipt is
\* in the queue, where the next admission finds it.
THEOREM LoadIsCounted == ASSUME "client" \notin Faults PROVE Spec => []LoadCounted
<1>1. CoreInv /\ NobodyGone => LoadCounted
  <2> SUFFICES ASSUME CoreInv, NobodyGone PROVE LoadCounted
    OBVIOUS
  <2>1. InPc(Loading) = InPc(Admitted) /\ InPc(Admitted) \subseteq Requests
    BY DEF NobodyGone, InPc, Loading
  <2>2. /\ \A k \in Keys : {t \in InPc(Admitted) : KeysOf[t] = k} = {t \in InPc(Admitted) : Key(t) = k}
        /\ \A o \in Owners : {t \in InPc(Admitted) : OwnersOf[t] = o} = {t \in InPc(Admitted) : Owner(t) = o}
        /\ \A p \in Providers : {t \in InPc(Admitted) : ProvidersOf[t] = p} = {t \in InPc(Admitted) : Provider(t) = p}
    BY <2>1 DEF KeysOf, OwnersOf, ProvidersOf
  <2>3. \A t \in InPc({"queued"}) : requests[t].fee # 0 => rows[Auth(t)].state # "none"
    BY DEF CoreInv, CoreTyped, InQueue, HasRow, InPc
  <2>4. QED
    BY <2>1, <2>2, <2>3 DEF CoreInv, LoadOwed, Counts, LoadCounted
<1>2. QED
  BY <1>1, NobodyGoes, NobodyGoneInit, CoreInvInit, CoreInvNext, PTL DEF Spec

-----------------------------------------------------------------------------
(* What the queue still has to charge *)

Waits(status) == status \in {"none", "lapsed"}

\* No fee changes, no receipt comes to the queue, and none on the chain comes back from it.
NoneNew ==
  \A r \in Receipts :
    /\ rows'[r].fee = rows[r].fee
    /\ rows'[r].state = "queued" => rows[r].state = "queued"
    /\ Waits(chain'.status[r]) => Waits(chain.status[r])
    /\ r \in SettledNow => HasRow(r)

\* Accounts are charged no more than what settles.
Charges ==
  /\ \A k \in Keys : Limit[k] # 0 => chain'.spent[k] <= chain.spent[k] + FeesOf(OfKey(Receipts, k) \cap SettledNow)
  /\ \A o \in Owners : chain.balance[o] <= chain'.balance[o] + FeesOf(OfOwner(Receipts, o) \cap SettledNow)
  /\ \A p \in Providers : chain'.exposure[p] <= chain.exposure[p] + FeesOf(OfProvider(Receipts, p) \cap SettledNow)

LEMMA FeesPart ==
  ASSUME Shape, NEW S \in SUBSET Receipts, NEW T \in SUBSET S PROVE FeesOf(T) <= FeesOf(S) /\ FeesOf(T) \in Nat
<1>1. S \ T \in SUBSET Receipts /\ T \in SUBSET Receipts /\ T \cap (S \ T) = {} /\ T \cup (S \ T) = S
  OBVIOUS
<1>2. FeesOf(S) = FeesOf(T) + FeesOf(S \ T)
  BY <1>1, FeesUnion
<1>3. FeesOf(T) \in Nat /\ FeesOf(S \ T) \in Nat
  BY <1>1, FeesNat
<1>4. QED
  BY <1>2, <1>3

\* What settles was waiting in the queue, or had been given up.
LEMMA UnchargedFalls ==
  ASSUME AmountsInv, NoneNew, NEW S \in SUBSET Receipts
  PROVE  Uncharged(S)' + FeesOf(S \cap SettledNow) <= Uncharged(S) + Missed(S, {})
<1> DEFINE before == {r \in S \cap InState("queued") : chain.status[r] \in {"none", "lapsed"}}
           after == {r \in S : rows'[r].state = "queued" /\ chain'.status[r] \in {"none", "lapsed"}}
           new == S \cap SettledNow
           queued == {r \in new : rows[r].state = "queued"}
           given == {r \in S \cap SettledNow : {} # {} \/ rows[r].state = "rejected"}
<1>1. before \in SUBSET Receipts /\ after \in SUBSET S /\ queued \in SUBSET Receipts /\ given \in SUBSET Receipts
  OBVIOUS
<1>2. rows \in [Receipts -> AnyRow] /\ Shape /\ SettledOnChain
  BY DEF AmountsInv, QueueInv, Shape
<1>3. Uncharged(S) = FeesOf(before) /\ Missed(S, {}) = FeesOf(given)
  BY DEF Uncharged, Missed
<1>4. Uncharged(S)' = FeesOf(after)
  <2>1. PICK now : now = after
    OBVIOUS
  <2>2. now \in SUBSET Receipts /\ \A r \in now : rows'[r].fee = rows[r].fee
    BY <2>1 DEF NoneNew
  <2>3. FeesOf(now)' = FeesOf(now)
    BY <2>2, FeesSame
  <2>4. now = {r \in S \cap InState("queued")' : chain'.status[r] \in {"none", "lapsed"}}
    BY <2>1 DEF InState
  <2>5. Uncharged(S)' = FeesOf(now)'
    BY <2>4 DEF Uncharged
  <2>6. QED
    BY <2>1, <2>3, <2>5
<1>5. new = queued \cup given /\ queued \cap given = {}
  <2>1. ASSUME NEW r \in new PROVE rows[r].state \in {"queued", "rejected"}
    <3>1. chain.status[r] = "none" /\ r \in Receipts /\ HasRow(r) /\ rows[r].state \in RowStates
      BY <1>2 DEF SettledNow, NoneNew, AnyRow
    <3>2. rows[r].state \notin {"settled", "released"}
      BY <1>2, <3>1 DEF SettledOnChain, Escrowed
    <3>3. QED
      BY <3>1, <3>2 DEF HasRow, RowStates
  <2>2. QED
    BY <2>1
<1>6. after \cup queued \subseteq before /\ after \cap queued = {}
  BY DEF NoneNew, SettledNow, Waits, InState
<1> HIDE DEF before, after, queued, given
<1>7. FeesOf(new) = FeesOf(queued) + FeesOf(given)
  BY <1>1, <1>2, <1>5, FeesUnion
<1>8. FeesOf(after \cup queued) = FeesOf(after) + FeesOf(queued)
  BY <1>1, <1>2, <1>6, FeesUnion
<1>9. FeesOf(after \cup queued) <= FeesOf(before)
  BY <1>1, <1>2, <1>6, FeesPart
<1>10. FeesOf(queued) \in Nat /\ FeesOf(given) \in Nat /\ FeesOf(after) \in Nat /\ FeesOf(before) \in Nat
  BY <1>1, <1>2, FeesNat
<1>11. QED
  BY <1>3, <1>4, <1>7, <1>8, <1>9, <1>10

LEMMA SettledFees ==
  ASSUME AmountsInv, NEW S PROVE FeesOf(S \cap SettledNow) \in Nat
<1>1. S \cap SettledNow \in SUBSET Receipts
  BY DEF SettledNow
<1>2. QED
  BY <1>1, FeesNat DEF AmountsInv, QueueInv

LEMMA AccountsTyped ==
  ASSUME AmountsInv
  PROVE  /\ chain \in Chains /\ \A k \in Keys : chain.spent[k] \in Nat
         /\ \A o \in Owners : chain.balance[o] \in Nat
         /\ \A p \in Providers : chain.exposure[p] \in Nat
<1>1. chain.balance \in [Owners -> Nat] /\ chain.exposure \in [Providers -> Nat] /\ chain.spent \in [Keys -> Nat]
  BY AmountsTyped DEF TypeOK
<1>2. QED
  BY <1>1 DEF AmountsInv, Exact

\* Whoever is not charged more, nor has less, is charged no more than what settles.
LEMMA NoCharge ==
  ASSUME AmountsInv,
         \A k \in Keys : chain'.spent[k] <= chain.spent[k] /\ chain'.spent[k] \in Nat,
         \A o \in Owners : chain.balance[o] <= chain'.balance[o] /\ chain'.balance[o] \in Nat,
         \A p \in Providers : chain'.exposure[p] <= chain.exposure[p] /\ chain'.exposure[p] \in Int
  PROVE  Charges
<1>1. \A S : FeesOf(S \cap SettledNow) \in Nat
  BY SettledFees
<1>2. \A k \in Keys : chain'.spent[k] <= chain.spent[k] + FeesOf(OfKey(Receipts, k) \cap SettledNow)
  <2> TAKE k \in Keys
  <2>1. FeesOf(OfKey(Receipts, k) \cap SettledNow) \in Nat /\ chain.spent[k] \in Nat
    BY <1>1, AccountsTyped
  <2>2. QED
    BY <2>1
<1>3. \A o \in Owners : chain.balance[o] <= chain'.balance[o] + FeesOf(OfOwner(Receipts, o) \cap SettledNow)
  <2> TAKE o \in Owners
  <2>1. FeesOf(OfOwner(Receipts, o) \cap SettledNow) \in Nat /\ chain.balance[o] \in Nat
    BY <1>1, AccountsTyped
  <2>2. QED
    BY <2>1
<1>4. \A p \in Providers : chain'.exposure[p] <= chain.exposure[p] + FeesOf(OfProvider(Receipts, p) \cap SettledNow)
  <2> TAKE p \in Providers
  <2>1. FeesOf(OfProvider(Receipts, p) \cap SettledNow) \in Nat /\ chain.exposure[p] \in Nat
    BY <1>1, AccountsTyped
  <2>2. QED
    BY <2>1
<1>5. QED
  BY <1>2, <1>3, <1>4 DEF Charges

LEMMA ChainStays == ASSUME AmountsInv, chain' = chain PROVE Charges /\ SettledNow = {}
<1>1. SettledNow = {}
  BY DEF SettledNow
<1>2. Charges
  BY AccountsTyped, NoCharge
<1>3. QED
  BY <1>1, <1>2

LEMMA WorkCharges == ASSUME AmountsInv, NEW w \in Settlers, Work(w) PROVE NoneNew /\ Charges
<1>1. chain' = chain /\ RowsWorked
  BY WorkRows
<1>2. Advance
  BY QueueInvNext DEF AmountsInv, QueueNext
<1>3. Charges /\ SettledNow = {}
  BY <1>1, ChainStays
<1>4. \A r \in Receipts : rows'[r].fee = rows[r].fee /\ (rows'[r].state = "queued" => rows[r].state = "queued")
  BY <1>1, <1>2 DEF RowsWorked, Advance, HasRow
<1>5. QED
  BY <1>1, <1>3, <1>4 DEF NoneNew

LEMMA MineCharges == ASSUME AmountsInv, Mine PROVE NoneNew /\ Charges
<1>1. PICK tx : tx = Head(mempool)
  OBVIOUS
<1>2. /\ mempool \in Seq(Transaction) /\ mempool # <<>> /\ Shape
      /\ rows' = rows /\ chain' = IF Succeeds(tx) THEN Effect(tx) ELSE chain
  BY <1>1 DEF Mine, AmountsInv, QueueInv, Shape
<1>3. tx \in Transaction /\ tx = mempool[1] /\ 1 \in DOMAIN mempool
  BY <1>1, <1>2
<1>4. tx.items \in SUBSET Receipts /\ \A r \in tx.items : HasRow(r)
  BY <1>3 DEF Transaction, AmountsInv, Recorded
<1>5. chain \in Chains /\ Exact(chain)
  BY DEF AmountsInv, Exact
<1>6. CASE ~Succeeds(tx)
  <2>1. chain' = chain
    BY <1>2, <1>6
  <2>2. QED
    BY <1>2, <2>1, ChainStays DEF NoneNew
<1>7. CASE Succeeds(tx) /\ tx.kind = "settle"
  <2>1. PICK S : S = tx.items
    OBVIOUS
  <2>2. chain' = settleBatch(S) /\ Settles(S) /\ S \in SUBSET Receipts
    BY <1>2, <1>4, <1>7, <2>1 DEF Effect, Succeeds
  <2>3. /\ chain'.status = [r \in Receipts |-> IF r \in S THEN "pending" ELSE chain.status[r]]
        /\ chain'.balance = [o \in Owners |-> chain.balance[o] - FeesOf(OfOwner(S, o))]
        /\ chain'.spent = [k \in Keys |-> IF Limit[k] = 0 THEN chain.spent[k] ELSE chain.spent[k] + FeesOf(OfKey(S, k))]
        /\ chain'.exposure = [p \in Providers |-> chain.exposure[p] + FeesOf(OfProvider(S, p))]
    BY <1>5, <2>2, BatchFields
  <2>4. SettledNow = S
    BY <2>2, <2>3 DEF SettledNow, Settles
  <2>5. /\ \A k : OfKey(Receipts, k) \cap SettledNow = OfKey(S, k)
        /\ \A o : OfOwner(Receipts, o) \cap SettledNow = OfOwner(S, o)
        /\ \A p : OfProvider(Receipts, p) \cap SettledNow = OfProvider(S, p)
    BY <2>2, <2>4 DEF OfKey, OfOwner, OfProvider
  <2>6. \A T : FeesOf(T \cap SettledNow) \in Nat
    BY SettledFees
  <2>7. ASSUME NEW k \in Keys, Limit[k] # 0
        PROVE  chain'.spent[k] <= chain.spent[k] + FeesOf(OfKey(Receipts, k) \cap SettledNow)
    <3>1. chain'.spent[k] = chain.spent[k] + FeesOf(OfKey(S, k)) /\ chain.spent[k] \in Nat
      BY <2>3, <2>7, AccountsTyped
    <3>2. FeesOf(OfKey(S, k)) = FeesOf(OfKey(Receipts, k) \cap SettledNow) /\ FeesOf(OfKey(S, k)) \in Nat
      BY <2>5, <2>6
    <3>3. QED
      BY <3>1, <3>2
  <2>8. ASSUME NEW o \in Owners
        PROVE  chain.balance[o] <= chain'.balance[o] + FeesOf(OfOwner(Receipts, o) \cap SettledNow)
    <3>1. chain'.balance[o] = chain.balance[o] - FeesOf(OfOwner(S, o)) /\ chain.balance[o] \in Nat
      BY <2>3, AccountsTyped
    <3>2. FeesOf(OfOwner(S, o)) = FeesOf(OfOwner(Receipts, o) \cap SettledNow) /\ FeesOf(OfOwner(S, o)) \in Nat
      BY <2>5, <2>6
    <3>3. QED
      BY <3>1, <3>2
  <2>9. ASSUME NEW p \in Providers
        PROVE  chain'.exposure[p] <= chain.exposure[p] + FeesOf(OfProvider(Receipts, p) \cap SettledNow)
    <3>1. chain'.exposure[p] = chain.exposure[p] + FeesOf(OfProvider(S, p)) /\ chain.exposure[p] \in Nat
      BY <2>3, AccountsTyped
    <3>2. FeesOf(OfProvider(S, p)) = FeesOf(OfProvider(Receipts, p) \cap SettledNow) /\ FeesOf(OfProvider(S, p)) \in Nat
      BY <2>5, <2>6
    <3>3. QED
      BY <3>1, <3>2
  <2>10. NoneNew
    BY <1>2, <1>4, <2>1, <2>3, <2>4 DEF NoneNew, Waits
  <2>11. QED
    BY <2>7, <2>8, <2>9, <2>10 DEF Charges
<1>8. CASE Succeeds(tx) /\ tx.kind # "settle"
  <2>1. PICK due : due = {r \in tx.items : chain.status[r] = "due"}
    OBVIOUS
  <2>2. chain' = Ended(due) /\ due \in SUBSET Receipts
    BY <1>2, <1>4, <1>8, <2>1 DEF Effect, releaseBatch
  <2>3. /\ chain'.status = [r \in Receipts |-> IF r \in due THEN "ended" ELSE chain.status[r]]
        /\ chain'.exposure = [p \in Providers |-> chain.exposure[p] - FeesOf(OfProvider(due, p))]
        /\ chain'.balance = chain.balance /\ chain'.spent = chain.spent
    BY <1>5, <2>2, EndedFields
  <2>4. \A p \in Providers : chain'.exposure[p] <= chain.exposure[p] /\ chain'.exposure[p] \in Int
    <3> TAKE p \in Providers
    <3>1. FeesOf(OfProvider(due, p)) \in Nat /\ chain.exposure[p] \in Nat
      BY <1>2, <2>2, FeesNat, AccountsTyped DEF OfProvider
    <3>2. QED
      BY <2>3, <3>1
  <2>5. Charges
    BY <2>3, <2>4, AccountsTyped, NoCharge
  <2>6. NoneNew
    BY <1>2, <2>3 DEF NoneNew, Waits, SettledNow
  <2>7. QED
    BY <2>5, <2>6
<1>9. QED
  BY <1>6, <1>7, <1>8

LEMMA OthersCharges ==
  ASSUME AmountsInv, NEW r \in Receipts, BecomesUnpayable(r) \/ WindowPasses(r) \/ OthersAct(r)
  PROVE  NoneNew /\ Charges
<1>1. Shape /\ chain \in Chains /\ rows' = rows
  BY DEF AmountsInv, QueueInv, Exact, BecomesUnpayable, WindowPasses, OthersAct, queueVars
<1>2. ASSUME NEW state \in ChainStates, chain' = [chain EXCEPT !.status[r] = state], state # "none",
             state = "lapsed" => chain.status[r] = "none", chain.status[r] = "none" => state = "lapsed"
      PROVE  NoneNew /\ Charges
  <2>1. /\ chain'.exposure = chain.exposure /\ chain'.balance = chain.balance /\ chain'.spent = chain.spent
        /\ \A q \in Receipts : chain'.status[q] = IF q = r THEN state ELSE chain.status[q]
    BY <1>1, <1>2 DEF Chains
  <2>2. NoneNew
    BY <1>1, <1>2, <2>1 DEF NoneNew, Waits, SettledNow
  <2>3. Charges
    BY <2>1, AccountsTyped, NoCharge
  <2>4. QED
    BY <2>2, <2>3
<1>3. ASSUME chain' = [chain EXCEPT !.active = @ \ {KeyOf[r]}] PROVE NoneNew /\ Charges
  <2>1. /\ chain'.exposure = chain.exposure /\ chain'.balance = chain.balance /\ chain'.spent = chain.spent
        /\ chain'.status = chain.status
    BY <1>1, <1>3 DEF Chains
  <2>2. NoneNew
    BY <1>1, <2>1 DEF NoneNew, SettledNow
  <2>3. Charges
    BY <2>1, AccountsTyped, NoCharge
  <2>4. QED
    BY <2>2, <2>3
<1>4. PICK c : c = Ended({r})
  OBVIOUS
<1>5. /\ c.status = [q \in Receipts |-> IF q \in {r} THEN "ended" ELSE chain.status[q]]
      /\ c.exposure = [p \in Providers |-> chain.exposure[p] - FeesOf(OfProvider({r}, p))]
      /\ c.balance = chain.balance /\ c.spent = chain.spent
      /\ c = [status |-> c.status, balance |-> c.balance, active |-> c.active, spent |-> c.spent, exposure |-> c.exposure]
  BY <1>1, <1>4, EndedFields
<1>6. \A p \in Providers : c.exposure[p] <= chain.exposure[p] /\ c.exposure[p] \in Int
  <2> TAKE p \in Providers
  <2>1. FeesOf(OfProvider({r}, p)) \in Nat /\ chain.exposure[p] \in Nat
    BY <1>1, FeesNat, AccountsTyped DEF OfProvider
  <2>2. QED
    BY <1>5, <2>1
<1>7. ASSUME chain'.status = c.status PROVE NoneNew
  BY <1>1, <1>5, <1>7 DEF NoneNew, Waits, SettledNow
<1>8. CASE chain' = Ended({r})
  <2>1. chain'.spent = c.spent /\ chain'.balance = c.balance /\ chain'.exposure = c.exposure /\ chain'.status = c.status
    BY <1>4, <1>8
  <2>2. \A k \in Keys : chain'.spent[k] <= chain.spent[k] /\ chain'.spent[k] \in Nat
    BY <1>5, <2>1, AccountsTyped
  <2>3. \A o \in Owners : chain.balance[o] <= chain'.balance[o] /\ chain'.balance[o] \in Nat
    BY <1>5, <2>1, AccountsTyped
  <2>4. \A p \in Providers : chain'.exposure[p] <= chain.exposure[p] /\ chain'.exposure[p] \in Int
    BY <1>6, <2>1
  <2>5. Charges
    BY <2>2, <2>3, <2>4, NoCharge
  <2>6. QED
    BY <1>7, <2>1, <2>5
<1>9. CASE chain' = [Ended({r}) EXCEPT
                       !.balance[OwnerOf[KeyOf[r]]] = @ + rows[r].fee,
                       !.spent[KeyOf[r]] = IF @ >= rows[r].fee THEN @ - rows[r].fee ELSE @]
  <2>1. rows[r].fee \in Nat /\ OwnerOf[KeyOf[r]] \in Owners /\ KeyOf[r] \in Keys
    BY <1>1, QueueAssumption DEF Shape, AnyRow
  <2>2. PICK b, t : /\ b = [c.balance EXCEPT ![OwnerOf[KeyOf[r]]] = @ + rows[r].fee]
                    /\ t = [c.spent EXCEPT ![KeyOf[r]] = IF @ >= rows[r].fee THEN @ - rows[r].fee ELSE @]
    OBVIOUS
  <2>3. c.balance \in [Owners -> Nat] /\ c.spent \in [Keys -> Nat]
    BY <1>1, <1>5 DEF Chains
  <2>4. \A o \in Owners : chain.balance[o] <= b[o] /\ b[o] \in Nat
    BY <1>5, <2>1, <2>2, <2>3
  <2>5. \A k \in Keys : t[k] <= chain.spent[k] /\ t[k] \in Nat
    BY <1>5, <2>1, <2>2, <2>3
  <2>6. chain' = [c EXCEPT !.balance = b, !.spent = t]
    BY <1>4, <1>5, <1>9, <2>2
  <2>7. chain'.balance = b /\ chain'.spent = t /\ chain'.exposure = c.exposure /\ chain'.status = c.status
    BY <1>5, <2>6
  <2>8. Charges
    BY <1>6, <2>4, <2>5, <2>7, NoCharge
  <2>9. QED
    BY <1>7, <2>7, <2>8
<1>10. CASE BecomesUnpayable(r)
  BY <1>2, <1>3, <1>10 DEF BecomesUnpayable, ChainStates
<1>11. CASE WindowPasses(r)
  BY <1>2, <1>11 DEF WindowPasses, ChainStates
<1>12. CASE OthersAct(r)
  BY <1>2, <1>8, <1>9, <1>12 DEF OthersAct, ChainStates
<1>13. QED
  BY <1>10, <1>11, <1>12

LEMMA QueueCharges ==
  ASSUME AmountsInv, (\E w \in Settlers : Work(w)) \/ Environment \/ StopWorkers PROVE NoneNew /\ Charges
<1>1. ASSUME rows' = rows, chain' = chain PROVE NoneNew /\ Charges
  BY <1>1, ChainStays DEF NoneNew
<1>2. CASE DropTransaction \/ TopUp \/ StopWorkers
  BY <1>1, <1>2 DEF DropTransaction, TopUp, StopWorkers, queueVars
<1>3. QED
  BY <1>2, WorkCharges, MineCharges, OthersCharges DEF Environment

-----------------------------------------------------------------------------
(* What requests have read *)

Deciding == {"reading", "granted", "over", "checked"}

NothingRead == \A t \in Requests : requests[t].pc \in {"new", "found"} => requests[t].reads = NoReads

\* What a request has read before is what it had read; the rest is what the chain says now.
OldOrFresh(t) ==
  requests'[t].pc \in Deciding =>
    /\ requests'[t].reads.balance # Unread =>
         \/ requests[t].pc \in Deciding /\ requests'[t].reads.balance = requests[t].reads.balance
         \/ requests'[t].reads.balance = chain.balance[Owner(t)]
    /\ requests'[t].reads.exposure # Unread =>
         \/ requests[t].pc \in Deciding /\ requests'[t].reads.exposure = requests[t].reads.exposure
         \/ requests'[t].reads.exposure = chain.exposure[Provider(t)]
    /\ requests'[t].reads.spent # Unread /\ requests'[t].reads.limit # 0 =>
         \/ /\ requests[t].pc \in Deciding /\ requests'[t].reads.spent = requests[t].reads.spent
            /\ requests'[t].reads.limit = requests[t].reads.limit
         \/ requests'[t].reads.spent = chain.spent[Key(t)]

LEMMA ReadsStep ==
  ASSUME AmountsInv, CoreTyped, NothingRead, NEW t \in Requests,
         readGrant(t) \/ readBalance(t) \/ readExposure(t) \/ readBudget(t)
  PROVE  OldOrFresh(t) /\ requests'[t].pc \in Deciding
<1>1. requests[t].pc \in {"reading", "granted"} /\ requests[t] \in Request /\ DOMAIN requests = Requests
  BY DEF CoreTyped, readGrant, readBalance, readExposure, readBudget, At, Reading, Fits
<1>2. CASE readGrant(t)
  <2>1. PICK reply \in {0, 1} : Learn(t, "active", reply)
    BY <1>2 DEF readGrant
  <2>2. requests'[t].pc = requests[t].pc /\ requests'[t].reads.balance = requests[t].reads.balance
        /\ requests'[t].reads.exposure = requests[t].reads.exposure
        /\ requests'[t].reads.spent = requests[t].reads.spent /\ requests'[t].reads.limit = requests[t].reads.limit
    BY <1>1, <2>1 DEF Learn, Request, Reads
  <2>3. QED
    BY <1>1, <2>2 DEF OldOrFresh, Deciding
<1>3. CASE readBalance(t)
  <2>1. PICK reply : reply = chain.balance[Owner(t)] /\ Learn(t, "balance", reply)
    BY <1>3 DEF readBalance
  <2>2. requests'[t].pc = requests[t].pc /\ requests'[t].reads.balance = reply
        /\ requests'[t].reads.exposure = requests[t].reads.exposure
        /\ requests'[t].reads.spent = requests[t].reads.spent /\ requests'[t].reads.limit = requests[t].reads.limit
    BY <1>1, <2>1 DEF Learn, Request, Reads
  <2>3. QED
    BY <1>1, <2>1, <2>2 DEF OldOrFresh, Deciding
<1>4. CASE readExposure(t)
  <2>1. PICK reply : reply = chain.exposure[Provider(t)] /\ Learn(t, "exposure", reply)
    BY <1>4 DEF readExposure
  <2>2. requests'[t].pc = requests[t].pc /\ requests'[t].reads.exposure = reply
        /\ requests'[t].reads.balance = requests[t].reads.balance
        /\ requests'[t].reads.spent = requests[t].reads.spent /\ requests'[t].reads.limit = requests[t].reads.limit
    BY <1>1, <2>1 DEF Learn, Request, Reads
  <2>3. QED
    BY <1>1, <2>1, <2>2 DEF OldOrFresh, Deciding
<1>5. CASE readBudget(t)
  <2>1. PICK limit, spent : /\ requests' = [requests EXCEPT ![t].reads.limit = limit, ![t].reads.spent = spent]
                            /\ spent = IF limit = 0 THEN 0 ELSE chain.spent[Key(t)]
    BY <1>5 DEF readBudget
  <2>2. requests'[t].pc = requests[t].pc /\ requests'[t].reads.exposure = requests[t].reads.exposure
        /\ requests'[t].reads.balance = requests[t].reads.balance
        /\ requests'[t].reads.spent = spent /\ requests'[t].reads.limit = limit
    BY <1>1, <2>1 DEF Request, Reads
  <2>3. QED
    BY <1>1, <2>1, <2>2 DEF OldOrFresh, Deciding
<1>6. QED
  BY <1>2, <1>3, <1>4, <1>5

LEMMA ReadsKept ==
  ASSUME CoreTyped, NothingRead, NEW t \in Requests, NEW pc, Goto(t, pc), requests[t].pc \in Deciding \/ pc \notin Deciding
  PROVE  OldOrFresh(t) /\ requests'[t].pc = pc
<1>1. requests[t] \in Request /\ DOMAIN requests = Requests
  BY DEF CoreTyped, Fits
<1>2. requests'[t].pc = pc /\ requests'[t].reads = requests[t].reads
  BY <1>1 DEF Goto, Request
<1>3. QED
  BY <1>2 DEF OldOrFresh

LEMMA ServeReads ==
  ASSUME AmountsInv, CoreTyped, NothingRead, NEW t \in Requests, Serve(t)
  PROVE  OldOrFresh(t) /\ (requests'[t].pc \in {"new", "found"} => requests'[t].reads = NoReads)
<1>1. requests[t] \in Request /\ DOMAIN requests = Requests
  BY DEF CoreTyped, Fits
<1>2. Done.pc = "done"
  BY DoneFits
<1>3. CASE find(t)
  <2>1. \/ requests' = [requests EXCEPT ![t] = Done]
        \/ requests' = [requests EXCEPT ![t].pc = "found", ![t].session = providers[Provider(t)]]
    BY <1>3 DEF find
  <2>2. requests[t].reads = NoReads
    BY <1>3 DEF find, At, NothingRead
  <2>3. \/ requests'[t].pc = "done"
        \/ requests'[t].pc = "found" /\ requests'[t].reads = NoReads
    BY <1>1, <1>2, <2>1, <2>2 DEF Request
  <2>4. QED
    BY <2>3 DEF OldOrFresh, Deciding
<1>4. CASE reserve(t)
  <2>1. requests[t].reads = NoReads
    BY <1>4 DEF reserve, At, NothingRead
  <2>2. PICK hint : \/ requests' = [requests EXCEPT ![t] = Done]
                    \/ requests' = [requests EXCEPT ![t].pc = "reading", ![t].hinted = hint]
    BY <1>4 DEF reserve
  <2>3. \/ requests'[t].pc = "done"
        \/ requests'[t].pc = "reading" /\ requests'[t].reads = NoReads
    BY <1>1, <1>2, <2>1, <2>2 DEF Request
  <2>4. QED
    BY <2>3 DEF OldOrFresh, Deciding, NoReads
<1>5. CASE readGrant(t) \/ readBalance(t) \/ readExposure(t) \/ readBudget(t)
  BY <1>5, ReadsStep DEF Deciding
<1>6. CASE readFails(t) \/ release(t)
  <2>1. Goto(t, "raising") \/ Goto(t, "returning")
    BY <1>6 DEF readFails, release
  <2>2. QED
    BY <2>1, ReadsKept DEF Deciding
<1>7. CASE useGrant(t) \/ checkBudget(t)
  <2>1. PICK pc \in {"raising", "granted", "over", "checked"} : Goto(t, pc)
    BY <1>7 DEF useGrant, checkBudget
  <2>2. requests[t].pc \in Deciding
    BY <1>7 DEF useGrant, checkBudget, At, Deciding
  <2>3. QED
    BY <2>1, <2>2, ReadsKept
<1>8. CASE recount(t)
  <2>1. PICK limit, spent : limit = Limit[Key(t)] /\ spent = chain.spent[Key(t)]
    OBVIOUS
  <2>2. requests' = [requests EXCEPT ![t].pc = "checked", ![t].reads.limit = limit, ![t].reads.spent = spent]
    BY <1>8, <2>1 DEF recount, Reread
  <2>3. requests[t].pc \in Deciding
    BY <1>8 DEF recount, At, Deciding
  <2>4. requests'[t].pc = "checked" /\ requests'[t].reads.exposure = requests[t].reads.exposure
        /\ requests'[t].reads.balance = requests[t].reads.balance /\ requests'[t].reads.spent = spent
    BY <1>1, <2>2 DEF Request, Reads
  <2>5. QED
    BY <2>1, <2>3, <2>4 DEF OldOrFresh
<1>9. CASE admit(t)
  <2>1. \/ Goto(t, "raising")
        \/ requests' = [requests EXCEPT ![t].pc = "admitted", ![t].reads = NoReads]
    BY <1>9 DEF admit
  <2>2. requests'[t].pc \in {"raising", "admitted"}
    BY <1>1, <2>1 DEF Goto, Request
  <2>3. QED
    BY <2>2 DEF OldOrFresh, Deciding
<1>10. CASE send(t) \/ answer(t) \/ queueReceipt(t) \/ giveBack(t)
  <2>1. \/ \E pc \in {"sent", "gone", "queued"} : Goto(t, pc)
        \/ \E fee : requests' = [requests EXCEPT ![t].pc = "answered", ![t].fee = fee]
        \/ requests' = [requests EXCEPT ![t] = Done]
    BY <1>10 DEF send, answer, queueReceipt, giveBack
  <2>2. requests'[t].pc \in {"sent", "gone", "queued", "answered", "done"}
    BY <1>1, <1>2, <2>1 DEF Goto, Request
  <2>3. QED
    BY <2>2 DEF OldOrFresh, Deciding
<1>11. QED
  BY <1>3, <1>4, <1>5, <1>6, <1>7, <1>8, <1>9, <1>10 DEF Serve

-----------------------------------------------------------------------------
(* What happens behind a request's back *)

SlipTyped == slip \in [key: [Keys -> Nat], owner: [Owners -> Nat], provider: [Providers -> Nat]]

\* What a request goes by is out by no more than what settled since.
ReadsOwed ==
  \A t \in Requests :
    /\ t \in Stale("spent") /\ requests[t].reads.limit = Limit[Key(t)] /\ Limit[Key(t)] # 0 =>
         chain.spent[Key(t)] <= requests[t].reads.spent + slip.key[Key(t)]
    /\ t \in Stale("balance") => requests[t].reads.balance <= chain.balance[Owner(t)] + slip.owner[Owner(t)]
    /\ t \in Stale("exposure") =>
         chain.exposure[Provider(t)] <= requests[t].reads.exposure + slip.provider[Provider(t)]

\* Who waits for a decision on an account.
StaleKey(k) == {t \in Stale("spent") : Key(t) = k}
StaleOwner(o) == {t \in Stale("balance") : Owner(t) = o}
StaleProvider(p) == {t \in Stale("exposure") : Provider(t) = p}
BlindKey(k) == {t \in AdmittedBlind : Key(t) = k}

LEMMA MissedNat ==
  ASSUME Shape, NEW S \in SUBSET Receipts, NEW stale
  PROVE  /\ Missed(S, stale) \in Nat /\ Missed(S, {}) \in Nat /\ Missed(S, {}) <= Missed(S, stale)
         /\ stale # {} => Missed(S, stale) = FeesOf(S \cap SettledNow)
<1> DEFINE all == {r \in S \cap SettledNow : stale # {} \/ rows[r].state = "rejected"}
           given == {r \in S \cap SettledNow : {} # {} \/ rows[r].state = "rejected"}
<1>1. all \in SUBSET Receipts /\ given \in SUBSET all
  OBVIOUS
<1>2. Missed(S, stale) = FeesOf(all) /\ Missed(S, {}) = FeesOf(given)
  BY DEF Missed
<1>3. stale # {} => all = S \cap SettledNow
  OBVIOUS
<1> HIDE DEF all, given
<1>4. FeesOf(all) \in Nat /\ FeesOf(given) \in Nat /\ FeesOf(given) <= FeesOf(all)
  BY <1>1, FeesNat, FeesPart
<1>5. QED
  BY <1>2, <1>3, <1>4

LEMMA SlipGrows ==
  ASSUME Shape, SlipTyped, HNext
  PROVE  /\ SlipTyped'
         /\ \A k \in Keys :
              slip'.key[k] = slip.key[k] + Missed(OfKey(Receipts, k), StaleKey(k)) + FeesIn(BlindKey(k))
         /\ \A o \in Owners : slip'.owner[o] = slip.owner[o] + Missed(OfOwner(Receipts, o), StaleOwner(o))
         /\ \A p \in Providers :
              slip'.provider[p] = slip.provider[p] + Missed(OfProvider(Receipts, p), StaleProvider(p))
<1>1. /\ slip'.key = [k \in Keys |-> slip.key[k] + Missed(OfKey(Receipts, k), StaleKey(k)) + FeesIn(BlindKey(k))]
      /\ slip'.owner = [o \in Owners |-> slip.owner[o] + Missed(OfOwner(Receipts, o), StaleOwner(o))]
      /\ slip'.provider = [p \in Providers |-> slip.provider[p] + Missed(OfProvider(Receipts, p), StaleProvider(p))]
      /\ slip' = [key |-> slip'.key, owner |-> slip'.owner, provider |-> slip'.provider]
  BY DEF HNext, StaleKey, StaleOwner, StaleProvider, BlindKey
<1>2. /\ \A k \in Keys : slip.key[k] \in Nat
      /\ \A o \in Owners : slip.owner[o] \in Nat
      /\ \A p \in Providers : slip.provider[p] \in Nat
  BY DEF SlipTyped
<1>3. /\ \A k \in Keys : Missed(OfKey(Receipts, k), StaleKey(k)) \in Nat
      /\ \A o \in Owners : Missed(OfOwner(Receipts, o), StaleOwner(o)) \in Nat
      /\ \A p \in Providers : Missed(OfProvider(Receipts, p), StaleProvider(p)) \in Nat
  BY MissedNat DEF OfKey, OfOwner, OfProvider
<1>4. \A k \in Keys : FeesIn(BlindKey(k)) \in Nat
  <2> TAKE k \in Keys
  <2>1. BlindKey(k) \in SUBSET Requests
    BY DEF BlindKey, AdmittedBlind, InPc
  <2>2. QED
    BY <2>1, LoadFacts
<1>5. /\ \A k \in Keys : slip'.key[k] \in Nat
      /\ \A o \in Owners : slip'.owner[o] \in Nat
      /\ \A p \in Providers : slip'.provider[p] \in Nat
  BY <1>1, <1>2, <1>3, <1>4
<1>6. SlipTyped'
  <2>1. slip'.key \in [Keys -> Nat] /\ slip'.owner \in [Owners -> Nat] /\ slip'.provider \in [Providers -> Nat]
    BY <1>1, <1>5
  <2>2. QED
    BY <1>1, <2>1 DEF SlipTyped
<1>7. QED
  BY <1>1, <1>6

\* What a step does to the queue, whoever makes it: only a request that is done with its Provider brings a receipt.
LEMMA StepCharges ==
  ASSUME CoreInv, Next
  PROVE  /\ Charges
         /\ \/ NoneNew
            \/ \E t \in Requests : queueReceipt(t)
<1>1. CASE rows' = rows /\ chain' = chain
  BY <1>1, ChainStays DEF CoreInv, NoneNew
<1>2. CASE (\E w \in Settlers : Work(w)) \/ Environment \/ StopWorkers
  BY <1>2, QueueCharges DEF CoreInv
<1>3. ASSUME NEW t \in Requests, Serve(t)
      PROVE  chain' = chain /\ (rows' = rows \/ queueReceipt(t))
  BY <1>3 DEF Serve, find, reserve, readGrant, readBalance, readExposure, readBudget, readFails, useGrant,
              checkBudget, recount, admit, send, answer, queueReceipt, release, giveBack, qvars, queueVars, chainVars
<1>4. CASE \E t \in Requests : queueReceipt(t)
  <2>1. chain' = chain
    BY <1>4 DEF queueReceipt, chainVars
  <2>2. QED
    BY <1>4, <2>1, ChainStays DEF CoreInv
<1>5. CASE \E p \in Providers : register_provider(p) \/ unregister_provider(p) \/ suspend(p)
  BY <1>1, <1>5 DEF register_provider, unregister_provider, suspend, qvars, queueVars, chainVars
<1>6. QED
  BY <1>1, <1>2, <1>3, <1>4, <1>5 DEF Next, Run, Crash

\* What requests do in a step: one of them moves, or none, or all end.
LEMMA StepRequests ==
  ASSUME CoreInv, Next
  PROVE  \/ \E t \in Requests : Serve(t)
         \/ requests' = requests
         \/ \A t \in Requests : requests'[t] \in {NewRequest, Done}
BY DEF Next, Run, Crash, register_provider, unregister_provider, suspend, coreVars

LEMMA StepReads ==
  ASSUME CoreInv, NothingRead, Next, NEW t \in Requests, requests'[t].pc \in Deciding
  PROVE  /\ requests'[t].reads.balance # Unread =>
              \/ requests[t].pc \in Deciding /\ requests'[t].reads.balance = requests[t].reads.balance
              \/ requests'[t].reads.balance = chain'.balance[Owner(t)]
         /\ requests'[t].reads.exposure # Unread =>
              \/ requests[t].pc \in Deciding /\ requests'[t].reads.exposure = requests[t].reads.exposure
              \/ requests'[t].reads.exposure = chain'.exposure[Provider(t)]
         /\ requests'[t].reads.spent # Unread /\ requests'[t].reads.limit # 0 =>
              \/ /\ requests[t].pc \in Deciding /\ requests'[t].reads.spent = requests[t].reads.spent
                 /\ requests'[t].reads.limit = requests[t].reads.limit
              \/ requests'[t].reads.spent = chain'.spent[Key(t)]
<1>1. CASE requests'[t] = requests[t]
  BY <1>1
<1>2. ASSUME NEW u \in Requests, Serve(u) PROVE chain' = chain /\ (u # t => requests'[t] = requests[t])
  <2>1. chain' = chain
    BY <1>2 DEF Serve, find, reserve, readGrant, readBalance, readExposure, readBudget, readFails, useGrant,
              checkBudget, recount, admit, send, answer, queueReceipt, release, giveBack, qvars, queueVars, chainVars
  <2>2. QED
    BY <1>2, <2>1, Served DEF Turns, CoreInv
<1>3. CASE Serve(t)
  <2>1. OldOrFresh(t) /\ chain' = chain
    BY <1>2, <1>3, ServeReads DEF CoreInv
  <2>2. QED
    BY <2>1 DEF OldOrFresh
<1>4. CASE requests'[t] \in {NewRequest, Done}
  BY <1>4, DoneFits DEF Deciding
<1>5. QED
  BY <1>1, <1>2, <1>3, <1>4, StepRequests

LEMMA NothingReadNext == ASSUME CoreInv, NothingRead, Next PROVE NothingRead'
<1>1. ASSUME NEW t \in Requests, requests'[t].pc \in {"new", "found"} PROVE requests'[t].reads = NoReads
  <2>1. CASE requests'[t] = requests[t]
    BY <1>1, <2>1 DEF NothingRead
  <2>2. ASSUME NEW u \in Requests, Serve(u) PROVE u # t => requests'[t] = requests[t]
    BY <2>2, Served DEF Turns, CoreInv
  <2>3. CASE Serve(t)
    BY <1>1, <2>3, ServeReads DEF CoreInv
  <2>4. CASE requests'[t] \in {NewRequest, Done}
    BY <1>1, <2>4 DEF NewRequest, Done
  <2>5. QED
    BY <2>1, <2>2, <2>3, <2>4, StepRequests
<1>2. QED
  BY <1>1 DEF NothingRead

LEMMA ReadsOwedNext ==
  ASSUME CoreInv, CoreInv', SlipTyped, NothingRead, ReadsOwed, HNext PROVE ReadsOwed'
<1>1. Shape /\ Next /\ AmountsInv /\ AmountsInv'
  BY DEF CoreInv, AmountsInv, QueueInv, HNext
<1>2. Charges
  BY <1>1, StepCharges
<1>3. ASSUME NEW t \in Requests
      PROVE  /\ Key(t) \in Keys /\ Owner(t) \in Owners /\ Provider(t) \in Providers
             /\ requests[t].reads \in Reads /\ requests'[t].reads \in Reads
             /\ chain.balance[Owner(t)] \in Nat /\ chain.exposure[Provider(t)] \in Nat /\ chain.spent[Key(t)] \in Nat
  BY <1>1, Accounts, AccountsTyped DEF CoreInv, CoreTyped, Fits, Request
<1>4. ASSUME NEW t \in Requests
      PROVE  chain'.balance[Owner(t)] \in Nat /\ chain'.exposure[Provider(t)] \in Nat /\ chain'.spent[Key(t)] \in Nat
  <2>1. TypeOK'
    BY <1>1, AmountsTyped, PTL
  <2>2. QED
    BY <1>3, <2>1 DEF TypeOK
<1>5. ASSUME NEW t \in Requests, requests'[t].pc \in Deciding, requests'[t].reads.spent # Unread,
             requests'[t].reads.limit = Limit[Key(t)], Limit[Key(t)] # 0
      PROVE  chain'.spent[Key(t)] <= requests'[t].reads.spent + slip'.key[Key(t)]
  <2>1. PICK k : k = Key(t)
    OBVIOUS
  <2>2. PICK missed : missed = Missed(OfKey(Receipts, k), StaleKey(k))
    OBVIOUS
  <2>3. PICK blind : blind = FeesIn(BlindKey(k))
    OBVIOUS
  <2>4. /\ slip'.key[k] = slip.key[k] + missed + blind /\ slip.key[k] \in Nat /\ slip'.key[k] \in Nat
        /\ missed \in Nat /\ blind \in Nat /\ OfKey(Receipts, k) \in SUBSET Receipts
    <3>1. BlindKey(k) \in SUBSET Requests
      BY DEF BlindKey, AdmittedBlind, InPc
    <3>2. slip'.key[k] = slip.key[k] + missed + blind /\ SlipTyped'
      BY <1>1, <1>3, <2>1, <2>2, <2>3, SlipGrows
    <3>3. slip.key[k] \in Nat /\ slip'.key[k] \in Nat
      BY <1>3, <2>1, <3>2 DEF SlipTyped
    <3>4. OfKey(Receipts, k) \in SUBSET Receipts
      BY DEF OfKey
    <3>5. QED
      BY <1>1, <2>2, <2>3, <3>1, <3>2, <3>3, <3>4, MissedNat, LoadFacts
  <2>5. CASE requests'[t].reads.spent = chain'.spent[k]
    BY <1>4, <2>1, <2>4, <2>5
  <2>6. CASE /\ requests[t].pc \in Deciding /\ requests'[t].reads.spent = requests[t].reads.spent
             /\ requests'[t].reads.limit = requests[t].reads.limit
    <3>1. t \in StaleKey(k) /\ t \in Stale("spent")
      BY <1>5, <2>1, <2>6 DEF StaleKey, Stale, InPc, HasRead, Deciding
    <3>2. chain.spent[k] <= requests[t].reads.spent + slip.key[k]
      BY <1>5, <2>1, <2>6, <3>1 DEF ReadsOwed
    <3>3. chain'.spent[k] <= chain.spent[k] + FeesOf(OfKey(Receipts, k) \cap SettledNow)
      BY <1>2, <1>3, <1>5, <2>1 DEF Charges
    <3>4. missed = FeesOf(OfKey(Receipts, k) \cap SettledNow)
      BY <1>1, <2>2, <2>4, <3>1, MissedNat
    <3>5. requests[t].reads.spent \in Int
      BY <1>3 DEF Reads, Unread
    <3>6. QED
      BY <1>3, <1>4, <2>1, <2>4, <2>6, <3>2, <3>3, <3>4, <3>5
  <2>7. QED
    BY <1>1, <1>5, <2>1, <2>5, <2>6, StepReads
<1>6. ASSUME NEW t \in Requests, requests'[t].pc \in Deciding, requests'[t].reads.balance # Unread
      PROVE  requests'[t].reads.balance <= chain'.balance[Owner(t)] + slip'.owner[Owner(t)]
  <2>1. PICK o : o = Owner(t)
    OBVIOUS
  <2>2. PICK missed : missed = Missed(OfOwner(Receipts, o), StaleOwner(o))
    OBVIOUS
  <2>3. OfOwner(Receipts, o) \in SUBSET Receipts
    BY DEF OfOwner
  <2>4. /\ slip'.owner[o] = slip.owner[o] + missed /\ slip.owner[o] \in Nat /\ slip'.owner[o] \in Nat /\ missed \in Nat
    <3>1. slip'.owner[o] = slip.owner[o] + missed /\ SlipTyped'
      BY <1>1, <1>3, <2>1, <2>2, SlipGrows
    <3>2. slip.owner[o] \in Nat /\ slip'.owner[o] \in Nat
      BY <1>3, <2>1, <3>1 DEF SlipTyped
    <3>3. QED
      BY <1>1, <2>2, <2>3, <3>1, <3>2, MissedNat
  <2>5. CASE requests'[t].reads.balance = chain'.balance[o]
    BY <1>4, <2>1, <2>4, <2>5
  <2>6. CASE requests[t].pc \in Deciding /\ requests'[t].reads.balance = requests[t].reads.balance
    <3>1. t \in StaleOwner(o) /\ t \in Stale("balance")
      BY <1>6, <2>1, <2>6 DEF StaleOwner, Stale, InPc, HasRead, Deciding
    <3>2. requests[t].reads.balance <= chain.balance[o] + slip.owner[o]
      BY <2>1, <3>1 DEF ReadsOwed
    <3>3. chain.balance[o] <= chain'.balance[o] + FeesOf(OfOwner(Receipts, o) \cap SettledNow)
      BY <1>2, <1>3, <2>1 DEF Charges
    <3>4. missed = FeesOf(OfOwner(Receipts, o) \cap SettledNow)
      BY <1>1, <2>2, <2>3, <3>1, MissedNat
    <3>5. requests[t].reads.balance \in Int
      BY <1>3 DEF Reads, Unread
    <3>6. QED
      BY <1>3, <1>4, <2>1, <2>4, <2>6, <3>2, <3>3, <3>4, <3>5
  <2>7. QED
    BY <1>1, <1>6, <2>1, <2>5, <2>6, StepReads
<1>7. ASSUME NEW t \in Requests, requests'[t].pc \in Deciding, requests'[t].reads.exposure # Unread
      PROVE  chain'.exposure[Provider(t)] <= requests'[t].reads.exposure + slip'.provider[Provider(t)]
  <2>1. PICK p : p = Provider(t)
    OBVIOUS
  <2>2. PICK missed : missed = Missed(OfProvider(Receipts, p), StaleProvider(p))
    OBVIOUS
  <2>3. OfProvider(Receipts, p) \in SUBSET Receipts
    BY DEF OfProvider
  <2>4. /\ slip'.provider[p] = slip.provider[p] + missed
        /\ slip.provider[p] \in Nat /\ slip'.provider[p] \in Nat /\ missed \in Nat
    <3>1. slip'.provider[p] = slip.provider[p] + missed /\ SlipTyped'
      BY <1>1, <1>3, <2>1, <2>2, SlipGrows
    <3>2. slip.provider[p] \in Nat /\ slip'.provider[p] \in Nat
      BY <1>3, <2>1, <3>1 DEF SlipTyped
    <3>3. QED
      BY <1>1, <2>2, <2>3, <3>1, <3>2, MissedNat
  <2>5. CASE requests'[t].reads.exposure = chain'.exposure[p]
    BY <1>4, <2>1, <2>4, <2>5
  <2>6. CASE requests[t].pc \in Deciding /\ requests'[t].reads.exposure = requests[t].reads.exposure
    <3>1. t \in StaleProvider(p) /\ t \in Stale("exposure")
      BY <1>7, <2>1, <2>6 DEF StaleProvider, Stale, InPc, HasRead, Deciding
    <3>2. chain.exposure[p] <= requests[t].reads.exposure + slip.provider[p]
      BY <2>1, <3>1 DEF ReadsOwed
    <3>3. chain'.exposure[p] <= chain.exposure[p] + FeesOf(OfProvider(Receipts, p) \cap SettledNow)
      BY <1>2, <1>3, <2>1 DEF Charges
    <3>4. missed = FeesOf(OfProvider(Receipts, p) \cap SettledNow)
      BY <1>1, <2>2, <2>3, <3>1, MissedNat
    <3>5. requests[t].reads.exposure \in Int
      BY <1>3 DEF Reads, Unread
    <3>6. QED
      BY <1>3, <1>4, <2>1, <2>4, <2>6, <3>2, <3>3, <3>4, <3>5
  <2>7. QED
    BY <1>1, <1>7, <2>1, <2>5, <2>6, StepReads
<1>8. \A value, t : t \in Stale(value)' <=> t \in Requests /\ requests'[t].pc \in Deciding /\ requests'[t].reads[value] # Unread
  BY DEF Stale, InPc, HasRead, Deciding
<1>9. QED
  BY <1>5, <1>6, <1>7, <1>8 DEF ReadsOwed, Key, Owner, Provider, Auth

-----------------------------------------------------------------------------
(* What an account may still have to pay *)

\* The requests that are put to an account, and the receipts it answers for.
Account(T, S) == T \in SUBSET Requests /\ S \in SUBSET Receipts /\ T = {t \in Requests : Auth(t) \in S}

LEMMA OpenNat ==
  ASSUME Shape, NEW T \in SUBSET Requests, NEW S \in SUBSET Receipts
  PROVE  Uncharged(S) \in Nat /\ FeesIn(T \cap InPc(Running)) \in Nat /\ Open(T, S) = FeesIn(T \cap InPc(Running)) + Uncharged(S)
<1>1. {r \in S \cap InState("queued") : chain.status[r] \in {"none", "lapsed"}} \in SUBSET Receipts
  OBVIOUS
<1>2. T \cap InPc(Running) \in SUBSET Requests
  OBVIOUS
<1>3. QED
  BY <1>1, <1>2, FeesNat, LoadFacts DEF Uncharged, Open, Running

\* The fee of a receipt that comes to the queue.
LEMMA UnchargedGrows ==
  ASSUME AmountsInv, NEW t \in Requests, queueReceipt(t), Fits(t, requests[t]), NEW S \in SUBSET Receipts
  PROVE  /\ Auth(t) \notin S => Uncharged(S)' = Uncharged(S)
         /\ Uncharged(S)' <= Uncharged(S) + Fee(t)
<1>1. PICK a, fee : a = Auth(t) /\ fee = requests[t].fee /\ add(a, fee)
  BY DEF queueReceipt
<1>2. /\ a \in Receipts /\ fee \in Nat /\ fee <= Fee(t) /\ Fee(t) \in Nat /\ chain' = chain
      /\ rows \in [Receipts -> AnyRow] /\ Shape
  BY <1>1, Accounts DEF Fits, Request, queueReceipt, chainVars, AmountsInv, QueueInv, Shape
<1>3. PICK before : before = {r \in S \cap InState("queued") : chain.status[r] \in {"none", "lapsed"}}
  OBVIOUS
<1>4. before \in SUBSET Receipts /\ Uncharged(S) = FeesOf(before) /\ FeesOf(before) \in Nat
  BY <1>2, <1>3, FeesNat DEF Uncharged
<1>5. CASE rows' = rows
  <2>1. Uncharged(S)' = Uncharged(S)
    BY <1>2, <1>5 DEF Uncharged, InState, FeesOf
  <2>2. QED
    BY <1>2, <1>4, <2>1
<1>6. CASE rows' # rows
  <2>1. PICK row : /\ rows' = [rows EXCEPT ![a] = row] /\ row.state = "queued" /\ row.fee = fee
                   /\ rows[a].state = "none"
    <3>1. PICK n : n = Cardinality(Receipts \ InState("none")) + 1
      OBVIOUS
    <3>2. rows[a].state = "none" /\ rows' = [rows EXCEPT ![a] = [state |-> "queued", attempts |-> 0, fee |-> fee, created |-> n]]
      BY <1>1, <1>6, <3>1 DEF add
    <3>3. PICK row : row = [state |-> "queued", attempts |-> 0, fee |-> fee, created |-> n]
      OBVIOUS
    <3>4. row.state = "queued" /\ row.fee = fee /\ rows' = [rows EXCEPT ![a] = row]
      BY <3>2, <3>3
    <3>5. QED
      BY <3>2, <3>4
  <2>2. \A r \in Receipts : rows'[r] = IF r = a THEN row ELSE rows[r]
    BY <1>2, <2>1
  <2>3. PICK after : after = {r \in S : rows'[r].state = "queued" /\ chain.status[r] \in {"none", "lapsed"}}
    OBVIOUS
  <2>4. after = {r \in S \cap InState("queued")' : chain'.status[r] \in {"none", "lapsed"}}
    BY <1>2, <2>3 DEF InState
  <2>5. Uncharged(S)' = FeesOf(after)'
    BY <2>4 DEF Uncharged
  <2>6. a \notin before /\ after \in SUBSET Receipts /\ before \subseteq after /\ after \subseteq before \cup {a}
    BY <1>3, <2>1, <2>2, <2>3 DEF InState
  <2>7. FeesOf(before)' = FeesOf(before)
    BY <1>4, <2>2, <2>6, FeesSame
  <2>8. Auth(t) \notin S => after = before
    BY <1>1, <2>3, <2>6
  <2>9. CASE a \notin after
    <3>1. after = before
      BY <2>6, <2>9
    <3>2. QED
      BY <1>2, <1>4, <2>5, <2>7, <3>1
  <2>10. CASE a \in after
    <3>1. after = before \cup {a}
      BY <2>6, <2>10
    <3>2. FeesOf(before \cup {a})' = FeesOf(before)' + fee
      <4> DEFINE g == [r \in Receipts |-> rows'[r].fee]
      <4>1. \A r \in before \cup {a} : g[r] \in Int
        BY <1>2, <1>4, <2>1, <2>2 DEF AnyRow
      <4>2. IsFiniteSet(before) /\ g[a] = fee
        BY <1>2, <1>4, <2>1, <2>2, QueueAssumption, FS_Subset
      <4>3. \A U : FeesOf(U)' = SumFunctionOnSet(g, U)
        BY DEF FeesOf
      <4> HIDE DEF g
      <4>4. SumFunctionOnSet(g, before \cup {a}) = SumFunctionOnSet(g, before) + g[a]
        BY <2>6, <4>1, <4>2, SumAdd
      <4>5. FeesOf(before \cup {a})' = SumFunctionOnSet(g, before \cup {a}) /\ FeesOf(before)' = SumFunctionOnSet(g, before)
        BY <4>3
      <4>6. QED
        BY <4>2, <4>4, <4>5
    <3>3. QED
      BY <1>2, <1>4, <2>5, <2>7, <2>8, <2>10, <2>6, <3>1, <3>2
  <2>11. QED
    BY <2>9, <2>10
<1>7. QED
  BY <1>5, <1>6

\* Of what may still be charged to an account nothing is lost, and without admission nothing is added.
LEMMA OpenFalls ==
  ASSUME CoreInv, Next, NEW T, NEW S, Account(T, S),
         \A t \in T : requests'[t].pc \in Running => requests[t].pc \in Running
  PROVE  Open(T, S)' + FeesOf(S \cap SettledNow) <= Open(T, S) + Missed(S, {})
<1>1. Shape /\ AmountsInv /\ T \in SUBSET Requests /\ S \in SUBSET Receipts
  BY DEF CoreInv, AmountsInv, QueueInv, Account
<1>2. PICK before, after : before = T \cap InPc(Running) /\ after = {t \in T : requests'[t].pc \in Running}
  OBVIOUS
<1>3. after \in SUBSET before /\ before \in SUBSET Requests /\ before \subseteq InPc(Running)
  BY <1>1, <1>2 DEF InPc
<1>4. PICK u, v : u = Uncharged(S) /\ v = Uncharged(S)'
  OBVIOUS
<1>5. Open(T, S) = FeesIn(before) + u /\ u \in Nat /\ FeesIn(before) \in Nat /\ FeesIn(after) \in Nat /\ FeesIn(after) <= FeesIn(before)
  BY <1>1, <1>2, <1>3, <1>4, OpenNat, LoadFacts
<1>6. Open(T, S)' = FeesIn(after) + v
  <2>1. after = T \cap InPc(Running)'
    BY <1>1, <1>2 DEF InPc
  <2>2. Open(T, S)' = FeesIn(T \cap InPc(Running)') + Uncharged(S)'
    BY DEF Open, Running, FeesIn, Fee, Key, Auth
  <2>3. QED
    BY <1>4, <2>1, <2>2
<1>7. v \in Nat
  <2>1. TypeOK'
    <3>1. AmountsInv'
      BY CoreQueue, AmountsStep DEF CoreInv
    <3>2. QED
      BY <3>1, AmountsTyped, PTL
  <2>2. \A r \in Receipts : rows'[r].fee \in Nat
    BY <2>1 DEF TypeOK, Row
  <2>3. PICK W : W = {r \in S \cap InState("queued")' : chain'.status[r] \in {"none", "lapsed"}}
    OBVIOUS
  <2>4. W \in SUBSET Receipts /\ v = FeesOf(W)' /\ IsFiniteSet(W)
    BY <1>1, <1>4, <2>3, QueueAssumption, FS_Subset DEF Uncharged
  <2>5. PICK g : g = [r \in Receipts |-> rows'[r].fee]
    OBVIOUS
  <2>6. v = SumFunctionOnSet(g, W) /\ \A r \in W : g[r] \in Nat
    BY <2>2, <2>4, <2>5 DEF FeesOf
  <2>7. QED
    BY <2>4, <2>6, SumNat
<1>8. Missed(S, {}) \in Nat /\ FeesOf(S \cap SettledNow) \in Nat
  BY <1>1, MissedNat, SettledFees
<1>9. CASE NoneNew
  <2>1. v + FeesOf(S \cap SettledNow) <= u + Missed(S, {})
    BY <1>1, <1>4, <1>9, UnchargedFalls
  <2>2. QED
    BY <1>5, <1>6, <1>7, <1>8, <2>1
<1>10. ASSUME NEW t \in Requests, queueReceipt(t)
       PROVE  Open(T, S)' + FeesOf(S \cap SettledNow) <= Open(T, S) + Missed(S, {})
  <2>1. SettledNow = {} /\ FeesOf(S \cap SettledNow) = 0
    <3>1. chain' = chain
      BY <1>10 DEF queueReceipt, chainVars
    <3>2. SettledNow = {} /\ S \cap SettledNow = {}
      BY <1>1, <3>1, ChainStays
    <3>3. QED
      BY <3>2, SumEmpty DEF FeesOf
  <2>2. Fits(t, requests[t]) /\ Fee(t) \in Nat
    BY Accounts DEF CoreInv, CoreTyped
  <2>3. (Auth(t) \notin S => v = u) /\ v <= u + Fee(t)
    BY <1>1, <1>4, <1>10, <2>2, UnchargedGrows
  <2>4. CASE Auth(t) \notin S
    BY <1>5, <1>6, <1>7, <1>8, <2>1, <2>3, <2>4
  <2>5. CASE Auth(t) \in S
    <3>1. t \in before /\ t \notin after
      <4>1. requests[t].pc = "answered" /\ requests'[t].pc = "queued"
        BY <1>10, <2>2 DEF queueReceipt, At, Goto, Fits, Request, CoreInv, CoreTyped
      <4>2. t \in T
        BY <2>5 DEF Account
      <4>3. QED
        BY <1>2, <4>1, <4>2 DEF InPc, Running
    <3>2. after \in SUBSET (before \ {t}) /\ before \ {t} \in SUBSET Requests
      BY <1>3, <3>1
    <3>3. FeesIn(before) = FeesIn(before \ {t}) + Fee(t) /\ FeesIn(after) <= FeesIn(before \ {t}) /\ FeesIn(before \ {t}) \in Nat
      BY <1>3, <3>1, <3>2, LoadFacts
    <3>4. QED
      BY <1>5, <1>6, <1>7, <1>8, <2>1, <2>2, <2>3, <3>3
  <2>6. QED
    BY <2>4, <2>5
<1>11. QED
  BY <1>9, <1>10, StepCharges

\* A request is admitted: it is counted with what is under way and what is queued, by what it had read.
LEMMA OpenAdmits ==
  ASSUME CoreInv, Next, NEW t \in Requests, admit(t), requests'[t].pc = "admitted",
         NEW T, NEW S, Account(T, S), t \in T, NEW owed, owed = FeesIn(T \cap InPc(Loading))
  PROVE  /\ chain' = chain /\ ~OverBudget(t) /\ ~OverDeposit(t) /\ ~OverExposure(t)
         /\ Open(T, S)' = Open(T, S) + Fee(t) /\ Open(T, S) \in Nat
         /\ Open(T, S) <= owed + unsettled_fees(S)
         /\ owed \in Nat /\ unsettled_fees(S) \in Nat
<1>1. Shape /\ AmountsInv /\ T \in SUBSET Requests /\ S \in SUBSET Receipts
  BY DEF CoreInv, AmountsInv, QueueInv, Account
<1>2. /\ requests[t].pc = "checked" /\ DOMAIN requests = Requests /\ requests[t] \in Request
      /\ rows' = rows /\ chain' = chain /\ \A u \in Requests \ {t} : requests'[u] = requests[u]
  <2>1. Turns(t)
    BY AdmitStep DEF CoreInv
  <2>2. QED
    BY <2>1 DEF admit, At, CoreInv, CoreTyped, Fits, Turns, qvars, queueVars, chainVars
<1>3. ~OverBudget(t) /\ ~OverDeposit(t) /\ ~OverExposure(t)
  <2>1. ~Goto(t, "raising")
    BY <1>2 DEF Goto, Request
  <2>2. QED
    BY <2>1 DEF admit
<1>4. PICK before, after : before = T \cap InPc(Running) /\ after = {u \in T : requests'[u].pc \in Running}
  OBVIOUS
<1>5. after = before \cup {t} /\ t \notin before /\ before \in SUBSET Requests
  BY <1>1, <1>2, <1>4 DEF InPc, Running
<1>6. FeesIn(after) = FeesIn(before) + Fee(t)
  BY <1>5, LoadFacts
<1>7. PICK u : u = Uncharged(S)
  OBVIOUS
<1>8. Uncharged(S)' = u
  BY <1>2, <1>7 DEF Uncharged, InState, FeesOf
<1>9. Open(T, S)' = FeesIn(after) + u
  <2>1. after = T \cap InPc(Running)'
    BY <1>1, <1>4 DEF InPc
  <2>2. Open(T, S)' = FeesIn(T \cap InPc(Running)') + Uncharged(S)'
    BY DEF Open, Running, FeesIn, Fee, Key, Auth
  <2>3. QED
    BY <1>8, <2>1, <2>2
<1>10. Open(T, S) = FeesIn(before) + u /\ u \in Nat /\ FeesIn(before) \in Nat /\ Fee(t) \in Nat
  BY <1>1, <1>4, <1>7, OpenNat, Accounts
<1>11. FeesIn(before) <= owed /\ owed \in Nat
  <2>1. before \in SUBSET (T \cap InPc(Loading)) /\ T \cap InPc(Loading) \in SUBSET Requests
    BY <1>1, <1>4 DEF InPc, Running, Loading, Admitted
  <2>2. QED
    BY <2>1, LoadFacts
<1>12. u <= unsettled_fees(S) /\ unsettled_fees(S) \in Nat
  <2>1. PICK W, V : W = {r \in S \cap InState("queued") : chain.status[r] \in {"none", "lapsed"}} /\ V = S \cap InState("queued")
    OBVIOUS
  <2>2. W \in SUBSET V /\ V \in SUBSET Receipts
    BY <1>1, <2>1
  <2>3. u = FeesOf(W) /\ unsettled_fees(S) = FeesOf(V)
    BY <1>7, <2>1 DEF Uncharged, unsettled_fees
  <2>4. QED
    BY <1>1, <2>2, <2>3, FeesPart, FeesNat
<1>13. QED
  BY <1>2, <1>3, <1>6, <1>9, <1>10, <1>11, <1>12

\* Who is new among those that run was admitted in this step.
LEMMA NewlyAdmitted ==
  ASSUME CoreInv, Next, NEW t \in Requests, requests'[t].pc \in Running, requests[t].pc \notin Running
  PROVE  admit(t) /\ requests'[t].pc = "admitted"
<1>1. ASSUME NEW u \in Requests, Serve(u) PROVE u = t
  BY <1>1, Served DEF Turns, CoreInv
<1>2. CASE requests'[t] \in {NewRequest, Done}
  BY <1>2, DoneFits DEF Running
<1>3. CASE Serve(t)
  BY <1>3, Comes DEF CoreInv
<1>4. QED
  BY <1>1, <1>2, <1>3, StepRequests

\* What the reads of a request that is being decided are.
LEMMA Checked ==
  ASSUME CoreInv, NEW t \in Requests, requests[t].pc = "checked"
  PROVE  /\ t \in Stale("spent") /\ t \in Stale("balance") /\ t \in Stale("exposure")
         /\ requests[t].reads.spent \in Nat /\ requests[t].reads.balance \in Nat
         /\ requests[t].reads.exposure \in Nat /\ requests[t].reads.limit \in Nat
<1>1. /\ requests[t].reads \in Reads
      /\ requests[t].reads.spent # Unread /\ requests[t].reads.balance # Unread
      /\ requests[t].reads.exposure # Unread /\ requests[t].reads.limit # Unread
  BY DEF CoreInv, CoreTyped, Fits, Request, NoReads
<1>2. QED
  BY <1>1 DEF Stale, InPc, HasRead, Reads

-----------------------------------------------------------------------------
(* Admission keeps to what there is *)

KeyFits(k) == Limit[k] # 0 => chain.spent[k] + OpenOfKey(k) <= Limit[k] + slip.key[k]
OwnerFits(o) == OpenOfOwner(o) <= chain.balance[o] + slip.owner[o]
ProviderFits(p) == chain.exposure[p] + OpenOfProvider(p) <= Cap[p] + slip.provider[p]

HInv == CoreInv /\ NothingRead /\ SlipTyped /\ ReadsOwed /\ OverAdmissionBounded

LEMMA AccountOf ==
  /\ \A k \in Keys : Account({t \in Requests : Key(t) = k}, OfKey(Receipts, k))
  /\ \A o \in Owners : Account({t \in Requests : Owner(t) = o}, OfOwner(Receipts, o))
  /\ \A p \in Providers : Account({t \in Requests : Provider(t) = p}, OfProvider(Receipts, p))
BY Accounts DEF Account, OfKey, OfOwner, OfProvider, Key, Owner, Provider

LEMMA OpenTyped ==
  ASSUME Shape, NEW T, NEW S, Account(T, S) PROVE Open(T, S) \in Nat
<1>1. T \in SUBSET Requests /\ S \in SUBSET Receipts
  BY DEF Account
<1>2. Uncharged(S) \in Nat /\ FeesIn(T \cap InPc(Running)) \in Nat /\ Open(T, S) = FeesIn(T \cap InPc(Running)) + Uncharged(S)
  BY <1>1, OpenNat
<1>3. QED
  BY <1>2

LEMMA OpenTypedNext ==
  ASSUME CoreInv', NEW T, NEW S, Account(T, S) PROVE Open(T, S)' \in Nat
<1>1. \A r \in Receipts : rows'[r].fee \in Nat
  <2>1. TypeOK'
    BY AmountsTyped, PTL DEF CoreInv
  <2>2. QED
    BY <2>1 DEF TypeOK, Row
<1>2. PICK W, T1 : /\ W = {r \in S \cap InState("queued")' : chain'.status[r] \in {"none", "lapsed"}}
                   /\ T1 = T \cap InPc(Running)'
  OBVIOUS
<1>3. W \in SUBSET Receipts /\ IsFiniteSet(W) /\ T1 \in SUBSET Requests
  BY <1>2, QueueAssumption, FS_Subset DEF Account
<1>4. PICK g : g = [r \in Receipts |-> rows'[r].fee]
  OBVIOUS
<1>5. SumFunctionOnSet(g, W) \in Nat /\ FeesIn(T1) \in Nat
  BY <1>1, <1>3, <1>4, SumNat, LoadFacts
<1>6. Open(T, S)' = FeesIn(T1) + SumFunctionOnSet(g, W)
  BY <1>2, <1>4 DEF Open, Uncharged, FeesOf, Running, FeesIn, Fee, Key, Auth
<1>7. QED
  BY <1>5, <1>6

LEMMA ChainTypedNext ==
  ASSUME CoreInv'
  PROVE  /\ \A k \in Keys : chain'.spent[k] \in Nat
         /\ \A o \in Owners : chain'.balance[o] \in Nat
         /\ \A p \in Providers : chain'.exposure[p] \in Nat
<1>1. TypeOK'
  BY AmountsTyped, PTL DEF CoreInv
<1>2. QED
  BY <1>1 DEF TypeOK

LEMMA KeyKeeps ==
  ASSUME HInv, CoreInv', HNext, NEW k \in Keys PROVE KeyFits(k)'
<1> SUFFICES ASSUME Limit[k] # 0 PROVE chain'.spent[k] + OpenOfKey(k)' <= Limit[k] + slip'.key[k]
  BY DEF KeyFits
<1>1. Shape /\ Next /\ AmountsInv /\ CoreInv /\ SlipTyped /\ ReadsOwed
  BY DEF HInv, CoreInv, AmountsInv, QueueInv, HNext
<1>2. PICK T, S : T = {t \in Requests : Key(t) = k} /\ S = OfKey(Receipts, k)
  OBVIOUS
<1>3. Account(T, S) /\ S \in SUBSET Receipts
  BY <1>2, AccountOf DEF Account
<1>4. OpenOfKey(k) = Open(T, S) /\ OpenOfKey(k)' = Open(T, S)'
  BY <1>2 DEF OpenOfKey, OfKey, Key, Auth
<1>5. Open(T, S) \in Nat /\ Open(T, S)' \in Nat
  BY <1>1, <1>3, OpenTyped, OpenTypedNext
<1>6. chain.spent[k] + Open(T, S) <= Limit[k] + slip.key[k]
  BY <1>4 DEF HInv, OverAdmissionBounded
<1>7. PICK missed, blind : missed = Missed(S, StaleKey(k)) /\ blind = FeesIn(BlindKey(k))
  OBVIOUS
<1>8. BlindKey(k) \in SUBSET Requests
  BY DEF BlindKey, AdmittedBlind, InPc
<1>9. slip'.key[k] = slip.key[k] + missed + blind /\ missed \in Nat /\ blind \in Nat /\ slip.key[k] \in Nat
  BY <1>1, <1>2, <1>3, <1>7, <1>8, SlipGrows, MissedNat, LoadFacts DEF SlipTyped
<1>10. Limit[k] \in Nat /\ chain.spent[k] \in Nat /\ chain'.spent[k] \in Nat
  BY <1>1, QueueAssumption, AccountsTyped, ChainTypedNext
<1>11. CASE \A t \in T : requests'[t].pc \in Running => requests[t].pc \in Running
  <2>1. Open(T, S)' + FeesOf(S \cap SettledNow) <= Open(T, S) + Missed(S, {})
    BY <1>1, <1>3, <1>11, OpenFalls
  <2>2. chain'.spent[k] <= chain.spent[k] + FeesOf(S \cap SettledNow)
    BY <1>1, <1>2, StepCharges DEF Charges
  <2>3. Missed(S, {}) <= missed /\ Missed(S, {}) \in Nat /\ FeesOf(S \cap SettledNow) \in Nat
    BY <1>1, <1>3, <1>7, MissedNat, SettledFees
  <2>4. QED
    BY <1>4, <1>5, <1>6, <1>9, <1>10, <2>1, <2>2, <2>3
<1>12. ASSUME NEW t \in T, requests'[t].pc \in Running, requests[t].pc \notin Running
       PROVE  chain'.spent[k] + OpenOfKey(k)' <= Limit[k] + slip'.key[k]
  <2>1. t \in Requests /\ Key(t) = k /\ admit(t) /\ requests'[t].pc = "admitted" /\ requests[t].pc = "checked"
    <3>1. t \in Requests /\ Key(t) = k
      BY <1>2
    <3>2. admit(t) /\ requests'[t].pc = "admitted"
      BY <1>1, <1>12, <3>1, NewlyAdmitted
    <3>3. QED
      BY <3>1, <3>2 DEF admit, At
  <2>2. PICK owed, queued : owed = FeesIn(T \cap InPc(Loading)) /\ queued = unsettled_fees(S)
    OBVIOUS
  <2>3. /\ chain' = chain /\ ~OverBudget(t) /\ Open(T, S)' = Open(T, S) + Fee(t)
        /\ Open(T, S) <= owed + queued /\ owed \in Nat /\ queued \in Nat /\ Fee(t) \in Nat
    BY <1>1, <1>3, <2>1, <2>2, OpenAdmits, Accounts
  <2>4. outstanding.key[k] = owed
    <3>1. {u \in InPc(Loading) : KeysOf[u] = k} = T \cap InPc(Loading)
      BY <1>2 DEF KeysOf, InPc
    <3>2. QED
      BY <1>1, <2>2, <3>1 DEF CoreInv, LoadOwed, Counts
  <2>5. t \in Stale("spent") /\ requests[t].reads.spent \in Nat
    BY <1>1, <2>1, Checked
  <2>6. CASE requests[t].reads.limit = Limit[k]
    <3>1. requests[t].reads.spent + owed + queued + Fee(t) <= Limit[k]
      BY <1>2, <1>10, <2>1, <2>2, <2>3, <2>4, <2>5, <2>6 DEF OverBudget
    <3>2. chain.spent[k] <= requests[t].reads.spent + slip.key[k]
      BY <1>1, <2>1, <2>5, <2>6 DEF ReadsOwed
    <3>3. QED
      BY <1>4, <1>5, <1>9, <1>10, <2>3, <2>5, <3>1, <3>2
  <2>7. CASE requests[t].reads.limit # Limit[k]
    <3>1. {t} \in SUBSET BlindKey(k) /\ {t} \in SUBSET Requests
      BY <2>1, <2>7 DEF BlindKey, AdmittedBlind, InPc
    <3>2. FeesIn({t}) = Fee(t)
      <4>1. FeesIn({t}) = FeesIn({t} \ {t}) + Fee(t) /\ {t} \ {t} = {}
        BY <3>1, LoadFacts
      <4>2. QED
        BY <2>3, <4>1, NoLoad
    <3>3. Fee(t) <= blind
      BY <1>7, <1>8, <3>1, <3>2, LoadFacts
    <3>4. QED
      BY <1>4, <1>5, <1>6, <1>9, <1>10, <2>3, <3>3
  <2>8. QED
    BY <2>6, <2>7
<1>13. QED
  BY <1>11, <1>12

LEMMA OwnerKeeps ==
  ASSUME HInv, CoreInv', HNext, NEW o \in Owners PROVE OwnerFits(o)'
<1> SUFFICES OpenOfOwner(o)' <= chain'.balance[o] + slip'.owner[o]
  BY DEF OwnerFits
<1>1. Shape /\ Next /\ AmountsInv /\ CoreInv /\ SlipTyped /\ ReadsOwed
  BY DEF HInv, CoreInv, AmountsInv, QueueInv, HNext
<1>2. PICK T, S : T = {t \in Requests : Owner(t) = o} /\ S = OfOwner(Receipts, o)
  OBVIOUS
<1>3. Account(T, S) /\ S \in SUBSET Receipts
  BY <1>2, AccountOf DEF Account
<1>4. OpenOfOwner(o) = Open(T, S) /\ OpenOfOwner(o)' = Open(T, S)'
  BY <1>2 DEF OpenOfOwner, OfOwner, Owner, Key, Auth
<1>5. Open(T, S) \in Nat /\ Open(T, S)' \in Nat
  BY <1>1, <1>3, OpenTyped, OpenTypedNext
<1>6. Open(T, S) <= chain.balance[o] + slip.owner[o]
  BY <1>4 DEF HInv, OverAdmissionBounded
<1>7. PICK missed : missed = Missed(S, StaleOwner(o))
  OBVIOUS
<1>8. slip'.owner[o] = slip.owner[o] + missed /\ missed \in Nat /\ slip.owner[o] \in Nat
  BY <1>1, <1>2, <1>3, <1>7, SlipGrows, MissedNat DEF SlipTyped
<1>9. chain.balance[o] \in Nat /\ chain'.balance[o] \in Nat
  BY <1>1, AccountsTyped, ChainTypedNext
<1>10. CASE \A t \in T : requests'[t].pc \in Running => requests[t].pc \in Running
  <2>1. Open(T, S)' + FeesOf(S \cap SettledNow) <= Open(T, S) + Missed(S, {})
    BY <1>1, <1>3, <1>10, OpenFalls
  <2>2. chain.balance[o] <= chain'.balance[o] + FeesOf(S \cap SettledNow)
    BY <1>1, <1>2, StepCharges DEF Charges
  <2>3. Missed(S, {}) <= missed /\ Missed(S, {}) \in Nat /\ FeesOf(S \cap SettledNow) \in Nat
    BY <1>1, <1>3, <1>7, MissedNat, SettledFees
  <2>4. QED
    BY <1>4, <1>5, <1>6, <1>8, <1>9, <2>1, <2>2, <2>3
<1>11. ASSUME NEW t \in T, requests'[t].pc \in Running, requests[t].pc \notin Running
       PROVE  OpenOfOwner(o)' <= chain'.balance[o] + slip'.owner[o]
  <2>1. t \in Requests /\ Owner(t) = o /\ admit(t) /\ requests'[t].pc = "admitted" /\ requests[t].pc = "checked"
    <3>1. t \in Requests /\ Owner(t) = o
      BY <1>2
    <3>2. admit(t) /\ requests'[t].pc = "admitted"
      BY <1>1, <1>11, <3>1, NewlyAdmitted
    <3>3. QED
      BY <3>1, <3>2 DEF admit, At
  <2>2. PICK owed, queued : owed = FeesIn(T \cap InPc(Loading)) /\ queued = unsettled_fees(S)
    OBVIOUS
  <2>3. /\ chain' = chain /\ ~OverDeposit(t) /\ Open(T, S)' = Open(T, S) + Fee(t)
        /\ Open(T, S) <= owed + queued /\ owed \in Nat /\ queued \in Nat /\ Fee(t) \in Nat
    BY <1>1, <1>3, <2>1, <2>2, OpenAdmits, Accounts
  <2>4. outstanding.owner[o] = owed
    <3>1. {u \in InPc(Loading) : OwnersOf[u] = o} = T \cap InPc(Loading)
      BY <1>2 DEF OwnersOf, InPc
    <3>2. QED
      BY <1>1, <2>2, <3>1 DEF CoreInv, LoadOwed, Counts
  <2>5. t \in Stale("balance") /\ requests[t].reads.balance \in Nat
    BY <1>1, <2>1, Checked
  <2>6. owed + queued + Fee(t) <= requests[t].reads.balance
    BY <1>2, <2>1, <2>2, <2>3, <2>4, <2>5 DEF OverDeposit
  <2>7. requests[t].reads.balance <= chain.balance[o] + slip.owner[o]
    BY <1>1, <2>1, <2>5 DEF ReadsOwed
  <2>8. QED
    BY <1>4, <1>5, <1>8, <1>9, <2>3, <2>5, <2>6, <2>7
<1>12. QED
  BY <1>10, <1>11

LEMMA ProviderKeeps ==
  ASSUME HInv, CoreInv', HNext, NEW p \in Providers PROVE ProviderFits(p)'
<1> SUFFICES chain'.exposure[p] + OpenOfProvider(p)' <= Cap[p] + slip'.provider[p]
  BY DEF ProviderFits
<1>1. Shape /\ Next /\ AmountsInv /\ CoreInv /\ SlipTyped /\ ReadsOwed
  BY DEF HInv, CoreInv, AmountsInv, QueueInv, HNext
<1>2. PICK T, S : T = {t \in Requests : Provider(t) = p} /\ S = OfProvider(Receipts, p)
  OBVIOUS
<1>3. Account(T, S) /\ S \in SUBSET Receipts
  BY <1>2, AccountOf DEF Account
<1>4. OpenOfProvider(p) = Open(T, S) /\ OpenOfProvider(p)' = Open(T, S)'
  BY <1>2 DEF OpenOfProvider, OfProvider, Provider, Auth
<1>5. Open(T, S) \in Nat /\ Open(T, S)' \in Nat
  BY <1>1, <1>3, OpenTyped, OpenTypedNext
<1>6. chain.exposure[p] + Open(T, S) <= Cap[p] + slip.provider[p]
  BY <1>4 DEF HInv, OverAdmissionBounded
<1>7. PICK missed : missed = Missed(S, StaleProvider(p))
  OBVIOUS
<1>8. slip'.provider[p] = slip.provider[p] + missed /\ missed \in Nat /\ slip.provider[p] \in Nat
  BY <1>1, <1>2, <1>3, <1>7, SlipGrows, MissedNat DEF SlipTyped
<1>9. chain.exposure[p] \in Nat /\ chain'.exposure[p] \in Nat /\ Cap[p] \in Nat
  BY <1>1, AccountsTyped, ChainTypedNext, QueueAssumption
<1>10. CASE \A t \in T : requests'[t].pc \in Running => requests[t].pc \in Running
  <2>1. Open(T, S)' + FeesOf(S \cap SettledNow) <= Open(T, S) + Missed(S, {})
    BY <1>1, <1>3, <1>10, OpenFalls
  <2>2. chain'.exposure[p] <= chain.exposure[p] + FeesOf(S \cap SettledNow)
    BY <1>1, <1>2, StepCharges DEF Charges
  <2>3. Missed(S, {}) <= missed /\ Missed(S, {}) \in Nat /\ FeesOf(S \cap SettledNow) \in Nat
    BY <1>1, <1>3, <1>7, MissedNat, SettledFees
  <2>4. QED
    BY <1>4, <1>5, <1>6, <1>8, <1>9, <2>1, <2>2, <2>3
<1>11. ASSUME NEW t \in T, requests'[t].pc \in Running, requests[t].pc \notin Running
       PROVE  chain'.exposure[p] + OpenOfProvider(p)' <= Cap[p] + slip'.provider[p]
  <2>1. t \in Requests /\ Provider(t) = p /\ admit(t) /\ requests'[t].pc = "admitted" /\ requests[t].pc = "checked"
    <3>1. t \in Requests /\ Provider(t) = p
      BY <1>2
    <3>2. admit(t) /\ requests'[t].pc = "admitted"
      BY <1>1, <1>11, <3>1, NewlyAdmitted
    <3>3. QED
      BY <3>1, <3>2 DEF admit, At
  <2>2. PICK owed, queued : owed = FeesIn(T \cap InPc(Loading)) /\ queued = unsettled_fees(S)
    OBVIOUS
  <2>3. /\ chain' = chain /\ ~OverExposure(t) /\ Open(T, S)' = Open(T, S) + Fee(t)
        /\ Open(T, S) <= owed + queued /\ owed \in Nat /\ queued \in Nat /\ Fee(t) \in Nat
    BY <1>1, <1>3, <2>1, <2>2, OpenAdmits, Accounts
  <2>4. outstanding.provider[p] = owed
    <3>1. {u \in InPc(Loading) : ProvidersOf[u] = p} = T \cap InPc(Loading)
      BY <1>2 DEF ProvidersOf, InPc
    <3>2. QED
      BY <1>1, <2>2, <3>1 DEF CoreInv, LoadOwed, Counts
  <2>5. t \in Stale("exposure") /\ requests[t].reads.exposure \in Nat
    BY <1>1, <2>1, Checked
  <2>6. requests[t].reads.exposure + owed + queued + Fee(t) <= Cap[p]
    BY <1>2, <1>9, <2>1, <2>2, <2>3, <2>4, <2>5 DEF OverExposure
  <2>7. chain.exposure[p] <= requests[t].reads.exposure + slip.provider[p]
    BY <1>1, <2>1, <2>5 DEF ReadsOwed
  <2>8. QED
    BY <1>4, <1>5, <1>8, <1>9, <2>3, <2>5, <2>6, <2>7
<1>12. QED
  BY <1>10, <1>11

LEMMA HInvNext == HInv /\ [HNext]_<<vars, slip>> => HInv'
<1>1. ASSUME HInv, HNext PROVE HInv'
  <2>1. CoreInv' /\ Next
    BY <1>1, CoreInvNext DEF HInv, HNext
  <2>2. NothingRead' /\ ReadsOwed'
    BY <1>1, <2>1, NothingReadNext, ReadsOwedNext DEF HInv
  <2>3. SlipTyped'
    BY <1>1, SlipGrows DEF HInv, CoreInv, AmountsInv, QueueInv
  <2>4. OverAdmissionBounded'
    <3>1. /\ \A k \in Keys : KeyFits(k)'
          /\ \A o \in Owners : OwnerFits(o)'
          /\ \A p \in Providers : ProviderFits(p)'
      BY <1>1, <2>1, KeyKeeps, OwnerKeeps, ProviderKeeps
    <3>2. QED
      BY <3>1 DEF KeyFits, OwnerFits, ProviderFits, OverAdmissionBounded
  <2>5. QED
    BY <2>1, <2>2, <2>3, <2>4 DEF HInv
<1>2. ASSUME HInv, UNCHANGED <<vars, slip>> PROVE HInv'
  <2>1. CoreInv'
    BY <1>2, CoreInvNext DEF HInv
  <2>2. requests' = requests /\ chain' = chain /\ rows' = rows /\ slip' = slip
    BY <1>2 DEF vars, qvars, queueVars, chainVars, coreVars
  <2>3. NothingRead' /\ SlipTyped' /\ ReadsOwed'
    BY <1>2, <2>2 DEF HInv, NothingRead, SlipTyped, ReadsOwed, Stale, InPc, HasRead, Key, Owner, Provider, Auth
  <2>4. OverAdmissionBounded'
    BY <1>2, <2>2 DEF HInv, OverAdmissionBounded, OpenOfKey, OpenOfOwner, OpenOfProvider, Open, Uncharged, InPc,
       InState, FeesOf, FeesIn, Fee, OfKey, OfOwner, OfProvider, Key, Owner, Provider, Auth
  <2>5. QED
    BY <2>1, <2>3, <2>4 DEF HInv
<1>3. QED
  BY <1>1, <1>2

LEMMA HInvInit == HInit => HInv
<1> SUFFICES ASSUME HInit PROVE HInv
  OBVIOUS
<1>1. Init /\ CoreInv
  BY CoreInvInit DEF HInit
<1>2. \A t \in Requests : requests[t] = NewRequest
  BY <1>1 DEF Init
<1>3. NothingRead
  BY <1>2 DEF NothingRead, NewRequest
<1>4. SlipTyped
  BY DEF HInit, Nothing, SlipTyped
<1>5. InPc(Running) = {} /\ \A value : Stale(value) = {}
  BY <1>2, DoneFits DEF InPc, Running, Stale
<1>6. ReadsOwed
  BY <1>5 DEF ReadsOwed
<1>7. ASSUME NEW T, NEW S PROVE Open(T, S) = 0
  <2>1. \A r \in Receipts : rows[r].state = "none"
    BY <1>1 DEF Init, QueueInit, NoRow
  <2>2. {r \in S \cap InState("queued") : chain.status[r] \in {"none", "lapsed"}} = {} /\ T \cap InPc(Running) = {}
    BY <1>5, <2>1 DEF InState
  <2>3. Uncharged(S) = 0 /\ FeesIn(T \cap InPc(Running)) = 0
    BY <2>2, SumEmpty, NoLoad DEF Uncharged, FeesOf
  <2>4. QED
    BY <2>3 DEF Open, Running
<1>8. OverAdmissionBounded
  <2>1. /\ \A k \in Keys : chain.spent[k] = 0 /\ slip.key[k] = 0 /\ Limit[k] \in Nat
        /\ \A o \in Owners : chain.balance[o] \in Nat /\ slip.owner[o] = 0
        /\ \A p \in Providers : chain.exposure[p] = 0 /\ slip.provider[p] = 0 /\ Cap[p] \in Nat
    BY <1>1, QueueAssumption DEF HInit, Nothing, Init, QueueInit
  <2>2. /\ \A k \in Keys : OpenOfKey(k) = 0
        /\ \A o \in Owners : OpenOfOwner(o) = 0
        /\ \A p \in Providers : OpenOfProvider(p) = 0
    BY <1>7 DEF OpenOfKey, OpenOfOwner, OpenOfProvider
  <2>3. QED
    BY <2>1, <2>2 DEF OverAdmissionBounded
<1>9. QED
  BY <1>1, <1>3, <1>4, <1>6, <1>8 DEF HInv

\* However many requests are decided at once, on whatever they read of the chain before others settled, what the
\* Relay takes on exceeds a budget, a deposit or an exposure cap only by what settled behind a request's back, by
\* what it had given up and was mined after all, and by what it admitted without knowing the budget.
THEOREM AdmissionKeeps == HSpec => []OverAdmissionBounded
<1>1. HInv => OverAdmissionBounded
  BY DEF HInv
<1>2. QED
  BY <1>1, HInvInit, HInvNext, PTL DEF HSpec
=============================================================================
