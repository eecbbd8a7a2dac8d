----------------------------- MODULE RelayQueue -----------------------------
(***************************************************************************)
(* The Relay's durable receipt queue and the threads that empty it         *)
(* (mycomesh/relay/core.py: SettlementQueue, settle_queued, release_due),  *)
(* with the settlement contract as these see it.                           *)
(*                                                                         *)
(* rows is the SQLite table: it survives a crash, the threads do not.  A   *)
(* transaction is a set of receipts that waits in the mempool; nodes take  *)
(* them in nonce order.  What may go wrong in an instance is the constant  *)
(* Faults:                                                                 *)
(*   "rpc"     the node does not answer: nothing is sent                   *)
(*   "timeout" a transaction that was sent is lost, late, or not seen      *)
(*   "gas"     the submitting account may be out of gas money              *)
(*   "revoke"  keys may be revoked                                         *)
(*   "lapse"   authorizations may pass their deadline unsettled            *)
(*   "refund"  receipts may be disputed and refunded                       *)
(*   "window"  the Relay's dispute window or clock is not the chain's      *)
(***************************************************************************)
EXTENDS Integers, FiniteSets, Sequences, SequencesExt

CONSTANTS
  Receipts,             \* settlement keys
  Owners, Providers, Keys,
  KeyOf, ProviderOf,    \* the payment key and the Provider of a receipt's authorization
  OwnerOf,              \* the owner of a key: a key never changes hands
  MaxFee,               \* the most an authorization may cost
  Deposit,              \* what each owner has deposited
  Limit,                \* each key's budget; 0 is none
  Cap,                  \* each Provider's exposure cap
  Settlers,             \* threads that call settle_queued: the settlement loop, the probe runner
  Releaser,             \* the settlement loop, which calls release_due as well
  MAX_BATCH_SIZE, MAX_SETTLE_ATTEMPTS,
  MaxCrashes,           \* bound: crashes of the Relay
  MaxMempool,           \* bound: transactions waiting at once
  Faults,
  NoOne

ASSUME QueueAssumption ==
  /\ OwnerOf \in [Keys -> Owners] /\ KeyOf \in [Receipts -> Keys] /\ ProviderOf \in [Receipts -> Providers]
  /\ MaxFee \in [Receipts -> Nat \ {0}]
  /\ Deposit \in [Owners -> Nat] /\ Limit \in [Keys -> Nat] /\ Cap \in [Providers -> Nat]
  /\ Releaser \in Settlers /\ NoOne \notin Settlers
  /\ IsFiniteSet(Receipts)
  /\ MAX_BATCH_SIZE \in Nat \ {0} /\ MAX_SETTLE_ATTEMPTS \in Nat \ {0} /\ MaxCrashes \in Nat /\ MaxMempool \in Nat
  /\ Faults \subseteq {"rpc", "timeout", "gas", "lapse", "refund", "window", "revoke", "client"}

VARIABLES
  rows,          \* the table: for every receipt its row
  settleLock,    \* the thread that holds _settle_lock
  workers,       \* per thread, where it is in settle_queued or release_due
  chain,         \* the contract: status of receipts, balances, active keys and what they spent, exposure
  mempool,       \* transactions sent and not mined
  funded,        \* the submitting account can pay gas
  crashes

queueVars == <<rows, settleLock, workers>>
chainVars == <<chain, mempool, funded>>
qvars == <<queueVars, chainVars, crashes>>

-----------------------------------------------------------------------------
(* The table *)

RowStates == {"none", "queued", "settled", "released", "rejected"}
\* created stands for created_at: rows are numbered as they come.
Row == [state: RowStates, attempts: 0 .. MAX_SETTLE_ATTEMPTS, fee: Nat, created: Nat]
NoRow == [state |-> "none", attempts |-> 0, fee |-> 0, created |-> 0]

InState(state) == {r \in Receipts : rows[r].state = state}
FeesOf(S) == SumFunctionOnSet([r \in Receipts |-> rows[r].fee], S)

\* Mutant: INSERT OR REPLACE.
add_replaces(r, fee) ==
  rows' = [rows EXCEPT ![r] = [state |-> "queued", attempts |-> 0, fee |-> fee,
                               created |-> Cardinality(Receipts \ InState("none")) + 1]]

\* INSERT OR IGNORE: a receipt the table has already keeps its row.
add(r, fee) ==
  rows' = IF rows[r].state # "none" THEN rows
          ELSE [rows EXCEPT ![r] = [state |-> "queued", attempts |-> 0, fee |-> fee,
                                    created |-> Cardinality(Receipts \ InState("none")) + 1]]

take(limit) ==
  {r \in InState("queued") :
     Cardinality({older \in InState("queued") : rows[older].created < rows[r].created}) < limit}

\* The next of a batch, in the order it was taken.
Oldest(table, S) == {r \in S : \A other \in S : table[r].created <= table[other].created}
AnyOf(S) == CHOOSE r \in S : TRUE
First(S) == AnyOf(Oldest(rows, S))

mark(r, state) == rows' = [rows EXCEPT ![r].state = state]

\* Mutant: one attempt too many.
fail_late(r) ==
  LET attempts == rows[r].attempts + 1 IN
  rows' = [rows EXCEPT ![r].attempts = attempts,
                       ![r].state = IF attempts > MAX_SETTLE_ATTEMPTS THEN "rejected" ELSE @]

\* Mutant: the attempt is not stored.
fail_uncounted(r) ==
  rows' = [rows EXCEPT ![r].state = IF rows[r].attempts + 1 >= MAX_SETTLE_ATTEMPTS THEN "rejected" ELSE @]

fail(r) ==
  LET attempts == rows[r].attempts + 1 IN
  rows' = [rows EXCEPT ![r].attempts = attempts,
                       ![r].state = IF attempts >= MAX_SETTLE_ATTEMPTS THEN "rejected" ELSE @]

-----------------------------------------------------------------------------
(* The chain, as far as the Relay can tell *)

ChainStates == {"none", "lapsed", "pending", "due", "disputed", "ended"}
Escrowed == {"pending", "due", "disputed"}

\* The receipts of S a key, an owner, a Provider answers for.
OfKey(S, key) == {r \in S : KeyOf[r] = key}
OfOwner(S, owner) == {r \in S : OwnerOf[KeyOf[r]] = owner}
OfProvider(S, provider) == {r \in S : ProviderOf[r] = provider}

\* settleBatch: every receipt can be paid for, or the transaction reverts.
Settles(S) ==
  /\ \A r \in S : chain.status[r] = "none" /\ KeyOf[r] \in chain.active
  /\ \A o \in Owners : FeesOf(OfOwner(S, o)) <= chain.balance[o]
  /\ \A k \in Keys : Limit[k] # 0 => chain.spent[k] + FeesOf(OfKey(S, k)) <= Limit[k]
  /\ \A p \in Providers : chain.exposure[p] + FeesOf(OfProvider(S, p)) <= Cap[p]

settleBatch(S) ==
  [chain EXCEPT
     !.status   = [r \in Receipts |-> IF r \in S THEN "pending" ELSE @[r]],
     !.balance  = [o \in Owners |-> @[o] - FeesOf(OfOwner(S, o))],
     !.spent    = [k \in Keys |-> IF Limit[k] = 0 THEN @[k] ELSE @[k] + FeesOf(OfKey(S, k))],
     !.exposure = [p \in Providers |-> @[p] + FeesOf(OfProvider(S, p))]]

\* releaseBatch: what is due is released, the rest skipped; with nothing due the transaction reverts.
Releases(S) == \E r \in S : chain.status[r] = "due"
Ended(S) ==
  [chain EXCEPT
     !.status   = [r \in Receipts |-> IF r \in S THEN "ended" ELSE @[r]],
     !.exposure = [p \in Providers |-> @[p] - FeesOf(OfProvider(S, p))]]
releaseBatch(S) == Ended({r \in S : chain.status[r] = "due"})

Succeeds(tx) == IF tx.kind = "settle" THEN Settles(tx.items) ELSE Releases(tx.items)
Effect(tx) == IF tx.kind = "settle" THEN settleBatch(tx.items) ELSE releaseBatch(tx.items)

\* The next transaction in nonce order is mined; its sender, if it still waits, may see how it went.
Mine ==
  /\ mempool # <<>>
  /\ LET tx == Head(mempool) IN
     /\ chain' = IF Succeeds(tx) THEN Effect(tx) ELSE chain
     /\ workers' = [w \in Settlers |-> IF w = tx.by THEN [workers[w] EXCEPT !.tx = IF Succeeds(tx) THEN "mined" ELSE "reverted"]
                                       ELSE workers[w]]
  /\ mempool' = Tail(mempool)
  /\ \/ UNCHANGED funded
     \/ "gas" \in Faults /\ funded' = FALSE
  /\ UNCHANGED <<rows, settleLock, crashes>>

\* Several threads send from one account: two that read the same nonce replace each other's transaction.
DropTransaction ==
  /\ "timeout" \in Faults /\ Len(mempool) > 1
  /\ \E i \in 1 .. Len(mempool) : mempool' = RemoveAt(mempool, i)
  /\ UNCHANGED <<queueVars, chain, funded, crashes>>

TopUp ==
  /\ ~funded /\ funded' = TRUE
  /\ UNCHANGED <<queueVars, chain, mempool, crashes>>

\* The authorization passes its deadline, or its key is revoked.
BecomesUnpayable(r) ==
  /\ \/ /\ "lapse" \in Faults /\ chain.status[r] = "none"
        /\ chain' = [chain EXCEPT !.status[r] = "lapsed"]
     \/ /\ "revoke" \in Faults /\ KeyOf[r] \in chain.active
        /\ chain' = [chain EXCEPT !.active = @ \ {KeyOf[r]}]
  /\ UNCHANGED <<queueVars, mempool, funded, crashes>>

WindowPasses(r) ==
  /\ chain.status[r] = "pending"
  /\ chain' = [chain EXCEPT !.status[r] = "due"]
  /\ UNCHANGED <<queueVars, mempool, funded, crashes>>

\* A keeper releases what is due; a dispute opens while the window is open, and ends either way.
OthersAct(r) ==
  /\ \/ chain.status[r] = "due" /\ chain' = Ended({r})
     \/ /\ "refund" \in Faults /\ chain.status[r] = "pending"
        /\ chain' = [chain EXCEPT !.status[r] = "disputed"]
     \/ chain.status[r] = "disputed" /\ chain' = Ended({r})
     \/ /\ chain.status[r] = "disputed"
        /\ chain' = [Ended({r}) EXCEPT
             !.balance[OwnerOf[KeyOf[r]]] = @ + rows[r].fee,
             !.spent[KeyOf[r]] = IF @ >= rows[r].fee THEN @ - rows[r].fee ELSE @]
  /\ UNCHANGED <<queueVars, mempool, funded, crashes>>

-----------------------------------------------------------------------------
(* settle_queued: the batch, and if it fails its receipts one by one *)

Idle == [pc |-> "idle", todo |-> {}, done |-> {}, tx |-> "none"]
WorkerPcs == {"idle", "batch", "batchSent", "one", "oneSent", "mark", "release", "releaseSent", "markReleased"}
TxStates == {"none", "waiting", "mined", "reverted"}

\* What the thread submits, and the transaction it makes.
Items(w) ==
  IF workers[w].pc \in {"one", "oneSent"} THEN {First(workers[w].todo)} ELSE workers[w].todo
Submission(w) ==
  [kind |-> IF workers[w].pc \in {"release", "releaseSent"} THEN "release" ELSE "settle", items |-> Items(w), by |-> w]

\* eth_estimateGas passes before anything is signed; then it is the account's turn to pay.
submit(w, pc) ==
  /\ Succeeds(Submission(w)) /\ funded /\ Len(mempool) < MaxMempool
  /\ mempool' = Append(mempool, Submission(w))
  /\ workers' = [workers EXCEPT ![w].pc = pc, ![w].tx = "waiting"]
unfunded(w) == Succeeds(Submission(w)) /\ ~funded
refused(w) == ~Succeeds(Submission(w)) \/ "rpc" \in Faults

\* wait_for_receipt raises: the transaction reverted, or stays out there unwatched.
raises(w) == workers[w].tx = "reverted" \/ "timeout" \in Faults
Unwatched(w) == [i \in DOMAIN mempool |-> IF mempool[i].by = w THEN [mempool[i] EXCEPT !.by = NoOne] ELSE mempool[i]]

TakeBatch(w) ==
  /\ workers[w] = Idle /\ settleLock = NoOne
  /\ take(MAX_BATCH_SIZE) # {}
  /\ settleLock' = w
  /\ workers' = [workers EXCEPT ![w].pc = "batch", ![w].todo = take(MAX_BATCH_SIZE)]
  /\ UNCHANGED <<rows, chainVars, crashes>>

SubmitBatch(w) ==
  /\ workers[w].pc = "batch"
  /\ \/ submit(w, "batchSent") /\ UNCHANGED settleLock
     \/ /\ unfunded(w)
        /\ workers' = [workers EXCEPT ![w] = Idle] /\ settleLock' = NoOne /\ UNCHANGED mempool
     \/ /\ refused(w)
        /\ workers' = [workers EXCEPT ![w].pc = "one"] /\ UNCHANGED <<settleLock, mempool>>
  /\ UNCHANGED <<rows, chain, funded, crashes>>

\* Mutant: the status of the transaction is not looked at.
AwaitBatch_anyStatus(w) ==
  /\ workers[w].pc = "batchSent"
  /\ workers[w].tx \in {"mined", "reverted"}
  /\ workers' = [workers EXCEPT ![w] = [Idle EXCEPT !.pc = "mark", !.done = workers[w].todo]]
  /\ UNCHANGED <<rows, settleLock, chainVars, crashes>>

AwaitBatch(w) ==
  /\ workers[w].pc = "batchSent"
  /\ \/ /\ workers[w].tx = "mined"
        /\ workers' = [workers EXCEPT ![w] = [Idle EXCEPT !.pc = "mark", !.done = workers[w].todo]]
        /\ UNCHANGED mempool
     \/ /\ raises(w)
        /\ workers' = [workers EXCEPT ![w].pc = "one", ![w].tx = "none"]
        /\ mempool' = Unwatched(w)
  /\ UNCHANGED <<rows, settleLock, chain, funded, crashes>>

Failed(w) ==
  /\ fail(First(workers[w].todo))
  /\ workers' = [workers EXCEPT ![w].pc = "one", ![w].tx = "none", ![w].todo = @ \ Items(w)]

SubmitOne(w) ==
  /\ workers[w].pc = "one" /\ workers[w].todo # {}
  /\ \/ submit(w, "oneSent") /\ UNCHANGED rows
     \/ /\ unfunded(w)
        /\ workers' = [workers EXCEPT ![w].pc = "mark", ![w].todo = {}] /\ UNCHANGED <<rows, mempool>>
     \/ refused(w) /\ Failed(w) /\ UNCHANGED mempool
  /\ UNCHANGED <<settleLock, chain, funded, crashes>>

AwaitOne(w) ==
  /\ workers[w].pc = "oneSent"
  /\ \/ /\ workers[w].tx = "mined"
        /\ workers' = [workers EXCEPT ![w].pc = "one", ![w].tx = "none", ![w].todo = @ \ Items(w),
                                      ![w].done = @ \cup Items(w)]
        /\ UNCHANGED <<rows, mempool>>
     \/ raises(w) /\ Failed(w) /\ mempool' = Unwatched(w)
  /\ UNCHANGED <<settleLock, chain, funded, crashes>>

AllTried(w) == workers[w].pc \in {"one", "mark"} /\ workers[w].todo = {}

MarkSettled(w) ==
  /\ AllTried(w) /\ workers[w].done # {}
  /\ mark(First(workers[w].done), "settled")
  /\ workers' = [workers EXCEPT ![w].done = @ \ {First(@)}]
  /\ UNCHANGED <<settleLock, chainVars, crashes>>

Return(w) ==
  /\ AllTried(w) /\ workers[w].done = {}
  /\ workers' = [workers EXCEPT ![w] = Idle]
  /\ settleLock' = NoOne
  /\ UNCHANGED <<rows, chainVars, crashes>>

-----------------------------------------------------------------------------
(* release_due, which takes no lock *)

\* Rows settled a dispute window ago.  The Relay's clock and window say when; without the fault "window" they
\* are never ahead of the chain's.
due_for_release == {r \in InState("settled") : chain.status[r] # "pending" \/ "window" \in Faults}

TakeDue(w) ==
  /\ w = Releaser /\ workers[w] = Idle
  /\ \E S \in (SUBSET due_for_release) \ {{}} :
       workers' = [workers EXCEPT ![w].pc = "release", ![w].todo = S]
  /\ UNCHANGED <<rows, settleLock, chainVars, crashes>>

\* Mutant: any error is taken for a revert.
SubmitRelease_anyError(w) ==
  /\ workers[w].pc = "release"
  /\ \/ submit(w, "releaseSent")
     \/ refused(w) /\ workers' = [workers EXCEPT ![w].pc = "markReleased"] /\ UNCHANGED mempool
  /\ UNCHANGED <<rows, settleLock, chain, funded, crashes>>

SubmitRelease(w) ==
  /\ workers[w].pc = "release"
  /\ \/ submit(w, "releaseSent")
     \/ /\ unfunded(w) \/ "rpc" \in Faults
        /\ workers' = [workers EXCEPT ![w] = Idle] /\ UNCHANGED mempool
     \/ /\ ~Succeeds(Submission(w))
        /\ workers' = [workers EXCEPT ![w].pc = "markReleased"] /\ UNCHANGED mempool
  /\ UNCHANGED <<rows, settleLock, chain, funded, crashes>>

AwaitRelease(w) ==
  /\ workers[w].pc = "releaseSent"
  /\ \/ /\ workers[w].tx \in {"mined", "reverted"}
        /\ workers' = [workers EXCEPT ![w].pc = "markReleased", ![w].tx = "none"] /\ UNCHANGED mempool
     \/ /\ "timeout" \in Faults
        /\ workers' = [workers EXCEPT ![w] = Idle] /\ mempool' = Unwatched(w)
  /\ UNCHANGED <<rows, settleLock, chain, funded, crashes>>

MarkReleased(w) ==
  /\ workers[w].pc = "markReleased"
  /\ \E r \in workers[w].todo :
       /\ mark(r, "released")
       /\ workers' = IF workers[w].todo = {r} THEN [workers EXCEPT ![w] = Idle]
                     ELSE [workers EXCEPT ![w].todo = @ \ {r}]
  /\ UNCHANGED <<settleLock, chainVars, crashes>>

-----------------------------------------------------------------------------
\* Threads end, their transactions do not.
StopWorkers ==
  /\ crashes < MaxCrashes /\ crashes' = crashes + 1
  /\ workers' = [w \in Settlers |-> Idle]
  /\ settleLock' = NoOne
  /\ mempool' = [i \in DOMAIN mempool |-> [mempool[i] EXCEPT !.by = NoOne]]
  /\ UNCHANGED <<rows, chain, funded>>

Work(w) ==
  \/ TakeBatch(w) \/ SubmitBatch(w) \/ AwaitBatch(w) \/ SubmitOne(w) \/ AwaitOne(w) \/ MarkSettled(w) \/ Return(w)
  \/ TakeDue(w) \/ SubmitRelease(w) \/ AwaitRelease(w) \/ MarkReleased(w)

Environment ==
  \/ Mine \/ DropTransaction \/ TopUp
  \/ \E r \in Receipts : BecomesUnpayable(r) \/ WindowPasses(r) \/ OthersAct(r)

QueueInit ==
  /\ rows = [r \in Receipts |-> NoRow]
  /\ settleLock = NoOne /\ workers = [w \in Settlers |-> Idle]
  /\ chain = [status |-> [r \in Receipts |-> "none"], balance |-> Deposit,
              spent |-> [k \in Keys |-> 0], active |-> Keys, exposure |-> [p \in Providers |-> 0]]
  /\ mempool = <<>> /\ funded = TRUE /\ crashes = 0
-----------------------------------------------------------------------------
\* The Relay believes a receipt settled only if it is: neither a batch that fell apart, nor a transaction that
\* vanished, nor a crash makes it drop a receipt that was never paid for.
SettledOnChain ==
  \A r \in Receipts : rows[r].state \in {"settled", "released"} => chain.status[r] \in Escrowed \cup {"ended"}

\* What the Relay stops releasing is decided on the chain: it waits in nobody's escrow.
ReleasedEnded ==
  \A r \in InState("released") : chain.status[r] \notin {"pending", "due"}

\* "Transient RPC failures and a chain clock behind issuedAt both clear on retry" (core.py:330): only a receipt
\* that does not settle is rejected for good.
RejectedUnsettled ==
  \A r \in InState("rejected") : chain.status[r] \in {"none", "lapsed"}
=============================================================================
