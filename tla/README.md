# MycoMesh in TLA+

MycoMesh is a network that sells AI inference. A Consumer signs a payment authorization, a Relay forwards the sealed
request to a Provider, the Provider answers with a signed receipt, and the Relay settles batches of receipts on a chain,
where fees wait in escrow for a dispute window before they are paid. This directory holds TLA+ models of the parts that
keep money and promises, the TLC runs that check them on small instances, and proofs for TLAPS.

Run `tlc -config X.cfg M` for a run `X` of module `M` (section 3), and `tlapm M.tla` for the proofs of
the modules named `...Proofs` and `SumTheorems`. Sources are quoted relative to `src/`, Python ones mostly by their file's
name (`mycomesh/...`).

## 1. The system

| Part | Code | State it keeps | Operations | Status |
|---|---|---|---|---|
| Settlement | `contracts/MycoSettlementV11.sol`, `MycoSettlementBaseV11.sol`, `MycoReleaseV11.sol` | deposits, claims, five totals, payment keys and budgets, withdrawals, signer bindings, receipts, exposure, holdback rings, probe commitments and voids, oracle reservations | deposit, keys, withdrawals, claim, bind/revoke signers, settleBatch, release(Batch), releaseHoldback, probes, oracle calls, setParams | modelled |
| Disputes | `contracts/MycoSettlementDisputesV11.sol` (same storage, by delegatecall) | disputes, reports, votes, capability cases, bonds | open, vote, time out, claim bond; open/vote/time out a capability case | modelled |
| Jury registry | `contracts/ProviderJuryRegistryV11.sol` 1-325 | jurors, candidate snapshots, drawn juries | register, requestJury, finalizeJury | partly: as those who use it see it |
| Inference oracle | `contracts/MycoInferenceOracleV11.sol` | on-chain requests | request, fulfill, deliver, expire | modelled |
| On-chain dispatcher | `relay/onchain.py` | a row per request | cycle: serve, deliver, expire | modelled |
| Relay core and queue | `relay/core.py` | sessions, in-flight and outstanding counters, SQLite queue | register, prepare, dispatch, settle_queued, release_due | partly: without the daily capacity check and three caches |
| Relay server, link | `relay/server.py`, `link.py`, `provider/link.py` | connections, pending jobs | connect, register, announce, job, delta, result, timeout, disconnect | partly: without HTTP routing, status pages and TLS |
| Provider worker | `provider/worker.py` | transport keys, replay store, execution journal, slots | handle_job, handle_onchain, handle_jury, handle_capability_jury | partly: without advertised prices and statistics |
| Envelopes, replay store | `secure_transport.py`, `identity.py`, `protocol.py`, `replay.py` | key files; remembered messages | sign, verify, seal, open, remember | partly: what they compare; cryptography is ideal |
| Consumer | `consumer.py`, `packages/mycomesh-cli/src/consumer.mjs` | the requests under way | prepare, read the stream, fail over, dispute | partly: one request; selection and tenants are left out |
| Dispute desk, jurors | `relay/disputes.py`, `jury.py`, the worker's half | cases, answers gathered | intake, draw, ask, submit, time out; judge | modelled |
| Keeper | `keeper.py` | duties, log cursor | scan, act | partly: without claim_rewards |
| Probes and hunting | `relay/probes.py`, `capability.py`, `hunting.py` | key batches, probes, grades, suspensions | commit, probe, grade, void, accuse, restart | partly: without task generation and publication |
| Backends | `provider/backends.py`, `plugins.py`, `codex.py`, `dialects.mjs` | a pool of app-servers | convert, stream, acquire, release, retire | partly: without options, HTTP errors, model lists |
| Chain access | `rpc.py`, `evm.py` | none | send a transaction, wait for its receipt | partly: as its callers use it |
| Network pricing | registry 326-464, `pricing.py` | tiers, multipliers, daily served work | setTier, setSignerTier, priceAndRecord | not modelled |
| Emission | `contracts/MycoEmissionV11.sol`, `MycoToken.sol` | blocks, points, pools, carry, bounties | record*, claim, poke | not modelled |
| Relay directory, upgradeable base, probe ledger, drand, test stablecoin | their contracts | list of Relays; admin; verdicts | announce; upgrade; record; verify | not modelled |
| Faucet, wallets, command lines, dashboards, discovery, deployment | `relay/faucet.py`, `__main__.py`, `scripts/`, ... | files | I/O | not modelled |

How they interact. Consumers call Relays over HTTP; Relays call Providers over a persistent link on which Providers dial
in; Relays, Consumers, Providers, hunters and keepers call the contracts by transactions and read them by JSON-RPC. The
settlement calls the registry (price, jury, hooks), which calls the emission. A contract may ask the oracle for an
answer; then Relays find the request on the chain, have a Provider answer it and bring the answer back. Contracts share
no state but the settlement's two halves, which share all of theirs. Off-chain parts share state between threads (the
Relay's core, the Provider's journal, replay store, slots and app-servers) and across restarts (SQLite queues, journals,
duties).

What is hard. On chain: twenty calls that each keep five running totals, in any order and by anybody; deadlines that
race; penalties, holdbacks and batches that move the same money; one refund path per way a receipt can end. Off chain:
chain reads taken before a lock and used after it, a crash between a transaction and its record, transactions mined
after everybody stopped waiting, a link that fails after the job was sent, retries of what was already done, two threads
with one job, keys that rotate under frames sealed to them, processes that end under the threads that use them.

What makes each part correct: the settlement owes exactly what it holds and ends each receipt once; a dispute is decided
by drawn, independent jurors or not at all, and ends although nobody acts but a keeper; a case lists all of a hunter's
probes, and the chain accepts it; a Relay never admits more than can be paid and loses no receipt; a request is executed
and paid at most once; what is streamed is what is receipted, and all of it; whatever a database says of the chain is
so. `PROJECT.json` lists the hazards behind these line by line.

## 2. Modules

| Module | What it is |
|---|---|
| `SettlementBase` | storage (as VARIABLES), types, and the shared rules of `MycoSettlementBaseV11.sol` |
| `Settlement`, `SettlementDisputes` | every call of `MycoSettlementV11.sol`, and of `MycoSettlementDisputesV11.sol` with the registry's jury as that contract sees it |
| `SettlementProxy` | both halves with the clock: Init, Next, Spec, the invariants, action properties, fairness |
| `Escrow` | what the settlement promises about money: a small abstract specification, which SettlementProxy implements |
| `SettlementHistory` | SettlementProxy with history variables, for properties about what the storage forgets |
| `SumTheorems` | theorems about sums over finite sets, for every function and set; nothing about this system |
| `SettlementProofs` | TLAPS proofs about SettlementProxy: types, solvency, finality, the ring, verdicts; and what each call does to the books, operator by operator |
| `EscrowProofs` | TLAPS proofs about the books, escrow, bonds, the refinement, cases and budgets, over SettlementProofs |
| `RelayQueue` | the Relay's durable receipt queue, the threads of `settle_queued` and `release_due`, and the chain, mempool and node as these see them |
| `RelaySettlement` | the queue by itself: receipts arrive, threads settle, the process crashes; its QueueSpec, fairness and properties |
| `RelayCore`, `RelayHistory` | sessions, admission, dispatch and release of a request, over the queue; and what settled unseen while a request was being admitted |
| `RelayProofs` | TLAPS proofs about RelaySettlement (what is settled, what is released, types and amounts), and about RelayCore and RelayHistory (places, load, admission, and that the core runs RelaySettlement's queue) |
| `SecureTransport` | signed documents, transport keys, sealed frames, the replay store: operators only |
| `Consumer`, `ProviderWorker`, `ProviderLink` | a request's two ends and the link between: each extends the one before, `ProviderLink` has the Spec and the properties |
| `LinkProofs` | TLAPS proofs about ProviderLink |
| `Capability`, `ProbeRunner` | grading and the rule that flags a Provider; the hunter |
| `HunterProofs` | TLAPS proofs about ProbeRunner: keys, the allowance, suspension |
| `CaseChain` | one dispute or capability case on the chain, as three programs read it |
| `Juror`, `DisputeDesk`, `Keeper`, `Court` | these programs, and all of them together |
| `CourtProofs` | TLAPS proofs about Court: what a desk closed, what the keeper has to do |
| `CodexPool` | the resident app-servers of the Codex backend and the threads that share them |
| `Conversation`, `AnswerStream`, `Backends` | what a request becomes on its way to a model; how an answer is put together; one after the other |
| `OnchainRequests` | the oracle, the Relays' dispatchers and the Providers that answer |
| `ProviderProofs` | TLAPS proofs about OnchainRequests (a Relay's rows), CodexPool (turns, processes, waiting threads) and Backends (answers, requests) |
| `MC*` | small instances for TLC |

### How the settlement's state and actions correspond to the code

A transaction is one action, with the function's name; its guards are the function's `require`s. All money is in one
record, `ledger`: the token balance of the contract and of every account, the mappings, and the five totals. Internal
functions (`_credit`, `_addHoldback`, `_payReleases`, ...) are operators from a ledger to a ledger and are composed in
the order of the calls. `Commit(l)` ends a transaction: an amount below zero is Solidity's underflow, so the call
reverts and the action is disabled.

- `settleBatch` is a sequence of `settle` steps: a batch changes nothing but what its receipts do one after another, and
  a batch that reverts does nothing. More interleavings than the code has, none fewer.
- `releaseBatch` is in small steps, because its two loops carry totals from one to the other: `releaseBatch` enters with
  the set of due keys, `markReleased` and `payReleasedItem` are the loop bodies, `finishBatch` the end. `batch.running`
  is the `entered` flag: no other call runs in between. The call reverts as a whole when a total would leave the
  Provider less than nothing, which is therefore a guard of the first step.
- A receipt is its authorization's id, key, signers, cap, issue time and price. That the network price is enforced is in
  `actualFee` (the smaller of price and cap), the deadline is any that the code accepts (`InWindow`).
- A vote batch is the set of its signers (`confirmDispute`, `dismissDispute`, `voteCapabilityCase`).
- A dispute has one report: the code makes one per dispute.
- The jury: `requestJury` fails or starts a draw when the case opens, `finalizeJury` draws any set of at least THRESHOLD
  jurors that are no parties, once the drand round is out, at any later time.
- `Tick` moves the clock; DAY ticks make a day.
- Left out: signatures and nonces (a vote or a receipt is one its signer made), hashes, events, gas limits of hooks (the
  hooks' failures are caught and change no state here), 256-bit widths, `initialize` of the dispute module.
- The admin's `setParams` may come at any time with any of the run's parameter sets; those ValidParams refuses change
  nothing.

### How the Relay's state and actions correspond to the code

`rows` is the SQLite table, one row per settlement key; `sessions`, `providers`, `suspended`, `outstanding` and
`knownKeys` are the fields of `RelayCore`; `settleLock` is `_settle_lock`. `requests` holds the local variables of the
threads that serve requests, `workers` those of the threads that settle. A crash empties all of these but `rows`, and
leaves the chain and what was sent to it.

An action is what a thread does between two points where another may run: one critical section of `_lock`, one SQL
statement, one call of the node. So admission is `find`, `reserve`, four reads in any order (`readBalance` before
`useGrant` only for a key whose owner is known), `checkBudget` outside the lock, `recount` under `_settle_lock`, and
`admit`; dispatch is `send`, `answer`, `queueReceipt`, `release`, `giveBack`, which is also the order in which the fee
moves from `outstanding` to the queue. `settle_queued` is `TakeBatch` (lock and `take`), `SubmitBatch`, `AwaitBatch`,
and after a failure `SubmitOne` and `AwaitOne` per receipt, then `MarkSettled` row by row and `Return`; `release_due` is
`TakeDue`, `SubmitRelease`, `AwaitRelease`, `MarkReleased`, without the lock.

`send_transaction` estimates gas first, so what would revert now is refused before it is sent (`refused`); a transaction
that was accepted waits in `mempool` and may still revert, get lost (`DropTransaction`: two threads of one account read
the same nonce) or be mined after `wait_for_receipt` gave up (`Unwatched`). `Faults` selects per run what may go wrong.
The chain is the part of the settlement the Relay touches: `Settles` and `settleBatch` are `_settle` and `_escrow` with
statuses, deposit, budget and exposure; `OthersAct` is what keepers, Consumers and jurors do to a receipt.

Left out: `pricing` is None (no daily capacity check, no tier cache); `requires_delivery` and its cache; the minimum and
maximum of a grant, which only refuse; a key changing its owner (the contract forbids it, so `_key_owner` only decides
whether the balance is read early); more than one Relay for a payment key; signatures and the wording of errors. An
answer that fails verification and a failed send are one case: both release and queue nothing.

### How the link's state and actions correspond to the code

`ProviderLink` follows one request from the Consumer's call to its end. `sessions` are connections, whose two ends close
on their own (`provider`, `relay`); `registered` is `core.providers[signer]`; `calls` are the Relay's threads with their
entries in `_pending`; `wire` is what the Provider sent and the Relay has not read; `jobs` are the Provider's threads;
`keys`, `replay`, `journal` and `slots` are the worker's fields of these names. A job's actions lie between two uses of
what threads share: `handle_job` (verify), `opened` (find the key, open the frame, remember it), `admit` (a slot),
`begin` (the journal's row), `flush` (a sealed delta), `complete` or `fail`. A restart empties everything of the
Provider but `replay` and `journal`. Every host could have a clock of its own; `ClockAhead` is the Consumer's lead.

`SecureTransport` keeps what the code compares (owners, purposes, key ids, times) and makes the rest ideal: who does not
have a key neither signs nor opens. Canonical encodings, ciphers and key files are left out. A call that fails admission
is RelayCore's matter, so here every call that finds a session is admitted. The failover rule is `consumer.mjs`'s.

### How the hunter's state and actions correspond to the code

One thread runs the whole loop (`probe_loop`); `pc` says where in it. `batches`, `probes`, `basic` and `capability` are
the SQLite tables, `suspended` is the core's set. A probe's record holds the hunter's row and, after it, the chain's
half of the same receipt (`chain`, `chain_day`), because both have the settlement key for key. Numbers that are rates in
the code are per hundred here, and `flagged` multiplies the Wilson bound out, so that it is exact up to rounding in
integers. An answer is the values it states; parsing them out of prose is left out, which of them decides is not.

### How the court's state and actions correspond to the code

`CaseChain` is one case, of either kind, with what a reader may call (`jury.CaseReader`) and the transactions the three
programs send. `DisputeDesk` splits a cycle where it reads the chain and where it sends: `advance` decides `doing`, and
`draw`, `time_out`, `ask` and `vote` do it, while the chain moves. Rows survive a restart, `answers` do not. A juror
judges a dispute while the desk waits and a capability case in a thread of its own. The keeper follows `log`, block by
block and behind the chain; `scan`, `act`, `consider` and `perform` are its steps, `duties` its table, and `Failed` a
call that got no answer, whether or not it was mined.

An endpoint may answer from a node a block behind (`keeper.py:73-74`, `onchain.py:56`). So a read returns any of `Views`:
what the chain says, or, where nodes lag (`lag`), what it said since the last tick (`past`), and every call has a node of
its own. `advance` reads a dispute's status, date and jury in three calls and a capability case's status and date in
one; after its own timeout transaction a desk reads a dispute's status again (`close`), and the row takes what that read
says, whatever it is (`disputes.py:222-230`). `consider` reads twice as well, and intake once. A tick is many blocks, so no
node lags over one, and the dates a transaction sets are a tick ahead at least (CaseAssumption: a dispute window and the
delay of a draw are no shorter than a node's lag). What an event says is never stale: `scan` stops where its node does
(73-77), and `act` then does what is known.

### How the Provider's backends and the dispatcher correspond to the code

In `CodexPool` an action is what a thread does under a lock (`_pool_lock`, or a server's). `servers` lists every process
ever started with `active` and `served`, whether it is `up`, whether its wrapper is, and where its reader thread is
(`route`: it reads, it has seen the end, it has told those it knows of); `holder` is a thread that is about to add it to
the pool or to close it. A caller's queues hold one reply and one end. The reader ends with the output, or at garbage or
a line that is too long (`codex.py:215-217`, 274), while the process runs on: such a dead server is what `_acquire`
sweeps and the last turn's `_release` closes.

In `Conversation` a part of a message is its kind and its place; each conversion is a function from messages to turns,
written from the one it translates. `AnswerStream` has the model say blocks in pieces, and per protocol what the backend
takes from which event. `fails` is a server that is not reached, refuses, or breaks the connection: an error for
everybody. `reports_error` is an event of the stream that says so: the readers of chat and Gemini streams do not know
one and answer with what they have (`backends.py:221-234`, `plugins.py:354-358`), all others raise. `retries` is Codex's
error with willRetry (`codex.py:570-572`): nothing changes but that what was not finished is given up, and may come again
as new. `cut` is a stream that ends early; `Announced` says which protocols have a last event and then give no answer.
An answer that is not streamed is whole or none. `Backends` sends a request and then forgets it, since only the answer
matters. An image or file given by its URL alone is a part like any other here, except that only an image given by its
data must arrive as one (Gemini names a URL in the text, `plugins.py:379-381`).

In `OnchainRequests` each Relay has one dispatcher thread (`threads`), a database (`rows`) and its transactions by nonce
(`sent`), which are mined one by one, by then valid or not. A Provider's journal says for which Relay a request was
executed. `cycle`, `serve`, `deliver`, `send`, `wait` and `succeeded` are the dispatcher between two calls;
`handle_onchain`, `execute` and `answer` the worker; `unanswered` is a Provider that is full, fails or cannot be
reached.

## 3. Runs

| Run | Module | Bounds | Question |
|---|---|---|---|
| MCDispute | MCSettlementHistory | 2 receipts, 3 jurors (symmetric), quorum 2, clock 5, fees of 10, bond 2, budgets none and 14, withdrawals | do disputes keep the contract solvent, bonds returned once, verdicts backed by drawn jurors; does every receipt end once; is Escrow implemented; does a budget equal the unrefunded fees charged to it |
| MCProbes | MCSettlement | 1 hunter, 1 key, 2 receipts, cases of 1 or 2 days, one juror, clock 5, ring of 3 slots; revocations, claims, batches of 2, changing parameters | are escrow and exposure the fees of open receipts; are cases complete; is every fee payable |
| MCOracle | MCSettlement | FairSpec; no payment keys, a reservation of 10, receipts of 7, withdrawals, a Provider signer revoked, disputer named or not, ring of 2 slots, one parameter set longer than the ring, clock 4 | do totals match accounts and slots wait their time; does every fee leave escrow |
| MCQueue | MCRelay | FairSpec; 2 receipts of fee 1, 2 settling threads, batches of 1, 2 attempts, 2 transactions waiting, 1 crash; all faults but revocation and a wrong window | is what the queue believes true on the chain, do rows only advance, is every row decided |
| MCAdmission | MCRelayHistory | 2 requests (symmetric), budget, deposit and cap of 1, 2 sessions of capacity 1, 1 crash, failing reads | are loads exact; by how much can admission exceed what is there |
| MCLink | MCLink | 2 calls of one authorization (symmetric), 2 sessions, 1 slot, 1 delta, 1 restart of the Provider, clock 1, frames that live 1 and keys 3; breaking links and timeouts | is a request executed once and answered by one receipt; are slots, registrations and keys kept |
| MCHunt | MCHunt | 1 Provider, batches of 2 keys, 3 probes, 2 free voids a day of which another hunter takes 1, 2 days, 1 crash, calls without an answer; answers right, wrong, unrelated and unreadable | are keys retired in time, is the allowance kept, does a bad Provider stay suspended |
| MCCourt | MCCourt | FairSpec; 2 jurors, both needed, 1 desk, clock 4, 1 restart, 1 lost call, both kinds of case, nodes that lag or not, the committed evidence sound or not | is the outcome a desk notes the chain's; does the keeper miss no duty; does every case end that somebody holds |
| MCProvider | MCProvider | see below | are rows true; is no app-server lost or closed under a turn, and nobody left waiting; is the request whole, the answer whole, and streamed as it is |
| MCQueueTimeout (violation) | MCRelay | 2 receipts, 2 attempts, late transactions | "Transient RPC failures ... clear on retry" |
| MCFailover (violation) | MCLink | as MCLink, clock 0, one session, no crash, timeouts only | "fail over only while the request provably was not dispatched" |
| MCHuntCase (violation) | MCHunt | as MCHunt, 4 days, no faults | "the most recent closed days, whole days only": does the chain take every case |

MCProvider checks three parts that share no state: the on-chain requests (1 request, 2 Relays, 2 Providers, time to live
0, grace 1, clock 2, 1 transaction of each Relay waiting, 1 crash, faults of link, backend and timeout), the app-servers
(2 callers, pool of 2, 2 turns per process at once and 2 in all, 3 processes, one fault of any kind: a process or its
wrapper ends, writes garbage, does not start, or takes too long), and the backends (conversations of up to 5 messages
with two call ids and two tool names; answers of up to 3 blocks of up to 3 pieces, over six protocols, with streams that
are cut, report an error, are retried, lose deltas or interleave messages). A behaviour moves one of
them only: interleaving them would multiply the states and show nothing. A longer life in which an on-chain request is
answered, waits for its window and is delivered fits in, since settling takes no time of the clock; the same part was
also checked alone with time to live 1 and two transactions waiting per Relay (10.6 million states), with the same
result.

Why the bounds are enough. Two receipts make every race for a receipt (release against dispute, void, timeout) and every
transfer from one to the other possible. The clock runs long enough for settlement, window, arbitration and a day after
it; the ring is short enough to wrap. Fees are chosen on both sides of the rounding of shares. Every run stops at
MaxTime, and calls run out of money or ids: hence CHECK_DEADLOCK FALSE. Juries are bounded by the number of jurors, so a
quorum of two of three is the smallest in which an undrawn juror could complete one.

For the Relay, two threads are all the code has (the settlement loop and the probe runner), and two requests with room
for one make every overtaking at the limit possible. A batch of one puts a bad receipt in front of a good one. A Relay
that has answered its requests and emptied its queue stops: CHECK_DEADLOCK FALSE again.

For the link, two calls of one authorization are the replay, the retry and the race for the journal's row at once; two
sessions are an old link and a new one, which is all `register` ever compares; with a clock of one and frames that live
one, a frame expires while its job runs, and the replay store forgets it; a key that is rotated the moment it is used is
the worst rotation can do. In the court, a quorum of two lets one permit be there and the other not, and one restart
with one lost call is where the keeper's two tables part. Three probes on three days are the least of which a case can
leave out one. For app-servers, a second caller is the one whose turn a first one's failure could take down, and a third
process the spare that joins late.

What they show. Every passing property was also checked to fail under a plausible bug in the code (the mutants in
`PROJECT.json`). Three runs show where code and documentation differ: section 7.

OverAdmissionBounded is what remains of "never dispatch work it could not pay for" (`core.py:267`). Its slack `slip` is
there for three reasons, each of which the model reaches: a settlement that is mined and marked between a read of the
chain and the decision is counted in neither; a receipt that was rejected and settles after all is in no queue; and a
budget whose read fails is taken for none (`core.py:214`). There is no other: with `slip` at zero nothing is admitted in
excess. InFlightExact is about a session. A Provider that registers again, as it does at every rotation of its transport
key (`server.py:218-219`), gets a session with `in_flight` 0, and its jobs under way are counted by the old one only.
ReleasedEnded needs a dispute window no shorter than the contract's: with a shorter one (`--dispute-window` is an option
of the Relay, not read from the chain) a batch that is not due yet reverts, and is marked released (`core.py:345-349`).
AnswerWhole says of an answer whose stream was cut, or reported an error the backend does not know, that what there is
is right: each text once and in order, each call as made. That the end is there it says of Responses, exec and Codex answers,
and of all that are not streamed (of Codex unless it stopped the turn itself, to hand a call back). Two things it does not say: a
Codex message that is given up and said again is in the answer twice, its beginning and the whole (section 7); and texts
of Codex messages that interleave, or whose lost deltas nothing brought again, may be out of order or short.

ClosedTrue excepts, where nodes lag, rows that are closed with the status of a case that has not ended: the code does
that, and BondReturned fails by it (section 7). What is left is that no row notes an outcome the chain does not have.
CaseEnds holds of a dispute whatever its desks do, since the keeper ends it; of a capability case while a desk holds it.
Permits that go stale (`disputes.py:270`) are covered by CaseEnds only in that the case then ends by its timeout.

## 4. Fairness

The settlement's FairSpec asks that the clock advances, that a running batch ends (it is one transaction), and that
`release` and `resolveTimedOutDispute` are eventually executed once they stay enabled. The last is what `keeper.py` is
for: it follows the contract's logs and, for every receipt and dispute, makes these calls after the deadline, retrying
every cycle, and anybody may. No fairness is assumed of Consumers, Providers, jurors, hunters, the admin or the jury
draw: FeesEnd holds whatever they do. It is limited to receipts whose last deadline lies before MaxTime, the bound on
the clock.

The court's FairSpec takes a closer look at the same promise: weak fairness of the clock, of nodes catching up, of the keeper's steps (its
loop runs every minute and catches what is raised), and of a desk's steps in a capability case, whose timeout only a
desk sends. Nothing is asked of the jurors, of whoever pays for evidence, or of a dispute's desks. What bounds the
failures is MaxLosses: a chain that never answers is no promise of the code's. CaseEnds then says that every case ends,
by a verdict, a release or a timeout.

The queue's FairSpec asks that a thread goes on with what it began, that transactions are mined in the end, that
somebody funds the account, and that the settlement loop, which comes back every five seconds (`server.py:172`), gets
`_settle_lock` if it is free again and again (strong fairness of TakeBatch: the probe runner holds the lock for one call
at a time). Nothing is assumed of the faults: the node may fail every time. QueueDrains then follows from the bound on
attempts.

The link, the hunter, the pool and the dispatcher are checked for safety only. Their code promises no progress that does
not depend on somebody else: a Provider may stay away, a Relay give up, an on-chain request expire.

## 5. Proofs

`SettlementProofs` proves, for every value of the constants that satisfies the modules' ASSUMEs:

- `TypeCorrect`: `Spec => []TypeOK`. TypeOK is inductive by itself because it holds two facts beyond types: PartiesKnown
  (a settled receipt names known parties, so the ledger's maps are defined on them) and BatchKnown (outside a batch
  `batch` is Idle; the keys of a running batch are pending). That no amount is below zero is Commit's doing in each
  action; what the proof adds is that each operator yields a well-formed ledger where its arithmetic succeeds.
- `AlwaysSolvent`: `Spec => []Solvent`, from the invariant Solvency == TypeOK /\ Solvent. The types are needed to do
  arithmetic with the fields; per operator a lemma says by how much it moves liabilities and token balance, and per
  action these cancel.
- `ReceiptsFinal`: `Spec => SettledOnce`, an action property, from TypeOK (BatchKnown makes markReleased start from
  Pending).
- `ReusedSlots`: `Spec => []ReusedSlotMatured`, from RingInv == TypeOK /\ ValidParams(settings) /\ Ringed. Ringed says
  that a slot holds money of a day that belongs there and has come; two days in one slot are then HOLDBACK_BUCKETS apart,
  and the parameters in force, valid always (`ParamsValid`), hold nothing back so long.
- `VerdictsBacked`: `Spec => []VerdictBacked`, from VerdictInv, which says of every receipt (Backed) that votes come from
  drawn jurors who are no party, that there are none before the jury is drawn or while the receipt is undecided, and that
  a verdict has its quorum and no vote against it. Votes of a receipt and of a case are apart because their keys are
  (KeyOrCase).

Money. The contract's totals stand for sums over accounts, slots, receipts and cases. `SumTheorems` proves what a sum over
a finite set does when the set or one entry changes, when it is split, and when entries are grouped (a batch's totals by
Provider, Consumer and Relay are the sum of its receipts by any of the three). It rests on well-founded induction over
the subsets of a finite set, with a set of good subsets in place of a predicate. The last part of `SettlementProofs` says of every operator on
ledgers by how much it moves each total and each sum. From the assumption that accounts, keys, oracles and request ids
are finite sets (BaseAssumption), `EscrowProofs` proves:

- `BooksInOrder`: `Spec => []MoneyInv`, and from it `AccountsAgree` (AccountsMatchTotals), `EscrowAgrees`
  (EscrowMatchesRecords) and `BondsAgree` (BondsMatchCases). None of the three is inductive alone. In the middle of a
  batch the escrow still holds what is marked already, so EscrowHeld counts what the batch's items carry and what it has
  yet to share out; the calls that end a dispute or a case need a reporter and a jury request to rely
  on (ReporterKnown, CasesRequested).
- `MoneyIsEscrowed`: `Spec => EscrowImplemented`, the refinement: initial states map to initial states, and each action to
  a step of Escrow or a stutter. A mark inside releaseBatch is Escrow's payment of that receipt: under the refinement
  mapping, what the batch has in hand is earned.
- `FeesNeverStuck`: `Spec => []FeesPayable`. From MoneyInv and RingInv: exposure, escrow and each slot hold at least what
  release, refund and penalties take, and two shares of a fee, rounded down, fit in it (PortionsFit).
- `CasesWhole`: `Spec => []CasesComplete`, from CaseInv. VoidsCounted says that the counter hunterProbeVoids is the number
  of such voids for every hunter, Provider and day, VoidsKnown that no void is of a day to come; then a list whose length
  is the sum of a closed range's counters, with no key twice, is the set of all of them (AllListed). It stays so because
  the accused days are over (CasesClosed), and no probe is in two cases because the first one marks it (CasesApart).
- `BudgetsTrackFees`: `HSpec => []BudgetTracksFees`, from HistoryInv: spent is the sum over the key's receipts of what
  each is owed (Owed), once every one of them was charged. It needs HistoryAssumption, that no oracle's address is a
  payment key: a key signs, a contract does not.

`RelayProofs` proves four properties of the receipt queue (the QueueSpec of RelaySettlement), for any number of receipts,
threads, attempts, waiting transactions and crashes, and any Faults:

- `SettledIsOnChain`: `QueueSpec => []SettledOnChain`, and `RowsOnlyAdvance`: `QueueSpec => RowsAdvance`. Both follow from
  QueueInv, which says what a thread may rely on while others run: whoever is in settle_queued has the lock, and what it
  took is still queued (Settling); only the releasing thread is in release_due, and what it took is still settled
  (Releasing); and a transaction somebody waits for is the one it submitted, and its only one (Watched), so "mined"
  speaks of the receipts it will mark. The last is what a crash, a timeout or a lost transaction could break: afterwards
  nobody waits. OthersKept and NobodyMoves say once what a step leaves to the other threads; there is a lemma for every
  action.
- `ReleasedIsEnded`: without the fault "window", `QueueSpec => []ReleasedEnded`, from ReleaseInv, which adds that what a
  thread has in hand to release is past its window and, once its transaction is over or would be refused, decided
  (Ripe).

- `QueueTyped`: `QueueSpec => []TypeOK`. The three above need no sums, for which rows a batch marks does not depend on
  amounts; that deposit, exposure and budgets stay naturals does. AmountsInv adds to QueueInv that exposure is the sum of
  the fees in escrow (Exact), that whatever is on the chain or on its way there has its row with the same fee (Recorded),
  and that what is queued has an attempt left (Tried).

The second part of `RelayProofs` is about the same queue inside the Relay (the Spec of RelayCore), for any number of requests, keys,
owners, Providers and sessions:

- `RunsItsQueue`: `Spec => QueueSpec`, a refinement: every step of a request is a step of the queue or leaves it alone. So
  AmountsInv, and all that the first part shows, holds of the Relay too.
- `PlacesGivenBack` (InFlightExact) and `LoadIsCounted` (LoadCounted), both from CoreInv == AmountsInv /\ CoreTyped /\
  PlacesCounted /\ LoadOwed, where the last two count by what is still owed: a session's counter is the number of requests
  that have yet to give a place of it back, and an account's load the sum of what each request has yet to take off it,
  which changes in the middle of a dispatch. Both assume that "client" is not among the Faults: then nobody is Gone
  (NobodyGone). With it the code does lose a place and a load (section 7).
- `AdmissionKeeps`: `HSpec => []OverAdmissionBounded`, from HInv. A request decides on a deposit, an exposure and a spent
  budget it read at different times; ReadsOwed says that each reading is out by no more than what was settled since by
  somebody, which is what the history variable `slip` adds up. When a request is admitted the reading plus the load was
  within the limit, hence the true value is within the limit plus slip (OpenAdmits); any other step takes off what is
  open at least what it adds to what is spent, or adds the difference to slip (OpenFalls). What is open is never counted
  twice and never not at all, because recount and admit run under one lock; that is LoadOwed again.

`LinkProofs` proves five properties of the link (the Spec of ProviderLink), for any calls, authorizations, slots,
sessions, restarts and faults:

- `NeverTwice`: `Spec => []ExecutedOnce`, from LinkInv. Its part Journalled says that a request the backend was called
  for has a row in the journal, and that at most one thread is past it. The frame's memory in the replay store is not
  needed, and would not do: the clock is read once per job, and a purge in between forgets a request the job still takes
  for fresh (`replay.py:54`). What decides is the journal's primary key.
- `OneReceipt`: `Spec => []OneAnswer`. Its part AnswersKept says that an answer on the wire is the journal's, whose row
  is completed and will not change.
- `SlotsKept`: `Spec => []SlotsExact`, from SlotInv. A job takes its slot in `admit` and gives it back in `begin`,
  `complete` or `fail`. CallsOnce, that a call has no job before its request goes out and goes out once, is needed so
  that no thread that holds a slot is made anew.
- `NoDeadSession` (RegisteredOpen) and `FramesStayOpen` (FramesOpen), from KeyInv. A registration in a session, and the
  key a registered session publishes, is Known: if the process that made it still runs and it has not expired, it is at
  hand. Rotation keeps what is live and returns one it keeps (Rotates; that there is a newest key is the well-foundedness
  of the naturals), a restart makes every earlier key one of another process, and `seal_frame` refuses a frame that would
  outlive its key. WorkerAssumption asks that rotation is due no earlier than a key is made (`worker.py:39-40`: a day
  before the end of seven).

`CourtProofs` proves two properties of the court (the Spec of Court), for any jurors, quorum, desks, dates, lost calls,
restarts, and nodes that lag at every read or do not. It assumes that the keeper's grace is no negative time
(KeeperAssumption, `keeper.py:35`) and that a window and a draw take longer than a node lags (CaseAssumption). Both
follow from CourtInv == Typed /\ PastTrue /\ RowsFollow /\ Logged /\ Timed /\ DutyKept:

- `RowsClosedTrue`: `Spec => []ClosedTrue`. PastTrue says what a stale read may still say: an outcome is the case's, for no
  step of anybody takes a case back or changes how it ended (Onward), and a case read as open has been opened. Hence what
  `advance` and `close` read, each from a node of its own and in a step of its own, closes a row either truly or, where
  nodes lag, with the status of a case that has not ended. RowsFollow adds that a desk has a row only of a case that was
  opened, and that it reads the status after its timeout only when the case has ended. A transaction that is given up is
  covered because the desk then keeps the row open.
- `NoDutyLost`: `Spec => []DutyKept`. An event makes a call needed, and the keeper notes it when it reads that event in the
  log. The proof says of every step either that it makes no call needed that was not needed before (Calm), or
  that it writes the event to a block the keeper has yet to read. Logged is what keeps the two apart: an event in the log
  has happened, so the keeper cannot have passed a block in which a release, a dispute or a jury request comes too late.
  `scan` saves the cursor after the duties it found, which is all a crash between the two can undo. A stale read drops
  no duty that is needed: what is due is due by the chain's dates (Timed), and what a lagging node has not seen yet is not
  due yet (PastTrue). That is what the assumption about window and draw is for.

`HunterProofs` proves three properties of the hunter (the Spec of ProbeRunner), for any Providers, tasks, allowances,
batches, days, restarts and other hunters:

- `KeysStayHidden` (KeysRetired) and `AllowanceHeld` (AllowanceKept), from HunterInv. Sending says that the probe under
  way is the last, of a batch that is open, and that there is one only while the loop waits for its answer; ShownFlushed,
  that what the chain has shown is of a batch that was flushed; Working, that the loop, when it flushes, has only probes
  of flushed batches left to do, so that none of them shows the owner of a key still to be used. A restart in the middle
  is covered because the batch is closed before the first transaction. Allowance counts together what waits to be voided
  and what was voided today, which `probe` reads as two numbers, and leaves room for the probe that is sent.
- `BadStaySuspended` (BadSuspended): every answer and every restart leaves the Providers whose record is too bad among
  the suspended, whichever of the two records the answer goes to. What makes a record too bad stays unexpanded: the proof
  does not depend on the Wilson bound.

`ProviderProofs` proves `RowsStayTrue`: `Spec => []RowsTrue`, for any number of requests, Relays, Providers, waiting
transactions and crashes. OnchainInv adds what makes a row's claim last: ChainTrue (an answer that waits was not wanted
at once, and is delivered only after its escrow was released, hence never after a confirmed fraud) and Waiting; and, of
each thread, ThreadTrue: it waits for the last transaction it sent, so that "mined" is about its own call, and what that
call brought about (Brought) no later step of anybody undoes. A lemma per action, and one for the thread or the row that
alone changes (OnlyThread, OnlyRow).

Its second part is about the app-servers (the PoolSpec of CodexPool), for any number of request threads, slots, processes,
faults and ends, with finitely many threads and processes that have room for a turn and serve one
(PoolAssumption; `codex.py:357-360`). All follow from PoolInv, which takes a thread's
view and a process's together: Seated (a thread has a process exactly while it is not idle), Booked (a process counts
the threads that have it, and one about to join the pool or to be closed has none), Found (a process that runs and has
left the pool is about to be closed, or is dead and has turns, the last of which retires it), Read (a reader that has
told everyone has nobody left to answer), Waited (a thread without a reply is in its
reader's table) and Subscribed (one whose thread was started gets its notices, or was told of the end).

- `TurnsCounted`: `PoolSpec => []ActiveExact`.
- `ProcessesFound`: `PoolSpec => []NoneLost`, with no fault excluded: a reader that stops at garbage leaves a dead server
  whose process runs on, and the sweep or its last turn closes it. A busy one whose wrapper ended before it is lost by the
  code (section 7), and NoneLost does not speak of it.
- `EveryoneTold`: `PoolSpec => []NobodyWaits`. The step it turns on is the reader's last: between its end and its notice a
  thread may still register a call, and is then refused (`codex.py:285-286`); Waited and Subscribed leave it no third way.

Its third part is about an answer (the BackendSpec of Backends), for any number of blocks and pieces, and streams that are
cut, lose deltas or interleave. It begins with what FlattenSeq does to a sequence that gets longer at its end, which is
by induction over sets of sequences, without an operator to instantiate: FlattenMore, FlattenAppend and FlattenLast, and
from them Words (a text without blank lines), Joined (Codex's messages with them) and UpTo (what the first n blocks said).
StreamInv then compares what a backend has with what the model said:

- `StreamedTrue`: `BackendSpec => []StreamedIsAnswer`. Heard says that what was streamed is, for Codex, its messages
  joined, and for the others what the model said; TextTaken that these have just that, or will get it again with the last
  event. That holds whatever goes wrong, since a piece that comes late extends both in the same place (PieceTaken).
- `AnswersWhole`: `BackendSpec => []AnswerWhole`, whatever goes wrong. MessagesTrue says of a message that is not whole how much of it Codex has:
  its first pieces, all of them unless a delta was lost. Then what `_collect` adds when the message is whole is the rest
  (RestOfLast). That needs ItemsTrue, that in a stream in order no earlier message is the last block's, for else
  rest_of would compare with the wrong one; CallsTaken says of each call what was taken of it; and EndsWhole, that who
  stops or answers without a flaw has waited for every block, and so has whoever waits for a last event (Uncut). An error
  that is reported or retried changes nothing that was taken (RetriesKeep, EndKeeps).

Its fourth part is about the request (the conversation of the same BackendSpec), for any number of messages, any contents and
any ids and names of calls. `anthropic_messages`, `gemini_messages` and `items_of` build a request message by message,
and the model says what one message adds (anthropic_turn, gemini_turn); Steps and StepsMore unfold such a fold by its
last element, Mapped and Those do the same for what each message stands for and for what is selected. So a property of a
whole request is kept by each message:

- `RequestsWhole`: `BackendSpec => []RequestWhole`. Tells says that blocks hold the parts and the calls of the messages
  they were made from, each once and in order. It is kept whether a message starts a turn (TellsSaid) or a
  result joins the last one (TellsResult), hence AnthropicTells, GeminiTells and ItemsTell. For Codex the prompt is the
  last item taken out of the history (ConversationOf), and one that falls back to a single prompt is not Ready.
- `ResultsFollow`: `BackendSpec => []ResultsNext`, unless tools attach messages to their results; where they do the code puts
  them in between (section 7). From ConversationInv: all calls but the last turn's are met, and of the last
  turn's, what is met and what is open are all (Settled, Awaiting). Awaiting counts by key, since in Gemini two calls may have
  one name: the results a name has and the open calls of that name are as many as its calls (Partly). That the name
  Gemini's result gets is its call's, and not an earlier call's with the same id, is part of Awaiting too (`plugins.py:322`).

ConversationAssumption says only that a user's content is a sequence of the kinds of parts that `content_parts` knows.

Only model-checked: the liveness properties FeesEnd, QueueDrains and CaseEnds.

## 6. Not modelled, and what is left

- Pricing, the registration of jurors and the weighted draw (`ProviderJuryRegistryV11.sol`), and the emission:
  sequential contracts whose numbers no module here depends on. They are the next thing to model; `PROJECT.json` lists
  their hazards without a property.
- The upgradeable base, the Relay directory, the probe ledger, the test stablecoin and the faucet: few lines each, and
  nothing modelled reads them.
- Cryptography and encodings (`secure_transport.py`, `identity.py`, `evm.py`, `tlspin.py`, `DrandQuicknet.sol`,
  `jury.decompress_g1`, the `.mjs` counterparts): arithmetic on integers too wide for TLC. The models take what a valid
  signature or seal says.
- HTTP servers, dialects, dashboards, command lines, wallets, monitoring, deployment: I/O and translation, with no state
  that others rely on.
- The Consumer's choice among Relays, tenants and their limits, the JavaScript Consumer but for its failover.

## 7. Known divergences

Three runs end in a violation:

- `MCQueueTimeout`: a transaction that is mined after `wait_for_receipt` gave up has settled its receipts, but they are
  still queued, and every retry is refused because they are settled. After MAX_SETTLE_ATTEMPTS they are rejected for
  good (`core.py:331`, against the comment above it), and this Relay never releases them; a crash between settlement and
  mark has the same effect. SettledOnChain holds always.
- `MCFailover`: `_dispatch` reports every failure of a link as not dispatched (`core.py:186`), also a wait that ended
  while the Provider worked. The Consumer then asks another Provider (`consumer.mjs:365`), and the request is executed
  twice, by two Providers, each with a receipt.
- `MCHuntCase`: `open_case` compares each day with the earliest chosen so far, not with the latest (`probes.py:603`), so
  that the days it chooses may span MAX_CASE_DAYS or more. The contract refuses such a case
  (`MycoSettlementDisputesV11.sol:190`), in every cycle again.

The modules state more properties that the code does not have. No run is kept for them; each falls in seconds under the
change named:

- `KeyCapped` (MCDispute with three requests, the one budget limit 10, HoldbackParams, no jurors, days of 1 and a
  deposit of 30): `_refund` (`MycoSettlementBaseV11.sol:308-309`) gives a key's budget the fee of any refunded receipt
  back, also of one settled while the key had no budget and therefore never charged to it. The key then spends more than
  the cap of `MycoSettlementV11.sol:86`. BudgetTracksFees is the part that holds: for keys whose receipts were all
  settled under a budget, spent is exactly what they owe.
- `SilentJuryReleases` (MCDispute with one request): `finalizeJury` (`ProviderJuryRegistryV11.sol:286`) has no deadline,
  and `resolveTimedOutDispute` asks only whether a jury exists now. A jury drawn after the deadline, which can no longer
  vote, turns the refund of `MycoSettlementDisputesV11.sol:120-121` into a release. Whoever acts first after the
  deadline decides.
- `InFlightExact` with the fault "client" (MCAdmission): `_stream` sends headers before it dispatches
  (`server.py:307-313`). If the client is gone by then, the prepared job keeps its place in `in_flight` and its fees in
  `outstanding` until the Relay restarts. On every other path InFlightExact and LoadCounted hold.
- `BondReturned` (MCCourt with no restart and no lost call): a desk closes a row with any status it reads but an open one
  (`disputes.py:172-174`, 223-225). A node that lags says of a case opened a moment ago that there is none; the row is
  then closed as "none", nobody on this Relay looks at the case again, and no keeper ends a capability case. So "the
  timeout returns the hunter's bond" (187) does not hold of a case whose jury could not be formed, until somebody else
  sends that call. Of a dispute the keeper still sends it.
- `CaseDrawn` (MCCourt): the keeper's jury duty reads the status of a settlement under the case's key
  (`keeper.py:136-148`). A capability case has none, so the duty is dropped undone and only a desk draws its jury,
  although "finalizeJury once a case's drand round is published" (`keeper.py:7`).
- `NoneLost` also of processes whose wrapper has ended (MCProvider, without the conjunct on `wrapper`): `_acquire` takes a
  process whose wrapper ended out of the pool and closes it only if it is idle (`codex.py:441-444`); when the last turn
  leaves a busy one whose app-server lives on, it is not retired unless its turns are used up (468-469), and nothing ever
  closes it. A test says "closing must end both" (`tests/test_mycomesh_plugins.py:205`).
- `ResultsNext` with Attachments = TRUE (MCProvider): `dialects.mjs:250-254` puts what a tool result attaches into a
  user message of its own, between the result and the next one. With two calls answered, the second result is then not
  in the turn after the calls, which `backends.py:350` is there to ensure.
- `PromptWhole` (Backends): a Codex backend with its own instructions says that it reads images (`codex.py:363`), but
  puts only the texts into the prompt.
- `AnswersKept` (MCProvider): a Relay whose fulfilment was mined after it stopped waiting, or that another Relay
  overtook, marks the request answered without the answer (`onchain.py:96-97`). It cannot deliver it, and from then on
  raises on that row in every cycle (82), against "It also hands over answers that wait for the dispute window" (5-6).

Two answers are receipted that a reader of `backends.py` and `codex.py` may not expect; AnswerWhole says how far they are
right (section 3):

- The chat and Gemini readers know no event that reports an error, and ask for no finish reason (`backends.py:221-234`,
  `plugins.py:354-358`): a stream that fails in the middle ends, and its first part is the answer. So it is, for these
  and for Anthropic, with a connection that is closed early.
- An error that Codex will retry is passed over (`codex.py:570-572`). If its model then says the message again, as a
  message of another id, the answer holds the beginning of the first attempt and the whole of the second, beside "the
  answer is all of them" (530). Streamed and receipted text stay the same.

And what no property states, because the code promises nothing: `handle_onchain` leaves its journal row running for ever
when the backend fails (`worker.py:333-359`); a Provider that answered for one Relay is rejected by every other that
asks it (`onchain.py:117`); an answer whose dispute ended without a jury is in no set of final statuses
(`onchain.py:25`) and its row is polled for ever.
