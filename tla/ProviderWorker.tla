--------------------------- MODULE ProviderWorker ---------------------------
(***************************************************************************)
(* A Provider's jobs (mycomesh/provider/worker.py): verify, open, admit,   *)
(* execute once, seal the answer, sign the receipt.                        *)
(*                                                                         *)
(* Every job has a thread; an action is what it does between two uses of   *)
(* what the threads share: the journal, the replay store, the transport    *)
(* keys, the slots.  Journal and replay store are on disk; the keys, the   *)
(* slots and the threads end with the process.                             *)
(***************************************************************************)
EXTENDS Consumer, FiniteSets

CONSTANTS
  Capacity,
  TRANSPORT_KEY_LIFETIME,
  TRANSPORT_KEY_ROTATE_BEFORE,
  Unserved,    \* authorizations of requests it refuses: unknown model, unreadable input, fee below the worst case
  MaxDeltas,   \* bound: pieces of streamed text per execution
  MaxRestarts  \* bound: times the Provider's process ends

ASSUME WorkerAssumption ==
  /\ Capacity \in Nat \ {0} /\ Unserved \subseteq Authorizations
  /\ IsFiniteSet(Calls)
  /\ TRANSPORT_KEY_LIFETIME \in Nat /\ TRANSPORT_KEY_ROTATE_BEFORE \in Nat
  /\ TRANSPORT_KEY_ROTATE_BEFORE <= TRANSPORT_KEY_LIFETIME  \* a day, of seven
  /\ MaxDeltas \in Nat /\ MaxRestarts \in Nat

VARIABLES
  keys,      \* _keys, a list that only grows at its end
  replay,    \* the replay store
  journal,   \* executions: per authorization its state and its stored result
  slots,     \* _slots
  jobs,      \* per call, where its thread is, the time it took as current until admitted, deltas flushed
  restarts,
  runs       \* per authorization, how often the backend was called: history, no code reads it

workerVars == <<keys, replay, journal, slots, jobs, restarts, runs>>
\* All but the threads.
workerStore == <<keys, replay, journal, slots, restarts, runs>>

NoJob == [pc |-> "none", at |-> 0, seq |-> 0]
JobIs(c, pc) == jobs[c].pc = pc
JobGoto(c, pc) == jobs' = [jobs EXCEPT ![c].pc = pc]
JobStarts(c, pc) == jobs' = [jobs EXCEPT ![c] = [NoJob EXCEPT !.pc = pc]]
refuse(c) == JobGoto(c, "refused")
NoRow == [state |-> "none", result |-> Nobody]

-----------------------------------------------------------------------------
(* Transport keys *)

LiveKeys == {key \in keys : key.expires_at > now}
\* The last of the list; the clock does not go back.
Newest(S) == CHOOSE key \in S : \A other \in S : other.not_before <= key.not_before
RotationDue == LiveKeys = {} \/ Newest(LiveKeys).expires_at - now < TRANSPORT_KEY_ROTATE_BEFORE
NewKey == generate_transport_key("provider", <<restarts, now>>, TRANSPORT_KEY_LIFETIME, now)

\* Mutant: a new key replaces the ones Consumers may still be sealing to.
Rotated_alone == IF RotationDue THEN {NewKey} ELSE LiveKeys

\* What current_transport_key leaves in _keys; it returns the last.
Rotated == IF RotationDue THEN LiveKeys \cup {NewKey} ELSE LiveKeys
CurrentKey == Newest(Rotated)
current_transport_key == keys' = Rotated

\* The key a frame was sealed to: an expired one is still found until the next rotation drops it.
key_for(id) == {key \in keys : key.key_id = id}

-----------------------------------------------------------------------------
(* handle_job *)

\* The clock is read once: what comes before the backend is decided by that reading.  Completed before: the
\* stored result.  Started before a crash, or by another thread: never a second run.
handle_job(c) ==
  /\ JobIs(c, "queued")
  /\ jobs' = [jobs EXCEPT ![c].at = now,
                          ![c].pc = IF ~verify_authorization(Payload(c).authorization, now) THEN "refused"
                                    ELSE CASE journal[Auth(c)].state = "completed" -> "served"
                                           [] journal[Auth(c)].state = "running"   -> "refused"
                                           [] journal[Auth(c)].state = "none"      -> "verified"]
  /\ UNCHANGED workerStore

\* _open finds a key that opens the frame; whether the store knows the frame is the last thing it asks.
opened(c) ==
  LET frame == Payload(c).sealed_request IN
  /\ \E key \in key_for(frame.recipient_key_id) : opens(frame, key, "request", Nobody, jobs[c].at)
  /\ ~replayed(replay, frame, jobs[c].at)

\* Then the reply key the request names, model, input kinds and worst-case price, and a slot.  A frame that opens is
\* used up even if the job is then refused.
admit(c) ==
  LET frame == Payload(c).sealed_request
      admitted == /\ opened(c) /\ verify_transport_key_binding(Payload(c).reply_transport_key, "consumer", jobs[c].at)
                  /\ Auth(c) \notin Unserved /\ slots > 0
  IN /\ JobIs(c, "verified")
     /\ replay' = IF opened(c) THEN remember(replay, frame, jobs[c].at) ELSE replay
     /\ slots' = IF admitted THEN slots - 1 ELSE slots
     /\ JobStarts(c, IF admitted THEN "admitted" ELSE "refused")
     /\ UNCHANGED <<keys, journal, restarts, runs>>

\* Mutant: the row is replaced if there is one.
begin_replace(c) ==
  /\ JobIs(c, "admitted")
  /\ journal' = [journal EXCEPT ![Auth(c)].state = "running"]
  /\ runs' = [runs EXCEPT ![Auth(c)] = @ + 1]
  /\ JobGoto(c, "running")
  /\ UNCHANGED <<keys, replay, slots, restarts>>

\* The row's primary key lets one thread through to the backend.
begin(c) ==
  /\ JobIs(c, "admitted")
  /\ IF journal[Auth(c)].state # "none" THEN refuse(c) /\ slots' = slots + 1 /\ UNCHANGED <<journal, runs>>
     ELSE /\ journal' = [journal EXCEPT ![Auth(c)].state = "running"]
          /\ runs' = [runs EXCEPT ![Auth(c)] = @ + 1]
          /\ JobGoto(c, "running") /\ UNCHANGED slots
  /\ UNCHANGED <<keys, replay, restarts>>

CanSeal(c) == sealable(Payload(c).reply_transport_key, "consumer", FrameTtl, now)

\* _DeltaSealer.flush: the number of the piece is used up whether or not it gets out.
flush(c) ==
  /\ JobIs(c, "running") /\ jobs[c].seq < MaxDeltas /\ CanSeal(c)
  /\ jobs' = [jobs EXCEPT ![c].seq = @ + 1]
  /\ UNCHANGED workerStore

\* The response is sealed when done, not when started.
answer(c) == [authorization |-> Auth(c), receipt |-> c, length |-> jobs[c].seq, sealed_at |-> now]

complete(c) ==
  /\ JobIs(c, "running") /\ CanSeal(c)
  /\ journal' = [journal EXCEPT ![Auth(c)] = [state |-> "completed", result |-> answer(c)]]
  /\ slots' = slots + 1
  /\ JobGoto(c, "served")
  /\ UNCHANGED <<keys, replay, restarts, runs>>

\* Mutant: the slot of a job that failed is not given back.
fail_keepSlot(c) ==
  /\ JobIs(c, "running")
  /\ JobGoto(c, "failed")
  /\ UNCHANGED workerStore

\* The backend, the price or the sealing raises: the row stays running, so the job is never tried again.
fail(c) ==
  /\ JobIs(c, "running")
  /\ slots' = slots + 1
  /\ JobGoto(c, "failed")
  /\ UNCHANGED <<keys, replay, journal, restarts, runs>>

Work(c) ==
  \/ handle_job(c) \/ admit(c) \/ begin(c) \/ complete(c) \/ fail(c)

\* Another request's frame is opened: with it goes every row that is over.
sweep ==
  /\ replay' = Unexpired(replay, now) /\ replay' # replay
  /\ UNCHANGED <<keys, journal, slots, jobs, restarts, runs>>

\* The process ends and starts again.
restart ==
  /\ restarts < MaxRestarts /\ restarts' = restarts + 1
  /\ keys' = {} /\ slots' = Capacity
  /\ jobs' = [c \in Calls |-> IF JobIs(c, "none") THEN NoJob ELSE [NoJob EXCEPT !.pc = "over"]]
  /\ UNCHANGED <<replay, journal, runs>>

WorkerInit ==
  /\ keys = {} /\ replay = {} /\ slots = Capacity /\ restarts = 0
  /\ journal = [a \in Authorizations |-> NoRow]
  /\ jobs = [c \in Calls |-> NoJob]
  /\ runs = [a \in Authorizations |-> 0]
=============================================================================
