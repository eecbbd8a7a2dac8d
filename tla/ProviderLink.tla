---------------------------- MODULE ProviderLink ----------------------------
(***************************************************************************)
(* The link between a Provider and a Relay (mycomesh/link.py,              *)
(* provider/link.py, the link half of relay/server.py), with the Provider  *)
(* at one end and the Relay's calls and a Consumer at the other.           *)
(*                                                                         *)
(* A session is one connection; its two ends close on their own.  The      *)
(* Relay reads a session's messages in one thread; every call waits in a   *)
(* thread of its own.  What admission does before (core.py) is RelayCore's *)
(* part; here every call that finds a session is admitted.                 *)
(***************************************************************************)
EXTENDS ProviderWorker

CONSTANTS
  Faults,      \* "link": a connection breaks, and the Provider sees it first; "relay": the Relay does;
               \* "timeout": a wait of JOB_TIMEOUT ends
  MaxSessions  \* bound: connections made

VARIABLES
  sessions,    \* every connection: its two ends and the keys each holds for the other
  registered,  \* core.providers[signer]: the session calls go to, 0 for none
  calls,       \* per call, the Relay's thread and its entry in _pending
  wire         \* per call, what the Provider has sent and the Relay not yet read

linkVars == <<sessions, registered, calls, wire>>
vars == <<now, consumerVars, workerVars, linkVars>>

NoCall == [pc |-> "none", session |-> 0]
CallIs(c, pc) == calls[c].pc = pc
Connected(s) == sessions[s].provider # "closed" /\ sessions[s].relay # "closed"
RelayReads(s) == sessions[s].relay = "serving"
\* The call has its entry in the session's _pending.
Pending(c, s) == CallIs(c, "waiting") /\ calls[c].session = s

\* _dispatch reports every failure of the link alike, with what RelayError says if not told otherwise.
NotDispatched == [type |-> "error", dispatched |-> FALSE]

-----------------------------------------------------------------------------
(* Sessions: ProviderLink._session and RelayServer.handle_link *)

\* A descriptor with the current key, signed for this Relay.
registration == [transport_key |-> CurrentKey, signature |-> sign_document("provider", "link", "relay", now)]

\* The Provider connects when it has no connection, is challenged, and registers with its current key.
connect ==
  /\ Len(sessions) < MaxSessions
  /\ \A s \in DOMAIN sessions : sessions[s].provider = "closed"
  /\ current_transport_key
  /\ sessions' = Append(sessions, [provider |-> "registering", relay |-> "open", sent |-> registration,
                                   published |-> Nobody, announced |-> Nobody])
  /\ UNCHANGED <<now, consumerVars, replay, journal, slots, jobs, restarts, runs, registered, calls, wire>>

\* _register verifies the registration, then asks the chain for the owner; the lock is not held.
receive_registration(s) ==
  /\ sessions[s].sent # Nobody
  /\ sessions[s].relay = "open" \/ RelayReads(s)
  /\ sessions' = [sessions EXCEPT ![s].relay =
       IF /\ verify_document(sessions[s].sent.signature, "link", "relay", SIGNATURE_MAX_AGE_SECONDS, now)
          /\ verify_transport_key_binding(sessions[s].sent.transport_key, "provider", now)
         THEN "registering" ELSE "failed"]
  /\ UNCHANGED <<now, consumerVars, workerVars, registered, calls, wire>>

\* register_provider: calls go to the session that registered last, whichever connected last.
register_provider(s) ==
  /\ sessions[s].relay = "registering"
  /\ sessions' = [sessions EXCEPT ![s].relay = "serving", ![s].published = sessions[s].sent.transport_key, ![s].sent = Nobody]
  /\ registered' = s
  /\ UNCHANGED <<now, consumerVars, workerVars, calls, wire>>

\* The Provider reads "registered".  What it takes for announced is the key that is current now.
serve(s) ==
  /\ sessions[s].provider = "registering" /\ sessions[s].relay = "serving"
  /\ current_transport_key
  /\ sessions' = [sessions EXCEPT ![s].provider = "up", ![s].announced = CurrentKey.key_id]
  /\ UNCHANGED <<now, consumerVars, replay, journal, slots, jobs, restarts, runs, registered, calls, wire>>

\* _watch_key_rotation.
announce(s) ==
  /\ Connected(s) /\ sessions[s].provider = "up" /\ sessions[s].sent = Nobody
  /\ CurrentKey.key_id # sessions[s].announced
  /\ current_transport_key
  /\ sessions' = [sessions EXCEPT ![s].sent = registration, ![s].announced = CurrentKey.key_id]
  /\ UNCHANGED <<now, consumerVars, replay, journal, slots, jobs, restarts, runs, registered, calls, wire>>

\* The Provider's end closes: the link breaks, or the Relay closed it.
provider_closes(s) ==
  /\ sessions[s].provider # "closed"
  /\ "link" \in Faults \/ sessions[s].relay \in {"failed", "closed"}
  /\ sessions' = [sessions EXCEPT ![s].provider = "closed", ![s].announced = Nobody]
  /\ UNCHANGED <<now, consumerVars, workerVars, registered, calls, wire>>

\* Mutant: the end of a link leaves the session registered.
unregistered_never(s) == registered

\* Only the session that this link registered.
unregistered(s) == IF registered = s THEN 0 ELSE registered

\* handle_link's finally: fail_all wakes every call that waits on the session; then the session goes.
relay_closes(s) ==
  /\ sessions[s].relay \notin {"registering", "closed"}
  /\ "relay" \in Faults \/ sessions[s].provider = "closed" \/ sessions[s].relay = "failed"
  /\ sessions' = [sessions EXCEPT ![s].relay = "closed", ![s].sent = Nobody, ![s].published = Nobody]
  /\ registered' = unregistered(s)
  /\ calls' = [c \in Calls |-> IF Pending(c, s) THEN [calls[c] EXCEPT !.pc = "ended"] ELSE calls[c]]
  /\ clients' = [c \in Calls |-> IF Pending(c, s) THEN stream(clients[c], c, NotDispatched) ELSE clients[c]]
  /\ wire' = [c \in Calls |-> IF calls[c].session = s THEN <<>> ELSE wire[c]]
  /\ UNCHANGED <<now, payloads, workerVars>>

-----------------------------------------------------------------------------
(* Calls: ProviderConnection, and the thread that waits *)

\* prepare: the session there is now; admission then takes its time.
prepare(c) ==
  /\ Payload(c) # Nobody /\ ClientIs(c, "idle")
  /\ IF registered # 0 /\ verify_authorization(Payload(c).authorization, now)
       THEN /\ calls' = [calls EXCEPT ![c].pc = "prepared", ![c].session = registered]
            /\ clients' = [clients EXCEPT ![c].state = "waiting"]
       ELSE /\ calls' = [calls EXCEPT ![c].pc = "ended"]
            /\ clients' = [clients EXCEPT ![c].state = "moved"]
  /\ UNCHANGED <<now, payloads, workerVars, sessions, registered, wire>>

\* The entry in _pending, then the job goes out.  A closed link raises; one that breaks loses the job.
request(c) ==
  /\ CallIs(c, "prepared")
  /\ IF sessions[calls[c].session].relay = "closed"
       THEN /\ calls' = [calls EXCEPT ![c].pc = "ended"]
            /\ read_stream(c, NotDispatched) /\ UNCHANGED jobs
       ELSE /\ calls' = [calls EXCEPT ![c].pc = "waiting"]
            /\ \E pc \in (IF sessions[calls[c].session].provider # "closed" THEN {"queued"} ELSE {})
                          \cup (IF sessions[calls[c].session].provider = "closed" \/ "link" \in Faults THEN {"over"} ELSE {}) :
                 JobStarts(c, pc)
            /\ UNCHANGED clients
  /\ UNCHANGED <<now, payloads, workerStore, sessions, registered, wire>>

Send(c, message) ==
  wire' = IF Connected(calls[c].session) THEN [wire EXCEPT ![c] = Append(@, message)] ELSE wire

send_delta(c) ==
  /\ flush(c)
  /\ Send(c, [type |-> "chunk", delta |-> [seq |-> jobs[c].seq, sealed_at |-> now]])
  /\ UNCHANGED <<now, consumerVars, sessions, registered, calls>>

\* Mutant: a job that was completed before gets a receipt of its own.
Reply_anew(c) ==
  CASE JobIs(c, "served")  -> [type |-> "result", executed |-> "yes", answer |-> [journal[Auth(c)].result EXCEPT !.receipt = c]]
    [] JobIs(c, "refused") -> [type |-> "result", executed |-> "no", answer |-> Nobody]
    [] JobIs(c, "failed")  -> [type |-> "result", executed |-> "unknown", answer |-> Nobody]

\* _run_job's reply: only a refusal says that the job was not executed.
Reply(c) ==
  CASE JobIs(c, "served")  -> [type |-> "result", executed |-> "yes", answer |-> journal[Auth(c)].result]
    [] JobIs(c, "refused") -> [type |-> "result", executed |-> "no", answer |-> Nobody]
    [] JobIs(c, "failed")  -> [type |-> "result", executed |-> "unknown", answer |-> Nobody]
reply(c) ==
  /\ jobs[c].pc \in {"served", "refused", "failed"}
  /\ Send(c, Reply(c))
  /\ JobStarts(c, "over")
  /\ UNCHANGED <<now, consumerVars, workerStore, sessions, registered, calls>>

\* A result goes to the entry, if there still is one, and its thread goes on: an answer is handed on, a refusal
\* or a failure is an error.
resolve(c) ==
  LET m == Head(wire[c]) IN
  /\ wire[c] # <<>> /\ m.type = "result" /\ RelayReads(calls[c].session)
  /\ wire' = [wire EXCEPT ![c] = Tail(@)]
  /\ IF CallIs(c, "waiting")
       THEN /\ calls' = [calls EXCEPT ![c].pc = "ended"]
            /\ read_stream(c, IF m.executed = "yes" THEN [type |-> "result", answer |-> m.answer] ELSE NotDispatched)
       ELSE UNCHANGED <<calls, clients>>
  /\ UNCHANGED <<now, payloads, workerVars, sessions, registered>>

\* A chunk is written to the Consumer if the entry is there (it is written after the lock is given back, but what
\* comes after the error line is not read).
chunk(c) ==
  /\ wire[c] # <<>> /\ Head(wire[c]).type = "chunk" /\ RelayReads(calls[c].session)
  /\ wire' = [wire EXCEPT ![c] = Tail(@)]
  /\ IF CallIs(c, "waiting") THEN read_stream(c, [type |-> "delta", delta |-> Head(wire[c]).delta]) ELSE UNCHANGED clients
  /\ UNCHANGED <<now, payloads, workerVars, sessions, registered, calls>>

time_out(c) ==
  /\ "timeout" \in Faults /\ CallIs(c, "waiting")
  /\ calls' = [calls EXCEPT ![c].pc = "ended"]
  /\ read_stream(c, NotDispatched)
  /\ UNCHANGED <<now, payloads, workerVars, sessions, registered, wire>>

-----------------------------------------------------------------------------
\* The Consumer seals to the key the Relay publishes for the session that is registered.
Seal(a) ==
  /\ registered # 0
  /\ prepare_request(a, sessions[registered].published)
  /\ UNCHANGED <<now, workerVars, linkVars>>

\* The executor has Capacity + 2 threads for what the link has read.
Executing == {c \in Calls : jobs[c].pc \notin {"none", "queued", "over"}}
Execute(c) ==
  /\ JobIs(c, "queued") => Cardinality(Executing) < Capacity + 2
  /\ Work(c)
  /\ UNCHANGED <<now, consumerVars, linkVars>>

Restart ==
  /\ restart
  /\ sessions' = [s \in DOMAIN sessions |-> [sessions[s] EXCEPT !.provider = "closed", !.announced = Nobody]]
  /\ UNCHANGED <<now, consumerVars, registered, calls, wire>>

Sweep == sweep /\ UNCHANGED <<now, consumerVars, linkVars>>

Tick ==
  /\ now < MaxTime /\ now' = now + 1
  /\ UNCHANGED <<consumerVars, workerVars, linkVars>>

Session(s) ==
  \/ receive_registration(s) \/ register_provider(s) \/ serve(s) \/ announce(s)
  \/ provider_closes(s) \/ relay_closes(s)

Call(c) ==
  \/ prepare(c) \/ request(c) \/ Execute(c) \/ send_delta(c) \/ reply(c)
  \/ resolve(c) \/ chunk(c) \/ time_out(c)

Next ==
  \/ connect \/ Restart \/ Sweep \/ Tick
  \/ \E s \in DOMAIN sessions : Session(s)
  \/ \E c \in Calls : Call(c)
  \/ \E a \in Authorizations : Seal(a)

Init ==
  /\ now = 0 /\ ConsumerInit /\ WorkerInit
  /\ sessions = <<>> /\ registered = 0
  /\ calls = [c \in Calls |-> NoCall]
  /\ wire = [c \in Calls |-> <<>>]

Spec == Init /\ [][Next]_vars

-----------------------------------------------------------------------------
(* Properties *)

\* "Started before a crash or concurrently: never execute twice" (worker.py:196): whatever the Relay resends, the
\* backend is called at most once for an authorization, across threads, links and restarts of the Provider.
ExecutedOnce == \A a \in Authorizations : runs[a] <= 1

\* Every slot is free or held by exactly one job, whichever way the job ended: refused, failed, served or killed.
Holding == {"admitted", "running"}
SlotsExact == slots + Cardinality({c \in Calls : jobs[c].pc \in Holding}) = Capacity

\* However often an authorization is resent, every receipt the Provider hands out for it is the one in its journal:
\* two different receipts would both be valid, and the Relay could settle either.
Answers(c) ==
  {m.answer : m \in {m \in {wire[c][i] : i \in DOMAIN wire[c]} : m.type = "result" /\ m.executed = "yes"}}
OneAnswer == \A c \in Calls : \A x \in Answers(c) : x = journal[Auth(c)].result

\* A key outlives every frame sealed to it: while a request's frame is good, and the process that published the key
\* lives, rotation has not dropped the key, although Consumers go on sealing to a key already superseded.
FramesOpen ==
  \A a \in Authorizations :
    LET frame == payloads[a].sealed_request IN
    payloads[a] # Nobody /\ frame.expires_at > now /\ frame.recipient_key_id[1] = restarts
      => \E key \in key_for(frame.recipient_key_id) : key.expires_at >= frame.expires_at

\* A reconnect never leaves the Provider registered with a dead session: the session that ends takes only its own
\* registration away, whatever order the old link's end and the new one's registration come in.
RegisteredOpen == registered # 0 => sessions[registered].relay # "closed"

\* "Fail over only while the request provably was not dispatched" (packages/mycomesh-cli/src/consumer.mjs:365): a
\* Consumer that was told to go elsewhere is not served here as well.
FailoverSafe == \A c \in Calls : ClientIs(c, "moved") => runs[Auth(c)] = 0
=============================================================================
