--------------------------- MODULE OnchainRequests ---------------------------
(***************************************************************************)
(* Requests that contracts make on the chain (MycoInferenceOracleV11.sol), *)
(* the Relays that have them answered (mycomesh/relay/onchain.py), and the *)
(* Providers that answer (handle_onchain of mycomesh/provider/worker.py).  *)
(*                                                                         *)
(* Any Relay may serve any request.  Each has one dispatcher thread, which *)
(* goes through its rows again and again; an action is what it does        *)
(* between two calls of the node or of a Provider.                         *)
(***************************************************************************)
EXTENDS Integers, FiniteSets, Sequences

CONSTANTS
  Requests,
  Immediate,    \* the requests that want their answer at once; the others after the dispute window
  Relays,
  Providers,
  Sessions,     \* those of the requests' tier, in the order in which a Relay lists its sessions
  REQUEST_TTL, expire_grace,
  Faults,       \* "link": a Provider cannot be reached, or its answer is lost; "backend": its backend fails;
                \* "timeout": a transaction is not mined while the Relay waits
  MaxTime, MaxSent, MaxCrashes \* bounds

ASSUME OnchainAssumption ==
  /\ Immediate \subseteq Requests /\ Sessions \in Seq(Providers) \ {<<>>}
  /\ REQUEST_TTL \in Nat /\ expire_grace \in Nat /\ MaxTime \in Nat /\ MaxSent \in Nat /\ MaxCrashes \in Nat

VARIABLES
  now,
  state,    \* the oracle's state of each request
  deadline,
  escrow,   \* the status of its settlement
  sent,     \* per Relay, its transactions that are not mined, by nonce
  rows,     \* relay-oracle.sqlite3: per Relay and request, the row's state, whether it has the answer, and
            \* its attempts (modulo the sessions)
  threads,  \* per Relay, where its dispatcher is
  journals, \* per Provider and request: the Relay it is or was executed for, and whether it is completed
  crashes

chainVars == <<now, state, deadline, escrow>>
vars == <<chainVars, sent, rows, threads, journals, crashes>>

NoRow == [state |-> "none", answered |-> FALSE, attempts |-> 0]
Idle == [pc |-> "idle", todo |-> {}, block_time |-> 0, request |-> "none", call |-> "none", provider |-> "none"]
Released == {"released", "dismissed", "timed_out"} \* FINAL_STATUSES
Unexecuted == [execution |-> "none", relay |-> "none"]

-----------------------------------------------------------------------------
(* A dispatcher's thread *)

Row(relay, r) == rows[relay][r]
Thread(relay) == threads[relay]
Goes(relay, pc) == threads' = [threads EXCEPT ![relay].pc = pc]

\* It goes on with the rows that are left; whatever was raised is logged.
Resting(block_time, todo) ==
  [pc |-> "next", todo |-> todo, block_time |-> block_time, request |-> "none", call |-> "none", provider |-> "none"]
Continues(relay) == threads' = [threads EXCEPT ![relay] = Resting(@.block_time, @.todo)]
Done(relay, r) == threads' = [threads EXCEPT ![relay] = Resting(@.block_time, @.todo \ {r})]

Works(relay, pc, r, call, provider) ==
  threads' = [threads EXCEPT ![relay] = [pc |-> pc, todo |-> Thread(relay).todo \ {r},
    block_time |-> Thread(relay).block_time, request |-> r, call |-> call, provider |-> provider]]
Submits(relay, r, call) == Works(relay, "sends", r, call, "none")
mark(relay, r, s) == rows' = [rows EXCEPT ![relay][r].state = s]

-----------------------------------------------------------------------------
(* The chain *)

request(r) ==
  /\ state[r] = "none"
  /\ state' = [state EXCEPT ![r] = "open"] /\ deadline' = [deadline EXCEPT ![r] = now + REQUEST_TTL]
  /\ UNCHANGED <<now, escrow, sent, rows, threads, journals, crashes>>

\* What a call would do; one whose conditions do not hold reverts.
Allowed(tx) ==
  /\ tx.call = "fulfill" => state[tx.request] = "open" /\ now <= deadline[tx.request]
  /\ tx.call = "expire"  => state[tx.request] = "open" /\ now > deadline[tx.request]
  /\ tx.call = "deliver" => state[tx.request] = "answered" /\ escrow[tx.request] \in Released
Becomes(tx) ==
  IF tx.call = "expire" THEN "expired"
  ELSE IF tx.call = "fulfill" /\ tx.request \notin Immediate THEN "answered" ELSE "delivered"

\* The oldest transaction of a Relay is mined.  Its thread waits for the last, if it still does.
mine(relay) ==
  /\ sent[relay] # <<>> /\ sent' = [sent EXCEPT ![relay] = Tail(@)]
  /\ LET tx == Head(sent[relay]) IN
     /\ state' = IF Allowed(tx) THEN [state EXCEPT ![tx.request] = Becomes(tx)] ELSE state
     /\ escrow' = IF Allowed(tx) /\ tx.call = "fulfill" THEN [escrow EXCEPT ![tx.request] = "pending"] ELSE escrow
     /\ IF Thread(relay).pc = "waits" /\ Len(sent[relay]) = 1
        THEN IF Allowed(tx) THEN Goes(relay, "mined") ELSE Continues(relay)
        ELSE UNCHANGED threads
  /\ UNCHANGED <<now, deadline, rows, journals, crashes>>

\* Keepers release, the requester disputes, jurors decide or do not.
settles(r) ==
  /\ \/ escrow[r] = "pending" /\ \E s \in {"released", "disputed"} : escrow' = [escrow EXCEPT ![r] = s]
     \/ escrow[r] = "disputed"
        /\ \E s \in {"confirmed", "dismissed", "timed_out", "jury_unavailable"} : escrow' = [escrow EXCEPT ![r] = s]
  /\ UNCHANGED <<now, state, deadline, sent, rows, threads, journals, crashes>>

tick == now < MaxTime /\ now' = now + 1 /\ UNCHANGED <<state, deadline, escrow, sent, rows, threads, journals, crashes>>

-----------------------------------------------------------------------------
(* The dispatcher *)

\* scan, block_time, and the rows that are open or answered.
cycle(relay) ==
  /\ Thread(relay).pc = "idle"
  /\ rows' = [rows EXCEPT ![relay] = [r \in Requests |->
       IF @[r].state = "none" /\ state[r] # "none" THEN [@[r] EXCEPT !.state = "open"] ELSE @[r]]]
  /\ LET polled == {r \in Requests : rows'[relay][r].state \in {"open", "answered"}} IN
     /\ polled # {}
     /\ threads' = [threads EXCEPT ![relay] = Resting(now, polled)]
  /\ UNCHANGED <<chainVars, sent, journals, crashes>>

\* _serve: another Relay was faster or it is too late; or a Provider is asked, each time the next one.
serve(relay, r) ==
  LET late == Thread(relay).block_time - deadline[r] IN
  /\ Thread(relay).pc = "next" /\ r \in Thread(relay).todo /\ Row(relay, r).state = "open"
  /\ \/ state[r] # "open" /\ mark(relay, r, state[r]) /\ Done(relay, r)
     \/ state[r] = "open" /\ late > expire_grace /\ Submits(relay, r, "expire") /\ UNCHANGED rows
     \/ state[r] = "open" /\ late \in 1..expire_grace /\ Done(relay, r) /\ UNCHANGED rows
     \/ /\ state[r] = "open" /\ late <= 0
        /\ rows' = [rows EXCEPT ![relay][r].attempts = IF @ + 1 = Len(Sessions) THEN 0 ELSE @ + 1]
        /\ Works(relay, "asks", r, "none", Sessions[Row(relay, r).attempts + 1])
     \/ "link" \in Faults /\ state[r] = "open" /\ late <= 0 /\ Done(relay, r) /\ UNCHANGED rows
  /\ UNCHANGED <<chainVars, sent, journals, crashes>>

\* _deliver.  A row without an answer raises at once.
deliver(relay, r) ==
  /\ Thread(relay).pc = "next" /\ r \in Thread(relay).todo /\ Row(relay, r).state = "answered"
  /\ \/ ~Row(relay, r).answered /\ Done(relay, r) /\ UNCHANGED rows
     \/ /\ Row(relay, r).answered
        /\ \/ escrow[r] = "confirmed" /\ mark(relay, r, "fraud") /\ Done(relay, r)
           \/ escrow[r] \notin Released \cup {"confirmed"} /\ Done(relay, r) /\ UNCHANGED rows
           \/ escrow[r] \in Released /\ state[r] = "answered" /\ Submits(relay, r, "deliver") /\ UNCHANGED rows
           \/ escrow[r] \in Released /\ state[r] # "answered" /\ mark(relay, r, "delivered") /\ Done(relay, r)
  /\ UNCHANGED <<chainVars, sent, journals, crashes>>

ends(relay) ==
  /\ Thread(relay).pc = "next" /\ Thread(relay).todo = {} /\ threads' = [threads EXCEPT ![relay] = Idle]
  /\ UNCHANGED <<chainVars, sent, rows, journals, crashes>>

\* send_transaction: refused if the call would revert now.
send(relay) ==
  LET tx == [call |-> Thread(relay).call, request |-> Thread(relay).request] IN
  /\ Thread(relay).pc = "sends"
  /\ \/ /\ Allowed(tx) /\ Len(sent[relay]) < MaxSent
        /\ sent' = [sent EXCEPT ![relay] = Append(@, tx)] /\ Goes(relay, "waits")
     \/ ~Allowed(tx) /\ Continues(relay) /\ UNCHANGED sent
  /\ UNCHANGED <<chainVars, rows, journals, crashes>>

\* Mutant: whether the transaction was mined is not looked at.
wait_gaveUp(relay) ==
  /\ Thread(relay).pc = "waits" /\ "timeout" \in Faults /\ Goes(relay, "mined")
  /\ UNCHANGED <<chainVars, sent, rows, journals, crashes>>

\* wait_for_receipt gives up; the transaction may be mined later.
wait(relay) ==
  /\ Thread(relay).pc = "waits" /\ "timeout" \in Faults /\ Continues(relay)
  /\ UNCHANGED <<chainVars, sent, rows, journals, crashes>>

\* The call succeeded, and the row says so; it keeps the answer it submitted.
succeeded(relay) ==
  LET r == Thread(relay).request IN
  /\ Thread(relay).pc = "mined" /\ Continues(relay)
  /\ rows' = [rows EXCEPT ![relay][r] =
       [state |-> Becomes([call |-> Thread(relay).call, request |-> r]),
        answered |-> @.answered \/ Thread(relay).call = "fulfill", attempts |-> @.attempts]]
  /\ UNCHANGED <<chainVars, sent, journals, crashes>>

\* What is in the database and on its way to the chain survives.
crash(relay) ==
  /\ crashes < MaxCrashes /\ crashes' = crashes + 1 /\ Thread(relay).pc # "idle"
  /\ threads' = [threads EXCEPT ![relay] = Idle] /\ UNCHANGED <<chainVars, sent, rows, journals>>

-----------------------------------------------------------------------------
(* The Provider *)

\* handle_onchain: a request that is open on the chain, and was not executed before.
handle_onchain(relay) ==
  LET r == Thread(relay).request
      p == Thread(relay).provider
  IN /\ Thread(relay).pc = "asks"
     /\ \/ /\ state[r] = "open" /\ now <= deadline[r] /\ journals[p][r].execution = "none"
           /\ journals' = [journals EXCEPT ![p][r] = [execution |-> "running", relay |-> relay]] /\ Goes(relay, "asked")
        \/ /\ (state[r] # "open" \/ now > deadline[r] \/ journals[p][r].execution = "running")
           /\ Continues(relay) /\ UNCHANGED journals
        \/ /\ state[r] = "open" /\ now <= deadline[r] /\ journals[p][r].execution = "completed"
           /\ Goes(relay, "asked") /\ UNCHANGED journals
     /\ UNCHANGED <<chainVars, sent, rows, crashes>>

execute(p, r) ==
  /\ journals[p][r].execution = "running" /\ journals' = [journals EXCEPT ![p][r].execution = "completed"]
  /\ UNCHANGED <<chainVars, sent, rows, threads, crashes>>

\* The link fails, or the Provider is full, or its backend fails: the dispatcher goes on, and the journal says for
\* ever that the request runs.
unanswered(relay) ==
  /\ Continues(relay)
  /\ \/ "link" \in Faults /\ Thread(relay).pc \in {"asks", "asked"}
     \/ "backend" \in Faults /\ Thread(relay).pc = "asked"
        /\ journals[Thread(relay).provider][Thread(relay).request].execution = "running"
  /\ UNCHANGED <<chainVars, sent, rows, journals, crashes>>

\* The answer names the Relay it was made for; any other rejects it.
answer(relay) ==
  LET r == Thread(relay).request
      job == journals[Thread(relay).provider][r]
  IN /\ Thread(relay).pc = "asked" /\ job.execution = "completed"
     /\ IF job.relay = relay THEN Submits(relay, r, "fulfill") ELSE Continues(relay)
     /\ UNCHANGED <<chainVars, sent, rows, journals, crashes>>

-----------------------------------------------------------------------------
Dispatcher(relay) ==
  \/ cycle(relay) \/ ends(relay) \/ send(relay) \/ wait(relay) \/ succeeded(relay) \/ crash(relay)
  \/ \E r \in Requests : serve(relay, r) \/ deliver(relay, r)
Answering(relay) == handle_onchain(relay) \/ unanswered(relay) \/ answer(relay)

Next ==
  \/ \E relay \in Relays : Dispatcher(relay) \/ Answering(relay) \/ mine(relay)
  \/ \E r \in Requests : request(r) \/ settles(r) \/ (\E p \in Providers : execute(p, r))
  \/ tick

Init ==
  /\ now = 0 /\ crashes = 0
  /\ state = [r \in Requests |-> "none"] /\ deadline = [r \in Requests |-> 0] /\ escrow = [r \in Requests |-> "none"]
  /\ sent = [relay \in Relays |-> <<>>] /\ threads = [relay \in Relays |-> Idle]
  /\ rows = [relay \in Relays |-> [r \in Requests |-> NoRow]]
  /\ journals = [p \in Providers |-> [r \in Requests |-> Unexecuted]]

Spec == Init /\ [][Next]_vars

-----------------------------------------------------------------------------
\* What a Relay has written down of a request is so, whichever Relay brought it about, and whatever was lost, late or
\* done twice: an answered request was answered, a delivered one delivered, an expired one returned its reservation, and
\* one it holds for fraudulent was judged so and is not delivered.  A row that is none of the first two is never
\* looked at again (onchain.py:74-76), so a false one would leave the requester without its answer, or its deposit.
RowsTrue ==
  \A relay \in Relays, r \in Requests :
    LET row == rows[relay][r].state IN
    /\ row = "answered" => state[r] \in {"answered", "delivered"}
    /\ row \in {"delivered", "expired"} => state[r] = row
    /\ row = "fraud" => escrow[r] = "confirmed" /\ state[r] = "answered"

\* A row that is answered can be delivered by its Relay (onchain.py:5-6: "It also hands over answers that wait for the
\* dispute window").  It does not hold: see the README.
AnswersKept == \A relay \in Relays, r \in Requests : rows[relay][r].state = "answered" => rows[relay][r].answered
=============================================================================
