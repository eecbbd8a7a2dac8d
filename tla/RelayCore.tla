----------------------------- MODULE RelayCore -----------------------------
(***************************************************************************)
(* A Relay's requests, from admission to the queued receipt                *)
(* (mycomesh/relay/core.py: RelayCore), together with its queue.           *)
(*                                                                         *)
(* Every request has a thread of its own.  An action is what a thread does *)
(* between two points where another may run: a critical section of _lock,  *)
(* one chain read, one use of the queue.  Admission submits its reads      *)
(* together and decides on them later, under the lock.                     *)
(***************************************************************************)
EXTENDS RelayQueue

CONSTANTS
  Requests,         \* payloads that reach the Relay
  AuthorizationOf,  \* the authorization in each; two may carry the same
  Capacity,         \* jobs a Provider says it takes at once
  MaxSessions       \* bound: registrations of Providers

ASSUME CoreAssumption ==
  /\ IsFiniteSet(Requests) /\ AuthorizationOf \in [Requests -> Receipts]
  /\ Capacity \in [Providers -> Nat \ {0}] /\ MaxSessions \in Nat

VARIABLES
  sessions,      \* every ProviderSession made: its Provider and in_flight
  providers,     \* the session a Provider is connected by, 0 for none
  suspended,
  outstanding,   \* _outstanding_owner, _outstanding_provider, _outstanding_key
  knownKeys,     \* keys in _key_owner: their owner's balance is read without waiting for the grant
  requests       \* per request, where its thread is and what it has read

coreVars == <<sessions, providers, suspended, outstanding, knownKeys, requests>>
vars == <<qvars, coreVars>>

-----------------------------------------------------------------------------
Pcs == {"new", "found", "reading", "granted", "over", "checked", "admitted", "sent", "answered", "queued",
        "raising", "returning", "done", "gone"}
\* The reads of _admit; Unread is a read whose answer is not there yet.
Unread == -1
Reads == [active: {Unread, 0, 1}, balance: Nat \cup {Unread}, exposure: Nat \cup {Unread},
          limit: Nat \cup {Unread}, spent: Nat \cup {Unread}]
NoReads == [active |-> Unread, balance |-> Unread, exposure |-> Unread, limit |-> Unread, spent |-> Unread]
Request == [pc: Pcs, session: Nat, hinted: BOOLEAN, reads: Reads, fee: Nat]
NewRequest == [pc |-> "new", session |-> 0, hinted |-> FALSE, reads |-> NoReads, fee |-> 0]
Done == [NewRequest EXCEPT !.pc = "done"]

Auth(t) == AuthorizationOf[t]
Key(t) == KeyOf[Auth(t)]
Owner(t) == OwnerOf[Key(t)]
Provider(t) == ProviderOf[Auth(t)]
Fee(t) == MaxFee[Auth(t)]
At(t, pc) == requests[t].pc = pc
\* Between the first read and the decision.
Reading(t) == requests[t].pc \in {"reading", "granted"}
Goto(t, pc) == requests' = [requests EXCEPT ![t].pc = pc]
HasRead(t, value) == requests[t].reads[value] # Unread
Learn(t, value, answer) == requests' = [requests EXCEPT ![t].reads[value] = answer]

-----------------------------------------------------------------------------
(* Providers *)

register_provider(p) ==
  /\ Len(sessions) < MaxSessions
  /\ sessions' = Append(sessions, [provider |-> p, in_flight |-> 0])
  /\ providers' = [providers EXCEPT ![p] = Len(sessions) + 1]
  /\ UNCHANGED <<suspended, outstanding, knownKeys, requests, qvars>>

unregister_provider(p) ==
  /\ providers[p] # 0
  /\ providers' = [providers EXCEPT ![p] = 0]
  /\ UNCHANGED <<sessions, suspended, outstanding, knownKeys, requests, qvars>>

suspend(p) ==
  /\ p \notin suspended /\ suspended' = suspended \cup {p}
  /\ UNCHANGED <<sessions, providers, outstanding, knownKeys, requests, qvars>>

-----------------------------------------------------------------------------
(* prepare: a place at the Provider, then the reads *)

find(t) ==
  /\ At(t, "new")
  /\ LET p == Provider(t) IN
     requests' = IF providers[p] = 0 \/ p \in suspended
                   THEN [requests EXCEPT ![t] = Done]
                   ELSE [requests EXCEPT ![t].pc = "found", ![t].session = providers[p]]
  /\ UNCHANGED <<sessions, providers, suspended, outstanding, knownKeys, qvars>>

Busy(s) == sessions[s].in_flight >= Capacity[sessions[s].provider]

reserve(t) ==
  /\ At(t, "found")
  /\ LET s == requests[t].session IN
     IF Busy(s) THEN requests' = [requests EXCEPT ![t] = Done] /\ UNCHANGED sessions
     ELSE /\ requests' = [requests EXCEPT ![t].pc = "reading", ![t].hinted = Key(t) \in knownKeys]
             /\ sessions' = [sessions EXCEPT ![s].in_flight = @ + 1]
  /\ UNCHANGED <<providers, suspended, outstanding, knownKeys, qvars>>

readGrant(t) ==
  /\ At(t, "reading") /\ ~HasRead(t, "active")
  /\ Learn(t, "active", IF Key(t) \in chain.active THEN 1 ELSE 0)
  /\ UNCHANGED <<sessions, providers, suspended, outstanding, knownKeys, qvars>>

readBalance(t) ==
  /\ Reading(t) /\ ~HasRead(t, "balance")
  /\ requests[t].hinted \/ At(t, "granted")
  /\ Learn(t, "balance", chain.balance[Owner(t)])
  /\ UNCHANGED <<sessions, providers, suspended, outstanding, knownKeys, qvars>>

readExposure(t) ==
  /\ Reading(t) /\ ~HasRead(t, "exposure")
  /\ Learn(t, "exposure", chain.exposure[Provider(t)])
  /\ UNCHANGED <<sessions, providers, suspended, outstanding, knownKeys, qvars>>

\* A read that fails is taken for a settlement without budgets.
readBudget(t) ==
  /\ Reading(t) /\ ~HasRead(t, "spent")
  /\ \E limit \in {Limit[Key(t)]} \cup (IF "rpc" \in Faults THEN {0} ELSE {}) :
       requests' = [requests EXCEPT ![t].reads.limit = limit,
                                    ![t].reads.spent = IF limit = 0 THEN 0 ELSE chain.spent[Key(t)]]
  /\ UNCHANGED <<sessions, providers, suspended, outstanding, knownKeys, qvars>>

\* Any other read that fails ends the request.
readFails(t) ==
  /\ "rpc" \in Faults
  /\ \/ Reading(t) /\ \E value \in {"active", "balance", "exposure"} : ~HasRead(t, value)
     \/ At(t, "over") /\ settleLock = NoOne
  /\ Goto(t, "raising")
  /\ UNCHANGED <<sessions, providers, suspended, outstanding, knownKeys, qvars>>

-----------------------------------------------------------------------------
(* _admit: the decision *)

useGrant(t) ==
  /\ At(t, "reading") /\ HasRead(t, "active")
  /\ IF requests[t].reads.active = 0 THEN Goto(t, "raising") /\ UNCHANGED knownKeys
     ELSE Goto(t, "granted") /\ knownKeys' = knownKeys \cup {Key(t)}
  /\ UNCHANGED <<sessions, providers, suspended, outstanding, qvars>>

\* Mutant: the rows of the wrong state are summed.
unsettled_fees_settled(S) == FeesOf(S \cap InState("settled"))

unsettled_fees(S) == FeesOf(S \cap InState("queued"))
OverBudget(t) ==
  /\ requests[t].reads.limit # 0
  /\ requests[t].reads.spent + outstanding.key[Key(t)] + unsettled_fees(OfKey(Receipts, Key(t))) + Fee(t)
       > requests[t].reads.limit

checkBudget(t) ==
  /\ At(t, "granted")
  /\ \A value \in DOMAIN NoReads : HasRead(t, value)
  /\ Goto(t, IF OverBudget(t) THEN "over" ELSE "checked")
  /\ UNCHANGED <<sessions, providers, suspended, outstanding, knownKeys, qvars>>

Reread(t) ==
  [requests EXCEPT ![t].pc = "checked", ![t].reads.limit = Limit[Key(t)], ![t].reads.spent = chain.spent[Key(t)]]

\* "A settlement may be landing right now": over budget, the request waits for _settle_lock and reads again.
recount(t) ==
  /\ At(t, "over") /\ settleLock = NoOne
  /\ requests' = Reread(t)
  /\ UNCHANGED <<sessions, providers, suspended, outstanding, knownKeys, qvars>>

OverDeposit(t) ==
  outstanding.owner[Owner(t)] + unsettled_fees(OfOwner(Receipts, Owner(t))) + Fee(t) > requests[t].reads.balance
OverExposure(t) ==
  requests[t].reads.exposure + outstanding.provider[Provider(t)] + unsettled_fees(OfProvider(Receipts, Provider(t))) + Fee(t)
    > Cap[Provider(t)]

Owes(t, amount) ==
  outstanding' = [key      |-> [outstanding.key EXCEPT ![Key(t)] = IF @ + amount < 0 THEN 0 ELSE @ + amount],
                  owner    |-> [outstanding.owner EXCEPT ![Owner(t)] = IF @ + amount < 0 THEN 0 ELSE @ + amount],
                  provider |-> [outstanding.provider EXCEPT ![Provider(t)] = IF @ + amount < 0 THEN 0 ELSE @ + amount]]

admit(t) ==
  /\ At(t, "checked")
  /\ IF OverBudget(t) \/ OverDeposit(t) \/ OverExposure(t) THEN Goto(t, "raising") /\ UNCHANGED outstanding
     ELSE /\ requests' = [requests EXCEPT ![t].pc = "admitted", ![t].reads = NoReads]
          /\ Owes(t, Fee(t))
  /\ UNCHANGED <<sessions, providers, suspended, knownKeys, qvars>>

-----------------------------------------------------------------------------
(* dispatch *)

\* RelayServer._stream writes the response's headers before it dispatches: a client that went away ends it there.
send(t) ==
  /\ At(t, "admitted")
  /\ \E pc \in {"sent"} \cup (IF "client" \in Faults THEN {"gone"} ELSE {}) : Goto(t, pc)
  /\ UNCHANGED <<sessions, providers, suspended, outstanding, knownKeys, qvars>>

\* Mutant: a send that fails skips the `finally'.
answer_failureReturns(t) ==
  /\ At(t, "sent")
  /\ \/ \E fee \in 1 .. Fee(t) : requests' = [requests EXCEPT ![t].pc = "answered", ![t].fee = fee]
     \/ Goto(t, "returning")
  /\ UNCHANGED <<sessions, providers, suspended, outstanding, knownKeys, qvars>>

\* The Provider answers with a receipt, or the send fails, or the receipt is not valid.
answer(t) ==
  /\ At(t, "sent")
  /\ \/ \E fee \in 1 .. Fee(t) : requests' = [requests EXCEPT ![t].pc = "answered", ![t].fee = fee]
     \/ Goto(t, "queued")
  /\ UNCHANGED <<sessions, providers, suspended, outstanding, knownKeys, qvars>>

queueReceipt(t) ==
  /\ At(t, "answered")
  /\ add(Auth(t), requests[t].fee)
  /\ Goto(t, "queued")
  /\ UNCHANGED <<sessions, providers, suspended, outstanding, knownKeys, settleLock, workers, chainVars, crashes>>

release(t) ==
  /\ At(t, "queued")
  /\ Owes(t, -Fee(t))
  /\ Goto(t, "returning")
  /\ UNCHANGED <<sessions, providers, suspended, knownKeys, qvars>>

\* Mutant: the place is given back to the session its Provider has now.
giveBack_currentSession(t) ==
  /\ requests[t].pc \in {"raising", "returning"}
  /\ LET s == providers[Provider(t)] IN
     sessions' = IF s = 0 THEN sessions ELSE [sessions EXCEPT ![s].in_flight = @ - 1]
  /\ requests' = [requests EXCEPT ![t] = Done]
  /\ UNCHANGED <<providers, suspended, outstanding, knownKeys, qvars>>

\* The place at the Provider is free again, whether the request was dispatched or refused.
giveBack(t) ==
  /\ requests[t].pc \in {"raising", "returning"}
  /\ sessions' = [sessions EXCEPT ![requests[t].session].in_flight = @ - 1]
  /\ requests' = [requests EXCEPT ![t] = Done]
  /\ UNCHANGED <<providers, suspended, outstanding, knownKeys, qvars>>

-----------------------------------------------------------------------------
Nothing == [key |-> [k \in Keys |-> 0], owner |-> [o \in Owners |-> 0], provider |-> [p \in Providers |-> 0]]

\* The process ends; its database and the chain do not.
Crash ==
  /\ StopWorkers
  /\ sessions' = [s \in DOMAIN sessions |-> [sessions[s] EXCEPT !.in_flight = 0]]
  /\ providers' = [p \in Providers |-> 0] /\ suspended' = {}
  /\ outstanding' = Nothing /\ knownKeys' = {}
  /\ requests' = [t \in Requests |-> IF At(t, "new") THEN NewRequest ELSE Done]

Serve(t) ==
  \/ find(t) \/ reserve(t)
  \/ readGrant(t) \/ readBalance(t) \/ readExposure(t) \/ readBudget(t) \/ readFails(t)
  \/ useGrant(t) \/ checkBudget(t) \/ recount(t) \/ admit(t)
  \/ send(t) \/ answer(t) \/ queueReceipt(t) \/ release(t) \/ giveBack(t)

Init ==
  /\ QueueInit
  /\ sessions = <<>> /\ providers = [p \in Providers |-> 0] /\ suspended = {}
  /\ outstanding = Nothing /\ knownKeys = {}
  /\ requests = [t \in Requests |-> NewRequest]

Run ==
  \/ \E p \in Providers : register_provider(p) \/ unregister_provider(p) \/ suspend(p)
  \/ \E t \in Requests : Serve(t)
  \/ (\E w \in Settlers : Work(w)) /\ UNCHANGED coreVars
  \/ Environment /\ UNCHANGED coreVars

Next == Run \/ Crash

Spec == Init /\ [][Next]_vars

-----------------------------------------------------------------------------
Holding == {"reading", "granted", "over", "checked", "admitted", "sent", "answered", "queued", "raising", "returning"}
Admitted == {"admitted", "sent", "answered", "queued"}
InPc(pcs) == {t \in Requests : requests[t].pc \in pcs}

\* in_flight counts the requests under way (core.py:52), on every path out of a request, also after its
\* Provider registered again and its session was replaced.
InFlightExact ==
  \A s \in DOMAIN sessions :
    sessions[s].in_flight = Cardinality({t \in InPc(Holding) : requests[t].session = s})

\* What the requests in T may cost.
FeesIn(T) == SumFunctionOnSet([t \in Requests |-> Fee(t)], T)

\* Until a receipt is in the queue its request is counted in full for its key, its owner and its Provider: at
\* no moment between dispatch and settlement does admission overlook it.
LoadCounted ==
  /\ \A k \in Keys : outstanding.key[k] = FeesIn({t \in InPc(Admitted) : Key(t) = k})
  /\ \A o \in Owners : outstanding.owner[o] = FeesIn({t \in InPc(Admitted) : Owner(t) = o})
  /\ \A p \in Providers : outstanding.provider[p] = FeesIn({t \in InPc(Admitted) : Provider(t) = p})
  /\ \A t \in InPc({"queued"}) : requests[t].fee # 0 => rows[Auth(t)].state # "none"

\* What is queued and has not been charged on the chain.
Uncharged(S) == FeesOf({r \in S \cap InState("queued") : chain.status[r] \in {"none", "lapsed"}})

=============================================================================
