----------------------------- MODULE CodexPool -----------------------------
(***************************************************************************)
(* The resident app-servers of the Codex backend (_SharedServer, _acquire, *)
(* _release, _add_spare and _resident_turn of mycomesh/provider/codex.py). *)
(*                                                                         *)
(* Request threads share a few processes.  A process has a thread of its   *)
(* own that routes what it writes to whoever waits for it, and is the      *)
(* first to see it end.  An action is what a thread does under a lock.     *)
(***************************************************************************)
EXTENDS Integers, FiniteSets, Sequences

CONSTANTS
  Callers,
  max_concurrent, threads_per_server, recycle_after,
  PoolFaults, \* "process": it ends by itself; "wrapper": the wrapper that started it does, alone; "garbage": it writes
              \* what its reader cannot read; "start": it does not start; "timeout": a reply or the end of a turn takes
              \* too long
  MaxServers, \* bound: processes ever started
  MaxFaults   \* bound

\* There are finitely many request threads; a process has room for a turn, and serves one (codex.py:357-360).
ASSUME PoolAssumption == IsFiniteSet(Callers) /\ {threads_per_server, recycle_after} \subseteq Nat \ {0}

VARIABLES
  servers,  \* every process started, in order
  pool,     \* _pool
  spares,   \* threads about to start a spare
  callers,  \* per request thread: where it is, its server, and what is in its two queues: a reply or an error, and the
            \* end of its turn or of the process, which it answers alike
  faults

poolVars == <<servers, pool, spares, callers, faults>>
Processes == DOMAIN servers

\* up: the app-server runs; wrapper: poll() is None; route: its reader reads, has ended, has told everyone; pending,
\* threads: who waits for a reply, who is subscribed; holder: who will put a new process in the pool, or close it.
Started(holder, active) ==
  [up |-> TRUE, wrapper |-> TRUE, route |-> "reads", active |-> active, served |-> active, pending |-> {},
   threads |-> {}, holder |-> holder]
NoCaller == [pc |-> "idle", server |-> 0, call |-> "none", reply |-> "none", inbox |-> "none"]

At(c, pc) == callers[c].pc = pc
Of(c) == callers[c].server
Holders(s) == {c \in Callers : callers[c].server = s}
Dead(s) == servers[s].route # "reads"
Gone(s) == Dead(s) \/ ~servers[s].wrapper
Fault(f) == f \in PoolFaults /\ faults < MaxFaults /\ faults' = faults + 1

-----------------------------------------------------------------------------
(* The pool *)

Usable(s) == servers[s].served < recycle_after /\ servers[s].active < threads_per_server

\* Those that are gone leave the pool; a busy one is closed by its last turn.
Swept(s) == s \in pool /\ Gone(s) /\ servers[s].active = 0
\* Mutant: a process that leaves the pool is not closed.
Closing_none(known) == [s \in Processes |-> servers[s]]

Closing(known) == [s \in Processes |-> IF known[s] THEN [servers[s] EXCEPT !.holder = "closer"] ELSE servers[s]]

\* A spare is started when the only process has begun its last turn.
SparesFor(served, in_pool) == IF served = recycle_after /\ in_pool = 1 THEN spares + 1 ELSE spares

\* _acquire, by a request that has one of the slots.  A process that does not start fails the request.
acquire(c) ==
  LET swept == Closing([s \in Processes |-> Swept(s)])
      left == {s \in pool : ~Gone(s)}
      open == {s \in left : Usable(s)}
      new == Len(servers) + 1
      Takes(s) == callers' = [callers EXCEPT ![c] = [NoCaller EXCEPT !.pc = "call", !.call = "thread/start", !.server = s]]
  IN /\ At(c, "idle") /\ Cardinality({d \in Callers : ~At(d, "idle")}) < max_concurrent
     /\ \/ \E s \in open :
             /\ \A t \in open : servers[s].active <= servers[t].active
             /\ servers' = [swept EXCEPT ![s].active = @ + 1, ![s].served = @ + 1]
             /\ pool' = left /\ spares' = SparesFor(servers[s].served + 1, Cardinality(left))
             /\ Takes(s) /\ UNCHANGED faults
        \/ /\ open = {} /\ new <= MaxServers
           /\ servers' = Append(swept, Started("none", 1))
           /\ pool' = left \cup {new} /\ spares' = SparesFor(1, Cardinality(left) + 1)
           /\ Takes(new) /\ UNCHANGED faults
        \/ /\ open = {} /\ Fault("start")
           /\ servers' = swept /\ pool' = left /\ UNCHANGED <<spares, callers>>

\* _add_spare: the process is started first, and joins the pool when it has answered.
start_spare ==
  /\ spares > 0 /\ spares' = spares - 1 /\ UNCHANGED <<pool, callers>>
  /\ \/ Len(servers) < MaxServers /\ servers' = Append(servers, Started("spare", 0)) /\ UNCHANGED faults
     \/ Fault("start") /\ UNCHANGED servers

add_spare(s) ==
  /\ servers[s].holder = "spare" /\ servers' = [servers EXCEPT ![s].holder = "none"]
  /\ pool' = pool \cup {s} /\ UNCHANGED <<spares, callers, faults>>

\* Mutant: a process that has served its number is retired under its other turns.
retired_early(s) == Dead(s) \/ servers[s].served >= recycle_after

\* Whether the turn that ends is the last of a process that is dead or has served its number.
retired(s) == servers[s].active = 1 /\ (Dead(s) \/ servers[s].served >= recycle_after)

\* _release.
release(c) ==
  LET s == Of(c) IN
  /\ At(c, "release") /\ callers' = [callers EXCEPT ![c] = NoCaller]
  /\ servers' = [servers EXCEPT ![s].active = @ - 1, ![s].holder = IF retired(s) THEN "closer" ELSE @]
  /\ pool' = IF retired(s) THEN pool \ {s} ELSE pool
  /\ UNCHANGED <<spares, faults>>

\* close: the whole session is killed, the wrapper's children included.
close(s) ==
  /\ servers[s].holder = "closer"
  /\ servers' = [servers EXCEPT ![s].holder = "none", ![s].up = FALSE, ![s].wrapper = FALSE]
  /\ UNCHANGED <<pool, spares, callers, faults>>

-----------------------------------------------------------------------------
(* Calls *)

Moves(c, pc) == callers' = [callers EXCEPT ![c].pc = pc]

\* Mutant: whether it is dead is not looked at under the lock.
call_unchecked(c) ==
  /\ At(c, "call")
  /\ servers' = [servers EXCEPT ![Of(c)].pending = @ \cup {c}]
  /\ callers' = [callers EXCEPT ![c].pc = "wait", ![c].reply = "none"]
  /\ UNCHANGED <<pool, spares, faults>>

\* Refused if the process is known to be dead; else registered and sent, under one lock.  Writing to a process that
\* has ended fails.
call(c) ==
  /\ At(c, "call")
  /\ \/ /\ ~Dead(Of(c)) /\ servers' = [servers EXCEPT ![Of(c)].pending = @ \cup {c}]
        /\ \/ callers' = [callers EXCEPT ![c].pc = "wait", ![c].reply = "none"]
           \/ ~servers[Of(c)].up /\ Moves(c, "leave")
     \/ Dead(Of(c)) /\ Moves(c, "leave") /\ UNCHANGED servers
  /\ UNCHANGED <<pool, spares, faults>>

\* The reply: a thread is subscribed to; its history is put in; the turn has started.
replied(c) ==
  /\ At(c, "wait") /\ callers[c].reply = "reply" /\ UNCHANGED <<pool, spares, faults>>
  /\ \/ /\ callers[c].call = "thread/start"
        /\ servers' = [servers EXCEPT ![Of(c)].threads = @ \cup {c}]
        /\ \E next \in {"thread/inject_items", "turn/start"} :
             callers' = [callers EXCEPT ![c].pc = "call", ![c].call = next, ![c].reply = "none"]
     \/ /\ callers[c].call = "thread/inject_items" /\ UNCHANGED servers
        /\ callers' = [callers EXCEPT ![c].pc = "call", ![c].call = "turn/start", ![c].reply = "none"]
     \/ /\ callers[c].call = "turn/start" /\ UNCHANGED servers
        /\ callers' = [callers EXCEPT ![c].pc = "collect", ![c].reply = "none"]

\* An error, the end of the process, or no reply in time.
failed(c) ==
  /\ At(c, "wait") /\ Moves(c, "leave") /\ UNCHANGED <<pool, spares>>
  /\ \/ callers[c].reply = "error" /\ UNCHANGED <<servers, faults>>
     \/ /\ callers[c].reply = "none" /\ Fault("timeout")
        /\ servers' = [servers EXCEPT ![Of(c)].pending = @ \ {c}]

\* _collect: the turn's end, whole or failed; the process's end; or no end in time.
collected(c) ==
  /\ At(c, "collect") /\ UNCHANGED <<servers, pool, spares>>
  /\ \/ callers[c].inbox = "end" /\ UNCHANGED faults
     \/ callers[c].inbox = "none" /\ Fault("timeout")
  /\ Moves(c, "leave")

\* The thread is unsubscribed from.  A turn that has not ended is interrupted first, and no reply to that is waited for.
leave(c) ==
  /\ At(c, "leave") /\ Moves(c, "release")
  /\ servers' = [servers EXCEPT ![Of(c)].threads = @ \ {c}]
  /\ UNCHANGED <<pool, spares, faults>>

-----------------------------------------------------------------------------
(* What a process writes, and its reader *)

\* A reply, to the one that waits for it, if it still does.
routes_reply(s, c) ==
  /\ servers[s].up /\ servers[s].route = "reads" /\ c \in servers[s].pending
  /\ servers' = [servers EXCEPT ![s].pending = @ \ {c}]
  /\ \E reply \in {"reply", "error"} : callers' = [callers EXCEPT ![c].reply = reply]
  /\ UNCHANGED <<pool, spares, faults>>

\* The end of a turn, which may come before the caller has read the reply to turn/start.
routes_end(s, c) ==
  /\ servers[s].up /\ servers[s].route = "reads" /\ c \in servers[s].threads
  /\ callers[c].call = "turn/start" /\ (At(c, "collect") \/ callers[c].reply = "reply") /\ callers[c].inbox = "none"
  /\ callers' = [callers EXCEPT ![c].inbox = "end"]
  /\ UNCHANGED <<servers, pool, spares, faults>>

\* The end of its output is seen once nothing holds it open; or there is garbage on it, or a line that is too long, and
\* the process runs on.  It is dead then, and next everyone who waits is told.
reads_end(s) ==
  /\ servers[s].route = "reads" /\ servers' = [servers EXCEPT ![s].route = "ended"]
  /\ (~servers[s].up /\ UNCHANGED faults) \/ (servers[s].up /\ Fault("garbage"))
  /\ UNCHANGED <<pool, spares, callers>>
tells(s) ==
  /\ servers[s].route = "ended" /\ servers' = [servers EXCEPT ![s].route = "told", ![s].pending = {}]
  /\ callers' = [c \in Callers |->
       [callers[c] EXCEPT !.reply = IF c \in servers[s].pending \cap Holders(s) THEN "error" ELSE @,
                          !.inbox = IF c \in servers[s].threads THEN "end" ELSE @]]
  /\ UNCHANGED <<pool, spares, faults>>

process_ends(s) ==
  /\ servers[s].up /\ Fault("process") /\ servers' = [servers EXCEPT ![s].up = FALSE, ![s].wrapper = FALSE]
  /\ UNCHANGED <<pool, spares, callers>>
wrapper_ends(s) ==
  /\ servers[s].up /\ servers[s].wrapper /\ Fault("wrapper") /\ servers' = [servers EXCEPT ![s].wrapper = FALSE]
  /\ UNCHANGED <<pool, spares, callers>>

Turn(c) == acquire(c) \/ call(c) \/ replied(c) \/ failed(c) \/ collected(c) \/ leave(c) \/ release(c)
Process(s) == add_spare(s) \/ close(s) \/ reads_end(s) \/ tells(s) \/ process_ends(s) \/ wrapper_ends(s)

PoolNext ==
  \/ \E c \in Callers : Turn(c)
  \/ start_spare
  \/ \E s \in Processes : Process(s) \/ (\E c \in Callers : routes_reply(s, c) \/ routes_end(s, c))

PoolInit == servers = <<>> /\ pool = {} /\ spares = 0 /\ callers = [c \in Callers |-> NoCaller] /\ faults = 0

PoolSpec == PoolInit /\ [][PoolNext]_poolVars

-----------------------------------------------------------------------------
\* Nobody waits for a process whose reader has ended: whoever does was told, or was refused (codex.py:238-239: "a dead
\* process fails every caller").
NobodyWaits ==
  \A c \in Callers :
    (~At(c, "idle") /\ servers[Of(c)].route = "told") =>
      /\ At(c, "wait") => callers[c].reply # "none"
      /\ At(c, "collect") => callers[c].inbox # "none"

\* A process that runs can be found, whatever its reader has read: it is in the pool, or has turns, or is about to join
\* the pool or to be closed.  One that is none of these would run, and keep its memory, until the Provider ends.  Of one
\* whose wrapper ended before it nothing is said: the code may lose it (codex.py:441-444, 468-469).
NoneLost ==
  \A s \in Processes :
    servers[s].up /\ servers[s].wrapper => s \in pool \/ servers[s].active > 0 \/ servers[s].holder # "none"

\* What a process is said to do is what its callers do: none is retired under a turn, or kept by turns that ended; and
\* it never has more turns than its threads, or serves more than its number.
ActiveExact ==
  \A s \in Processes :
    /\ servers[s].active = Cardinality(Holders(s))
    /\ servers[s].active <= threads_per_server /\ servers[s].served <= recycle_after
    /\ Holders(s) # {} => servers[s].holder # "closer"
=============================================================================
