--------------------------- MODULE ProviderProofs ---------------------------
(***************************************************************************)
(* Proofs about what is on a Provider's side.  OnchainRequests, for any    *)
(* number of requests, Relays, Providers, transactions and crashes: what a *)
(* Relay's rows say is so.  CodexPool, for any number of request threads,  *)
(* slots, processes and faults: a process has the turns it is said to      *)
(* have, one that runs can be found, and nobody waits for one that has     *)
(* ended.  Backends, for any conversation, any number of blocks and        *)
(* pieces, and streams that are cut, lose deltas or interleave: what was   *)
(* streamed is the answer, the answer is what the model said, and the      *)
(* request is what the client said, with results next to their calls.      *)
(***************************************************************************)
EXTENDS OnchainRequests, CodexPool, Backends, FiniteSetTheorems, SequenceTheorems, TLAPS

-----------------------------------------------------------------------------
(* Requests made on the chain *)

States == {"none", "open", "answered", "delivered", "expired"}
Escrows == {"none", "pending", "disputed", "confirmed", "dismissed", "timed_out", "jury_unavailable", "released"}
Calls == {"fulfill", "expire", "deliver"}
Transactions == [call : Calls, request : Requests]
Rows == [state : States \cup {"fraud"}, answered : BOOLEAN, attempts : 0 .. (Len(Sessions) - 1)]
Pcs == {"idle", "next", "asks", "asked", "sends", "waits", "mined"}
Threads ==
  [pc : Pcs, todo : SUBSET Requests, block_time : Int, request : Requests \cup {"none"}, call : Calls \cup {"none"},
   provider : Providers \cup {"none"}]

\* What the proof needs to know of the types.
Typed ==
  /\ now \in Int
  /\ state \in [Requests -> States] /\ escrow \in [Requests -> Escrows]
  /\ sent \in [Relays -> Seq(Transactions)]
  /\ rows \in [Relays -> [Requests -> Rows]]
  /\ threads \in [Relays -> Threads]

\* An answer that waits is delivered after its escrow was released, and one that does not is never just answered.
ChainTrue ==
  \A r \in Requests :
    /\ r \in Immediate => state[r] # "answered"
    /\ r \notin Immediate /\ state[r] = "delivered" => escrow[r] \in Released

\* No row of a request that wants its answer at once says that it waits.
Waiting == \A relay \in Relays, r \in Requests : rows[relay][r].state = "answered" => r \notin Immediate

\* What a call that was mined has brought about, and still is.
Brought(what, r) ==
  /\ what = "fulfill" => state[r] = "delivered" \/ (state[r] = "answered" /\ r \notin Immediate)
  /\ what = "expire" => state[r] = "expired"
  /\ what = "deliver" => state[r] = "delivered"

\* A thread that submits knows what; one that waits waits for its last transaction.
ThreadTrue(relay) ==
  LET t == threads[relay] IN
  /\ t.pc \in {"asks", "asked", "sends", "waits", "mined"} => t.request \in Requests
  /\ t.pc \in {"sends", "waits", "mined"} => t.call \in Calls
  /\ t.pc = "waits" =>
       sent[relay] # <<>> /\ sent[relay][Len(sent[relay])] = [call |-> t.call, request |-> t.request]
  /\ t.pc = "mined" => Brought(t.call, t.request)
ThreadsTrue == \A relay \in Relays : ThreadTrue(relay)

OnchainInv == Typed /\ ChainTrue /\ Waiting /\ RowsTrue /\ ThreadsTrue

-----------------------------------------------------------------------------
LEMMA InitInv == Init => OnchainInv
<1> SUFFICES ASSUME Init PROVE OnchainInv
  OBVIOUS
<1> USE DEF Init
<1>0. Len(Sessions) \in Nat \ {0}
  BY OnchainAssumption
<1>1. Typed
  BY <1>0 DEF Typed, States, Escrows, Transactions, Rows, Threads, Pcs, NoRow, Idle
<1>2. ChainTrue /\ Waiting /\ RowsTrue
  BY DEF ChainTrue, Waiting, RowsTrue, NoRow
<1>3. ThreadsTrue
  BY DEF ThreadsTrue, ThreadTrue, Idle
<1> QED
  BY <1>1, <1>2, <1>3 DEF OnchainInv

LEMMA Appended ==
  ASSUME NEW S, NEW s \in Seq(S), NEW e \in S
  PROVE  Append(s, e) \in Seq(S) /\ Append(s, e) # <<>> /\ Append(s, e)[Len(Append(s, e))] = e
<1>1. Append(s, e) \in Seq(S) /\ Append(s, e) # <<>> /\ Len(Append(s, e)) = Len(s) + 1 /\ Append(s, e)[Len(s) + 1] = e
  BY AppendProperties
<1> QED
  BY <1>1

LEMMA Taken ==
  ASSUME NEW S, NEW s \in Seq(S), s # <<>>
  PROVE  /\ Head(s) \in S /\ Tail(s) \in Seq(S)
         /\ Len(s) = 1 => Head(s) = s[Len(s)]
         /\ Len(s) # 1 => Tail(s) # <<>> /\ Tail(s)[Len(Tail(s))] = s[Len(s)]
<1>1. /\ Head(s) \in S /\ Tail(s) \in Seq(S) /\ Len(Tail(s)) = Len(s) - 1
      /\ \A i \in 1 .. Len(Tail(s)) : Tail(s)[i] = s[i + 1]
  BY HeadTailProperties
<1>2. Len(s) \in Nat \ {0} /\ Head(s) = s[1]
  BY EmptySeq
<1>3. ASSUME Len(s) # 1 PROVE Tail(s) # <<>> /\ Tail(s)[Len(Tail(s))] = s[Len(s)]
  <2>1. Len(Tail(s)) \in 1 .. Len(Tail(s))
    BY <1>1, <1>2, <1>3
  <2>2. Tail(s)[Len(Tail(s))] = s[Len(Tail(s)) + 1]
    BY <1>1, <2>1
  <2> QED
    BY <1>1, <1>2, <2>1, <2>2
<1> QED
  BY <1>1, <1>2, <1>3

\* A step that only moves a thread, to where it claims nothing.
LEMMA OnlyThread ==
  ASSUME OnchainInv, NEW relay \in Relays, NEW t \in Threads, t.pc \in {"idle", "next", "asks", "asked", "sends"},
         t.pc \in {"asks", "asked", "sends"} => t.request \in Requests, t.pc = "sends" => t.call \in Calls,
         threads' = [threads EXCEPT ![relay] = t], now' \in Int, UNCHANGED <<state, escrow, sent, rows>>
  PROVE  OnchainInv'
<1>1. Typed'
  BY DEF OnchainInv, Typed
<1>2. ChainTrue' /\ Waiting' /\ RowsTrue'
  BY DEF OnchainInv, ChainTrue, Waiting, RowsTrue
<1>3. ASSUME NEW other \in Relays PROVE ThreadTrue(other)'
  <2>1. threads \in [Relays -> Threads] /\ ThreadTrue(other)
    BY <1>3 DEF OnchainInv, Typed, ThreadsTrue
  <2>2. CASE other = relay
    BY <2>1, <2>2 DEF ThreadTrue
  <2>3. CASE other # relay
    BY <2>1, <2>3 DEF ThreadTrue, Brought
  <2> QED
    BY <2>2, <2>3
<1> QED
  BY <1>1, <1>2, <1>3 DEF OnchainInv, ThreadsTrue

\* A step that may also write down one row, of what is so.
LEMMA OnlyRow ==
  ASSUME OnchainInv, NEW relay \in Relays, NEW r \in Requests, NEW row \in Rows, NEW t \in Threads,
         t.pc \in {"next", "asks"}, t.pc = "asks" => t.request \in Requests,
         threads' = [threads EXCEPT ![relay] = t],
         rows' = [rows EXCEPT ![relay][r] = row],
         row.state = "answered" => r \notin Immediate /\ state[r] \in {"answered", "delivered"},
         row.state \in {"delivered", "expired"} => state[r] = row.state,
         row.state = "fraud" => escrow[r] = "confirmed" /\ state[r] = "answered",
         UNCHANGED <<now, state, escrow, sent>>
  PROVE  OnchainInv'
<1>0. threads \in [Relays -> Threads] /\ rows \in [Relays -> [Requests -> Rows]]
  BY DEF OnchainInv, Typed
<1>1. Typed'
  BY <1>0 DEF OnchainInv, Typed
<1>2. ChainTrue'
  BY DEF OnchainInv, ChainTrue
<1>3. ASSUME NEW other \in Relays, NEW q \in Requests
      PROVE  /\ rows'[other][q].state = "answered" => q \notin Immediate /\ state'[q] \in {"answered", "delivered"}
             /\ rows'[other][q].state \in {"delivered", "expired"} => state'[q] = rows'[other][q].state
             /\ rows'[other][q].state = "fraud" => escrow'[q] = "confirmed" /\ state'[q] = "answered"
  <2>1. rows'[other][q] = IF other = relay /\ q = r THEN row ELSE rows[other][q]
    BY <1>0, <1>3
  <2> QED
    BY <2>1, <1>3 DEF OnchainInv, Waiting, RowsTrue
<1>4. Waiting' /\ RowsTrue'
  BY <1>3 DEF Waiting, RowsTrue
<1>5. ASSUME NEW other \in Relays PROVE ThreadTrue(other)'
  <2>1. ThreadTrue(other)
    BY <1>5 DEF OnchainInv, ThreadsTrue
  <2>2. CASE other = relay
    BY <1>0, <2>2 DEF ThreadTrue
  <2>3. CASE other # relay
    BY <1>0, <2>1, <2>3 DEF ThreadTrue, Brought
  <2> QED
    BY <2>2, <2>3
<1> QED
  BY <1>1, <1>2, <1>4, <1>5 DEF OnchainInv, ThreadsTrue

LEMMA RestingTyped ==
  ASSUME NEW time \in Int, NEW todo \in SUBSET Requests
  PROVE  Resting(time, todo) \in Threads /\ Resting(time, todo).pc = "next"
<1>1. Resting(time, todo).pc = "next"
  BY DEF Resting
<1>2. Resting(time, todo) \in Threads
  BY Zenon DEF Resting, Threads, Pcs
<1> QED
  BY <1>1, <1>2

LEMMA ThreadTyped ==
  ASSUME OnchainInv, NEW relay \in Relays
  PROVE  /\ threads[relay] \in Threads /\ threads[relay].block_time \in Int /\ threads[relay].todo \in SUBSET Requests
         /\ ThreadTrue(relay)
  BY DEF OnchainInv, Typed, ThreadsTrue, Threads

LEMMA RowTyped ==
  ASSUME OnchainInv, NEW relay \in Relays, NEW r \in Requests
  PROVE  rows[relay][r] \in Rows
  BY DEF OnchainInv, Typed

LEMMA ContinuesInv ==
  ASSUME OnchainInv, NEW relay \in Relays, Continues(relay), UNCHANGED <<now, state, escrow, sent, rows>>
  PROVE  OnchainInv'
<1>1. Resting(threads[relay].block_time, threads[relay].todo) \in Threads
  BY ThreadTyped, RestingTyped
<1>2. Resting(threads[relay].block_time, threads[relay].todo).pc = "next"
  BY ThreadTyped, RestingTyped
<1>3. threads' = [threads EXCEPT ![relay] = Resting(threads[relay].block_time, threads[relay].todo)]
  BY DEF Continues
<1> QED
  BY <1>1, <1>2, <1>3, OnlyThread DEF OnchainInv, Typed

LEMMA DoneInv ==
  ASSUME OnchainInv, NEW relay \in Relays, NEW r \in Requests, Done(relay, r), UNCHANGED <<now, state, escrow, sent, rows>>
  PROVE  OnchainInv'
<1> DEFINE rest == Resting(threads[relay].block_time, threads[relay].todo \ {r})
<1>1. rest \in Threads /\ rest.pc = "next"
  BY ThreadTyped, RestingTyped
<1>2. threads' = [threads EXCEPT ![relay] = rest]
  BY DEF Done
<1> HIDE DEF rest
<1> QED
  BY <1>1, <1>2, OnlyThread DEF OnchainInv, Typed

\* A row is marked with what is so.
LEMMA MarkInv ==
  ASSUME OnchainInv, NEW relay \in Relays, NEW r \in Requests, NEW s \in States \cup {"fraud"},
         mark(relay, r, s), Done(relay, r),
         s = "answered" => r \notin Immediate /\ state[r] \in {"answered", "delivered"},
         s \in {"delivered", "expired"} => state[r] = s,
         s = "fraud" => escrow[r] = "confirmed" /\ state[r] = "answered",
         UNCHANGED <<now, state, escrow, sent>>
  PROVE  OnchainInv'
<1> DEFINE rest == Resting(threads[relay].block_time, threads[relay].todo \ {r})
           row == [rows[relay][r] EXCEPT !.state = s]
<1>1. rest \in Threads /\ rest.pc = "next"
  BY ThreadTyped, RestingTyped
<1>2. threads' = [threads EXCEPT ![relay] = rest]
  BY DEF Done
<1>3. row \in Rows /\ row.state = s
  BY RowTyped DEF Rows
<1>4. rows' = [rows EXCEPT ![relay][r] = row]
  BY DEF mark
<1> HIDE DEF rest, row
<1> QED
  BY <1>1, <1>2, <1>3, <1>4, OnlyRow

LEMMA WorksTyped ==
  ASSUME OnchainInv, NEW relay \in Relays, NEW r \in Requests, NEW pc \in Pcs, NEW what \in Calls \cup {"none"},
         NEW provider \in Providers \cup {"none"}
  PROVE  [pc |-> pc, todo |-> threads[relay].todo \ {r}, block_time |-> threads[relay].block_time, request |-> r,
          call |-> what, provider |-> provider] \in Threads
  BY ThreadTyped DEF Threads

LEMMA SubmitsInv ==
  ASSUME OnchainInv, NEW relay \in Relays, NEW r \in Requests, NEW what \in Calls, Submits(relay, r, what),
         UNCHANGED <<now, state, escrow, sent, rows>>
  PROVE  OnchainInv'
<1> DEFINE t == [pc |-> "sends", todo |-> threads[relay].todo \ {r}, block_time |-> threads[relay].block_time,
                 request |-> r, call |-> what, provider |-> "none"]
<1>1. t \in Threads
  BY WorksTyped DEF Pcs
<1>2. t.pc = "sends" /\ t.request = r /\ t.call = what
  OBVIOUS
<1>3. threads' = [threads EXCEPT ![relay] = t]
  BY DEF Submits, Works, Thread
<1> HIDE DEF t
<1> QED
  BY <1>1, <1>2, <1>3, OnlyThread DEF OnchainInv, Typed

-----------------------------------------------------------------------------
\* What a call becomes is what it has brought about.
LEMMA MinedRow ==
  ASSUME OnchainInv, NEW relay \in Relays, threads[relay].pc = "mined"
  PROVE  LET r == threads[relay].request
             s == Becomes([call |-> threads[relay].call, request |-> r])
         IN /\ r \in Requests /\ s \in {"answered", "delivered", "expired"}
            /\ s = "answered" => r \notin Immediate /\ state[r] \in {"answered", "delivered"}
            /\ s \in {"delivered", "expired"} => state[r] = s
  BY ThreadTyped DEF ThreadTrue, Brought, Becomes, Calls

LEMMA SucceededInv ==
  ASSUME OnchainInv, NEW relay \in Relays, succeeded(relay)
  PROVE  OnchainInv'
<1> DEFINE r == threads[relay].request
           s == Becomes([call |-> threads[relay].call, request |-> r])
           row == [state |-> s, answered |-> rows[relay][r].answered \/ threads[relay].call = "fulfill",
                   attempts |-> rows[relay][r].attempts]
           rest == Resting(threads[relay].block_time, threads[relay].todo)
<1>1. /\ r \in Requests /\ s \in {"answered", "delivered", "expired"}
      /\ s = "answered" => r \notin Immediate /\ state[r] \in {"answered", "delivered"}
      /\ s \in {"delivered", "expired"} => state[r] = s
  BY MinedRow DEF succeeded, Thread
<1>2. rest \in Threads /\ rest.pc = "next"
  BY ThreadTyped, RestingTyped
<1>3. rows' = [rows EXCEPT ![relay][r] = row] /\ threads' = [threads EXCEPT ![relay] = rest]
  BY DEF succeeded, Thread, Continues
<1>4. UNCHANGED <<now, state, escrow, sent>>
  BY DEF succeeded, chainVars
<1>5. row \in Rows /\ row.state = s
  <2>1. rows[relay][r] \in Rows
    BY <1>1, RowTyped
  <2> HIDE DEF r, s
  <2>2. rows[relay][r].answered \in BOOLEAN /\ rows[relay][r].attempts \in 0 .. (Len(Sessions) - 1)
    BY <2>1 DEF Rows
  <2>3. (rows[relay][r].answered \/ threads[relay].call = "fulfill") \in BOOLEAN
    OBVIOUS
  <2> QED
    BY <1>1, <2>2, <2>3 DEF Rows, States
<1> HIDE DEF r, s, row, rest
<1> QED
  BY <1>1, <1>2, <1>3, <1>4, <1>5, OnlyRow

LEMMA ServeInv ==
  ASSUME OnchainInv, NEW relay \in Relays, NEW r \in Requests, serve(relay, r)
  PROVE  OnchainInv'
<1>1. UNCHANGED <<now, state, escrow, sent>>
  BY DEF serve, chainVars
<1>2. state[r] \in States /\ (state[r] = "answered" => r \notin Immediate)
  BY DEF OnchainInv, Typed, ChainTrue
<1>3. CASE mark(relay, r, state[r]) /\ Done(relay, r)
  BY <1>1, <1>2, <1>3, MarkInv DEF States
<1>4. CASE Submits(relay, r, "expire") /\ UNCHANGED rows
  BY <1>1, <1>4, SubmitsInv DEF Calls
<1>5. CASE Done(relay, r) /\ UNCHANGED rows
  BY <1>1, <1>5, DoneInv
<1>6. CASE /\ rows' = [rows EXCEPT ![relay][r].attempts = IF @ + 1 = Len(Sessions) THEN 0 ELSE @ + 1]
           /\ Works(relay, "asks", r, "none", Sessions[Row(relay, r).attempts + 1])
           /\ Row(relay, r).state = "open"
  <2> DEFINE n == IF rows[relay][r].attempts + 1 = Len(Sessions) THEN 0 ELSE rows[relay][r].attempts + 1
             row == [rows[relay][r] EXCEPT !.attempts = n]
             provider == Sessions[rows[relay][r].attempts + 1]
             t == [pc |-> "asks", todo |-> threads[relay].todo \ {r}, block_time |-> threads[relay].block_time,
                   request |-> r, call |-> "none", provider |-> provider]
  <2>1. /\ rows[relay][r] \in Rows /\ Len(Sessions) \in Nat \ {0} /\ Sessions \in Seq(Providers)
        /\ rows[relay][r].attempts \in 0 .. (Len(Sessions) - 1)
    BY RowTyped, OnchainAssumption DEF Rows
  <2>2. n \in 0 .. (Len(Sessions) - 1) /\ provider \in Providers
    BY <2>1
  <2>3. row \in Rows /\ row.state = "open"
    <3> HIDE DEF n
    <3> QED
      BY <1>6, <2>1, <2>2 DEF Rows, Row
  <2>4. t \in Threads /\ t.pc = "asks" /\ t.request = r
    <3> HIDE DEF provider
    <3> QED
      BY <2>2, WorksTyped DEF Pcs
  <2>5. rows' = [rows EXCEPT ![relay][r] = row]
    BY <1>6
  <2>6. threads' = [threads EXCEPT ![relay] = t]
    BY <1>6 DEF Works, Thread, Row
  <2> HIDE DEF row, t
  <2> QED
    BY <1>1, <2>3, <2>4, <2>5, <2>6, OnlyRow
<1> QED
  BY <1>3, <1>4, <1>5, <1>6 DEF serve

LEMMA DeliverInv ==
  ASSUME OnchainInv, NEW relay \in Relays, NEW r \in Requests, deliver(relay, r)
  PROVE  OnchainInv'
<1>1. UNCHANGED <<now, state, escrow, sent>>
  BY DEF deliver, chainVars
<1>2. state[r] \in {"answered", "delivered"} /\ r \notin Immediate
  BY DEF deliver, Row, OnchainInv, RowsTrue, Waiting
<1>3. CASE escrow[r] = "confirmed" /\ mark(relay, r, "fraud") /\ Done(relay, r)
  <2>1. state[r] = "answered"
    BY <1>2, <1>3 DEF OnchainInv, ChainTrue, Released
  <2> QED
    BY <1>1, <1>3, <2>1, MarkInv
<1>4. CASE Done(relay, r) /\ UNCHANGED rows
  BY <1>1, <1>4, DoneInv
<1>5. CASE Submits(relay, r, "deliver") /\ UNCHANGED rows
  BY <1>1, <1>5, SubmitsInv DEF Calls
<1>6. CASE state[r] # "answered" /\ mark(relay, r, "delivered") /\ Done(relay, r)
  BY <1>1, <1>2, <1>6, MarkInv DEF States
<1> QED
  BY <1>3, <1>4, <1>5, <1>6 DEF deliver

LEMMA CycleInv ==
  ASSUME OnchainInv, NEW relay \in Relays, cycle(relay)
  PROVE  OnchainInv'
<1> DEFINE polled == {r \in Requests : rows'[relay][r].state \in {"open", "answered"}}
           rest == Resting(now, polled)
           found == [r \in Requests |-> IF rows[relay][r].state = "none" /\ state[r] # "none"
                                        THEN [rows[relay][r] EXCEPT !.state = "open"] ELSE rows[relay][r]]
<1>0. /\ rows \in [Relays -> [Requests -> Rows]] /\ threads \in [Relays -> Threads] /\ now \in Int
      /\ UNCHANGED <<now, state, escrow, sent>>
  BY DEF cycle, chainVars, OnchainInv, Typed
<1>1. rest \in Threads /\ rest.pc = "next"
  BY <1>0, RestingTyped
<1>2. threads' = [threads EXCEPT ![relay] = rest]
  BY DEF cycle
<1>3. rows' = [rows EXCEPT ![relay] = found]
  BY DEF cycle
<1>4. ASSUME NEW r \in Requests
      PROVE  /\ found[r] \in Rows
             /\ found[r].state = rows[relay][r].state \/ found[r].state = "open"
  <2>1. rows[relay][r] \in Rows
    BY <1>0, <1>4
  <2> QED
    BY <2>1 DEF Rows, States
<1>5. found \in [Requests -> Rows]
  BY <1>4
<1> HIDE DEF rest, found
<1>6. Typed'
  BY <1>0, <1>1, <1>2, <1>3, <1>5 DEF OnchainInv, Typed
<1>7. ASSUME NEW other \in Relays, NEW q \in Requests
      PROVE  rows'[other][q].state = rows[other][q].state \/ rows'[other][q].state = "open"
  BY <1>0, <1>3, <1>4, <1>7
<1>8. ChainTrue' /\ Waiting' /\ RowsTrue'
  <2>1. ChainTrue'
    BY <1>0 DEF OnchainInv, ChainTrue
  <2>2. Waiting'
    BY <1>7 DEF OnchainInv, Waiting
  <2>3. RowsTrue'
    BY <1>0, <1>7 DEF OnchainInv, RowsTrue
  <2> QED
    BY <2>1, <2>2, <2>3
<1>9. ASSUME NEW other \in Relays PROVE ThreadTrue(other)'
  <2>1. ThreadTrue(other)
    BY <1>9 DEF OnchainInv, ThreadsTrue
  <2>2. CASE other = relay
    BY <1>0, <1>1, <1>2, <2>2 DEF ThreadTrue
  <2>3. CASE other # relay
    BY <1>0, <1>2, <2>1, <2>3 DEF ThreadTrue, Brought
  <2> QED
    BY <2>2, <2>3
<1> QED
  BY <1>6, <1>8, <1>9 DEF OnchainInv, ThreadsTrue

LEMMA EndsInv ==
  ASSUME OnchainInv, NEW relay \in Relays, threads' = [threads EXCEPT ![relay] = Idle],
         UNCHANGED <<now, state, escrow, sent, rows>>
  PROVE  OnchainInv'
<1>1. Idle \in Threads /\ Idle.pc = "idle"
  BY DEF Idle, Threads, Pcs
<1> QED
  BY <1>1, OnlyThread DEF OnchainInv, Typed

\* A thread that was asked to go on asking.
LEMMA AskedInv ==
  ASSUME OnchainInv, NEW relay \in Relays, threads[relay].pc = "asks", Goes(relay, "asked"),
         UNCHANGED <<now, state, escrow, sent, rows>>
  PROVE  OnchainInv'
<1> DEFINE t == [threads[relay] EXCEPT !.pc = "asked"]
<1>1. t \in Threads /\ t.pc = "asked" /\ t.request = threads[relay].request
  BY ThreadTyped DEF Threads, Pcs
<1>2. threads' = [threads EXCEPT ![relay] = t]
  BY DEF Goes
<1>3. threads[relay].request \in Requests
  BY ThreadTyped DEF ThreadTrue
<1> HIDE DEF t
<1> QED
  BY <1>1, <1>2, <1>3, OnlyThread DEF OnchainInv, Typed

LEMMA AnswerInv ==
  ASSUME OnchainInv, NEW relay \in Relays, handle_onchain(relay) \/ unanswered(relay) \/ answer(relay)
  PROVE  OnchainInv'
<1>1. UNCHANGED <<now, state, escrow, sent, rows>>
  BY DEF handle_onchain, unanswered, answer, chainVars
<1>2. CASE Continues(relay)
  BY <1>1, <1>2, ContinuesInv
<1>3. CASE threads[relay].pc = "asks" /\ Goes(relay, "asked")
  BY <1>1, <1>3, AskedInv
<1>4. CASE threads[relay].pc = "asked" /\ Submits(relay, threads[relay].request, "fulfill")
  <2>1. threads[relay].request \in Requests
    BY <1>4, ThreadTyped DEF ThreadTrue
  <2> QED
    BY <1>1, <1>4, <2>1, SubmitsInv DEF Calls
<1> QED
  BY <1>2, <1>3, <1>4 DEF handle_onchain, unanswered, answer, Thread

LEMMA SendInv ==
  ASSUME OnchainInv, NEW relay \in Relays, send(relay)
  PROVE  OnchainInv'
<1> DEFINE tx == [call |-> threads[relay].call, request |-> threads[relay].request]
           t == [threads[relay] EXCEPT !.pc = "waits"]
<1>0. /\ threads \in [Relays -> Threads] /\ sent \in [Relays -> Seq(Transactions)] /\ threads[relay] \in Threads
      /\ threads[relay].pc = "sends" /\ UNCHANGED <<now, state, escrow, rows>>
  BY DEF send, Thread, chainVars, OnchainInv, Typed
<1>1. CASE Continues(relay) /\ UNCHANGED sent
  BY <1>0, <1>1, ContinuesInv
<1>2. CASE sent' = [sent EXCEPT ![relay] = Append(@, tx)] /\ Goes(relay, "waits")
  <2>1. tx \in Transactions
    BY <1>0, ThreadTyped DEF ThreadTrue, Transactions
  <2>2. t \in Threads /\ t.pc = "waits" /\ t.request = threads[relay].request /\ t.call = threads[relay].call
    BY <1>0 DEF Threads, Pcs
  <2>3. threads' = [threads EXCEPT ![relay] = t]
    BY <1>2 DEF Goes
  <2>4. t.request \in Requests /\ t.call \in Calls /\ tx = [call |-> t.call, request |-> t.request]
    BY <1>0, <2>2, ThreadTyped DEF ThreadTrue
  <2> HIDE DEF tx, t
  <2>5. /\ Append(sent[relay], tx) \in Seq(Transactions) /\ Append(sent[relay], tx) # <<>>
        /\ Append(sent[relay], tx)[Len(Append(sent[relay], tx))] = tx
    BY <1>0, <2>1, Appended
  <2>6. sent' = [sent EXCEPT ![relay] = Append(sent[relay], tx)]
    BY <1>2
  <2>7. Typed'
    BY <1>0, <2>2, <2>3, <2>5, <2>6 DEF OnchainInv, Typed
  <2>8. ChainTrue' /\ Waiting' /\ RowsTrue'
    BY <1>0 DEF OnchainInv, ChainTrue, Waiting, RowsTrue
  <2>9. ASSUME NEW other \in Relays PROVE ThreadTrue(other)'
    <3>1. ThreadTrue(other)
      BY <2>9 DEF OnchainInv, ThreadsTrue
    <3>2. CASE other = relay
      BY <1>0, <2>2, <2>3, <2>4, <2>5, <2>6, <3>2 DEF ThreadTrue
    <3>3. CASE other # relay
      BY <1>0, <2>3, <2>6, <3>1, <3>3 DEF ThreadTrue, Brought
    <3> QED
      BY <3>2, <3>3
  <2> QED
    BY <2>7, <2>8, <2>9 DEF OnchainInv, ThreadsTrue
<1> QED
  BY <1>1, <1>2 DEF send, Thread

LEMMA DispatcherInv ==
  ASSUME OnchainInv, NEW relay \in Relays, Dispatcher(relay)
  PROVE  OnchainInv'
<1>1. CASE cycle(relay)
  BY <1>1, CycleInv
<1>2. CASE ends(relay) \/ crash(relay)
  BY <1>2, EndsInv DEF ends, crash, chainVars
<1>3. CASE send(relay)
  BY <1>3, SendInv
<1>4. CASE wait(relay)
  BY <1>4, ContinuesInv DEF wait, chainVars
<1>5. CASE succeeded(relay)
  BY <1>5, SucceededInv
<1>6. CASE \E r \in Requests : serve(relay, r) \/ deliver(relay, r)
  BY <1>6, ServeInv, DeliverInv
<1> QED
  BY <1>1, <1>2, <1>3, <1>4, <1>5, <1>6 DEF Dispatcher

-----------------------------------------------------------------------------
\* What a step of the chain leaves true of the requests that it does not make or settle.
LEMMA OnlyChain ==
  ASSUME OnchainInv, Typed', UNCHANGED <<rows, sent, threads>>,
         \A r \in Requests :
           /\ state'[r] = state[r] \/ (state[r] = "none" /\ state'[r] = "open")
           /\ escrow'[r] = escrow[r] \/ escrow[r] \in {"pending", "disputed"}
  PROVE  OnchainInv'
<1>1. ChainTrue'
  BY DEF OnchainInv, ChainTrue, Released
<1>2. Waiting' /\ RowsTrue'
  BY DEF OnchainInv, Waiting, RowsTrue
<1>3. ASSUME NEW relay \in Relays PROVE ThreadTrue(relay)'
  <2>1. ThreadTrue(relay)
    BY <1>3 DEF OnchainInv, ThreadsTrue
  <2> QED
    BY <2>1 DEF ThreadTrue, Brought
<1> QED
  BY <1>1, <1>2, <1>3 DEF OnchainInv, ThreadsTrue

LEMMA RequestInv ==
  ASSUME OnchainInv, NEW r \in Requests, request(r)
  PROVE  OnchainInv'
<1>1. Typed'
  BY DEF request, OnchainInv, Typed, States
<1>2. \A q \in Requests : state'[q] = state[q] \/ (state[q] = "none" /\ state'[q] = "open")
  BY DEF request, OnchainInv, Typed
<1> QED
  BY <1>1, <1>2, OnlyChain DEF request

LEMMA SettlesInv ==
  ASSUME OnchainInv, NEW r \in Requests, settles(r)
  PROVE  OnchainInv'
<1>1. Typed'
  BY DEF settles, OnchainInv, Typed, Escrows
<1>2. \A q \in Requests : escrow'[q] = escrow[q] \/ escrow[q] \in {"pending", "disputed"}
  BY DEF settles, OnchainInv, Typed
<1> QED
  BY <1>1, <1>2, OnlyChain DEF settles

\* A transaction that is mined takes no row and no thread at its word.
LEMMA MineInv ==
  ASSUME OnchainInv, NEW relay \in Relays, mine(relay)
  PROVE  OnchainInv'
<1> DEFINE tx == Head(sent[relay])
           t == threads[relay]
<1>0. /\ state \in [Requests -> States] /\ escrow \in [Requests -> Escrows] /\ sent \in [Relays -> Seq(Transactions)]
      /\ threads \in [Relays -> Threads] /\ t \in Threads /\ sent[relay] # <<>> /\ sent[relay] \in Seq(Transactions)
      /\ sent' = [sent EXCEPT ![relay] = Tail(sent[relay])] /\ UNCHANGED <<now, rows>>
  BY DEF mine, OnchainInv, Typed
<1>1. tx \in Transactions /\ tx.call \in Calls /\ tx.request \in Requests
  <2>1. tx \in Transactions
    BY <1>0, Taken
  <2> HIDE DEF tx
  <2> QED
    BY <2>1 DEF Transactions
<1>2. /\ state' = IF Allowed(tx) THEN [state EXCEPT ![tx.request] = Becomes(tx)] ELSE state
      /\ escrow' = IF Allowed(tx) /\ tx.call = "fulfill" THEN [escrow EXCEPT ![tx.request] = "pending"] ELSE escrow
      /\ \/ t.pc = "waits" /\ Len(sent[relay]) = 1 /\ Allowed(tx) /\ Goes(relay, "mined")
         \/ Continues(relay)
         \/ ~(t.pc = "waits" /\ Len(sent[relay]) = 1) /\ UNCHANGED threads
  BY DEF mine, Thread
<1> HIDE DEF tx
\* What it does to a request.
<1>3. ASSUME NEW r \in Requests
      PROVE  /\ state'[r] \in States /\ escrow'[r] \in Escrows
             /\ state[r] = "answered" => state'[r] \in {"answered", "delivered"}
             /\ state[r] \in {"delivered", "expired"} => state'[r] = state[r]
             /\ state[r] # "open" => escrow'[r] = escrow[r]
             /\ escrow[r] = "confirmed" /\ state[r] = "answered" => state'[r] = "answered"
             /\ r \in Immediate => state'[r] # "answered"
             /\ r \notin Immediate /\ state'[r] = "delivered" => escrow'[r] \in Released
  <2>1. /\ r \in Immediate => state[r] # "answered"
        /\ r \notin Immediate /\ state[r] = "delivered" => escrow[r] \in Released
    BY <1>3 DEF OnchainInv, ChainTrue
  <2>2. CASE ~Allowed(tx) \/ r # tx.request
    BY <1>0, <1>2, <1>3, <2>1, <2>2
  <2>3. CASE Allowed(tx) /\ r = tx.request
    BY <1>0, <1>1, <1>2, <1>3, <2>1, <2>3 DEF Allowed, Becomes, Calls, States, Escrows, Released
  <2> QED
    BY <2>2, <2>3
<1>4. state' \in [Requests -> States] /\ escrow' \in [Requests -> Escrows]
  <2>1. /\ \E s : state' = [state EXCEPT ![tx.request] = s]
        /\ \E s : escrow' = [escrow EXCEPT ![tx.request] = s]
    BY <1>0, <1>1, <1>2
  <2> QED
    BY <1>0, <1>3, <2>1
<1>5. Tail(sent[relay]) \in Seq(Transactions)
  BY <1>0
<1>6. threads' \in [Relays -> Threads]
  <2>1. CASE Goes(relay, "mined")
    BY <1>0, <2>1 DEF Goes, Threads, Pcs
  <2>2. CASE Continues(relay)
    BY <1>0, <2>2, ThreadTyped, RestingTyped DEF Continues
  <2> QED
    BY <1>0, <1>2, <2>1, <2>2
<1>7. Typed'
  BY <1>0, <1>4, <1>5, <1>6 DEF OnchainInv, Typed
<1>8. ChainTrue' /\ Waiting' /\ RowsTrue'
  <2>1. ChainTrue'
    BY <1>3 DEF ChainTrue
  <2>2. Waiting'
    BY <1>0 DEF OnchainInv, Waiting
  <2>3. RowsTrue'
    BY <1>0, <1>3 DEF OnchainInv, RowsTrue
  <2> QED
    BY <2>1, <2>2, <2>3
<1>9. ASSUME NEW what \in Calls, NEW r \in Requests, Brought(what, r) PROVE Brought(what, r)'
  BY <1>3, <1>9 DEF Brought
<1>10. ASSUME NEW other \in Relays PROVE ThreadTrue(other)'
  <2>1. ThreadTrue(other)
    BY <1>10 DEF OnchainInv, ThreadsTrue
  <2>2. CASE other # relay
    <3>1. threads'[other] = threads[other] /\ sent'[other] = sent[other]
      BY <1>0, <1>2, <2>2, <1>10 DEF Goes, Continues
    <3> QED
      BY <1>9, <2>1, <3>1 DEF ThreadTrue
  <2>3. CASE other = relay /\ Continues(relay)
    BY <1>0, <2>3 DEF Continues, Resting, ThreadTrue
  <2>4. CASE other = relay /\ UNCHANGED threads /\ ~(t.pc = "waits" /\ Len(sent[relay]) = 1)
    <3>1. Len(sent[relay]) # 1 =>
            Tail(sent[relay]) # <<>> /\ Tail(sent[relay])[Len(Tail(sent[relay]))] = sent[relay][Len(sent[relay])]
      BY <1>0, Taken
    <3> QED
      BY <1>0, <1>9, <2>1, <2>4, <3>1 DEF ThreadTrue
  <2>5. CASE other = relay /\ t.pc = "waits" /\ Len(sent[relay]) = 1 /\ Allowed(tx) /\ Goes(relay, "mined")
    <3>1. tx = [call |-> t.call, request |-> t.request]
      BY <1>0, <2>1, <2>5, Taken DEF tx, ThreadTrue
    <3>2. threads'[relay] = [t EXCEPT !.pc = "mined"]
      BY <1>0, <2>5 DEF Goes
    <3>3. /\ threads'[relay].pc = "mined" /\ threads'[relay].call = t.call /\ threads'[relay].request = t.request
      BY <1>0, <3>2 DEF Threads
    <3>4. t.call \in Calls /\ t.request \in Requests
      BY <2>1, <2>5 DEF ThreadTrue
    <3>5. Brought(t.call, t.request)'
      BY <1>0, <1>2, <2>5, <3>1, <3>3, <3>4 DEF Allowed, Becomes, Brought, Calls
    <3> QED
      BY <2>5, <3>3, <3>4, <3>5 DEF ThreadTrue
  <2> QED
    BY <1>2, <2>2, <2>3, <2>4, <2>5
<1> QED
  BY <1>7, <1>8, <1>10 DEF OnchainInv, ThreadsTrue

LEMMA NextInv == OnchainInv /\ [Next]_vars => OnchainInv'
<1> SUFFICES ASSUME OnchainInv, [Next]_vars PROVE OnchainInv'
  OBVIOUS
<1>1. CASE \E relay \in Relays : Dispatcher(relay) \/ Answering(relay) \/ mine(relay)
  BY <1>1, DispatcherInv, AnswerInv, MineInv DEF Answering
<1>2. CASE \E r \in Requests : request(r) \/ settles(r)
  BY <1>2, RequestInv, SettlesInv
<1>3. CASE tick \/ (\E r \in Requests : \E p \in Providers : execute(p, r)) \/ UNCHANGED vars
  <2>1. now' \in Int /\ UNCHANGED <<state, escrow, sent, rows, threads>>
    BY <1>3 DEF tick, execute, vars, chainVars, OnchainInv, Typed
  <2>2. Typed'
    BY <2>1 DEF OnchainInv, Typed
  <2> QED
    BY <2>1, <2>2, OnlyChain
<1> QED
  BY <1>1, <1>2, <1>3 DEF Next

\* For any number of requests, Relays, Providers, transactions and crashes, whatever times out, fails or is lost: what
\* a Relay has written down of a request made on the chain is so (_serve and _deliver, onchain.py:94-140).
THEOREM RowsStayTrue == Spec => []RowsTrue
<1>1. OnchainInv => RowsTrue
  BY DEF OnchainInv
<1> QED
  BY <1>1, InitInv, NextInv, PTL DEF Spec

-----------------------------------------------------------------------------
(* The app-servers of a Codex backend *)

Server ==
  [up : BOOLEAN, wrapper : BOOLEAN, route : {"reads", "ended", "told"}, active : Nat, served : Nat,
   pending : SUBSET Callers, threads : SUBSET Callers, holder : {"none", "spare", "closer"}]
Caller ==
  [pc : {"idle", "call", "wait", "collect", "leave", "release"}, server : Nat,
   call : {"none", "thread/start", "thread/inject_items", "turn/start"},
   reply : {"none", "reply", "error"}, inbox : {"none", "end"}]

PoolTyped ==
  /\ servers \in Seq(Server) /\ pool \subseteq Processes /\ spares \in Nat
  /\ callers \in [Callers -> Caller]

\* A thread has a process while it is not idle.
Seated == \A c \in Callers : Of(c) \in Processes \cup {0} /\ (At(c, "idle") <=> Of(c) = 0)

\* A process counts the threads that have it; one that somebody is about to close or to put in the pool has none.
Booked ==
  \A s \in Processes :
    /\ servers[s].active = Cardinality(Holders(s))
    /\ servers[s].active <= threads_per_server /\ servers[s].served <= recycle_after
    /\ servers[s].holder # "none" => servers[s].active = 0 /\ s \notin pool

\* What leaves the pool has ended, or its wrapper has; or somebody is about to close it; or it is dead, and the last of
\* its turns will retire it.
Kept(s) ==
  servers[s].up /\ servers[s].wrapper =>
    s \in pool \/ servers[s].holder # "none" \/ (servers[s].active > 0 /\ servers[s].route # "reads")
Found == \A s \in Processes : Kept(s)

\* When a reader has told everyone, nobody waits.
Read == \A s \in Processes : servers[s].route = "told" => servers[s].pending = {}

\* A thread without a reply is waited for by its process's reader.
WaitedAt(c) == At(c, "wait") /\ callers[c].reply = "none" => c \in servers[Of(c)].pending
Waited == \A c \in Callers : WaitedAt(c)

\* One whose thread was started is subscribed; if everyone was told of the process's end, it knows.
Told(c) == c \in servers[Of(c)].threads /\ (servers[Of(c)].route = "told" => callers[c].inbox = "end")
SubscribedAt(c) ==
  /\ At(c, "call") /\ callers[c].call # "thread/start" => c \in servers[Of(c)].threads
  /\ At(c, "wait") /\ callers[c].call # "thread/start" => Told(c)
  /\ At(c, "collect") => callers[c].call # "thread/start" /\ Told(c)
Subscribed == \A c \in Callers : SubscribedAt(c)

PoolInv == PoolTyped /\ Seated /\ Booked /\ Found /\ Read /\ Waited /\ Subscribed

-----------------------------------------------------------------------------
(* One process, or one thread, changes *)

LEMMA ServerSet ==
  ASSUME PoolTyped, NEW s \in Processes, NEW known \in Server, servers' = [servers EXCEPT ![s] = known]
  PROVE  /\ servers' \in Seq(Server) /\ Processes' = Processes
         /\ \A t \in Processes : servers'[t] = IF t = s THEN known ELSE servers[t]
BY DEF PoolTyped, Processes

LEMMA CallerSet ==
  ASSUME PoolTyped, NEW c \in Callers, NEW known \in Caller, callers' = [callers EXCEPT ![c] = known]
  PROVE  /\ callers' \in [Callers -> Caller]
         /\ \A d \in Callers : callers'[d] = IF d = c THEN known ELSE callers[d]
BY DEF PoolTyped

\* The books are as they were: no thread takes or gives back a process, and none is counted, closed or pooled.
LEMMA BooksKept ==
  ASSUME PoolInv, Processes' = Processes, pool' = pool,
         \A s \in Processes : servers'[s].active = servers[s].active /\ servers'[s].served = servers[s].served
                              /\ servers'[s].holder = servers[s].holder,
         \A c \in Callers : Of(c)' = Of(c) /\ (At(c, "idle")' <=> At(c, "idle"))
  PROVE  Seated' /\ Booked'
<1>1. Seated'
  BY DEF PoolInv, Seated
<1>2. \A s \in Processes : Holders(s)' = Holders(s)
  BY DEF Holders, Of
<1>3. Booked'
  BY <1>2 DEF PoolInv, Booked
<1> QED
  BY <1>1, <1>3

\* Nor does any process end, or begin to be read again.
LEMMA FoundKept ==
  ASSUME PoolInv, Processes' = Processes, pool' = pool,
         \A s \in Processes : servers'[s].up = servers[s].up /\ servers'[s].wrapper = servers[s].wrapper
                              /\ servers'[s].holder = servers[s].holder /\ servers'[s].active = servers[s].active
                              /\ (servers[s].route # "reads" => servers'[s].route # "reads")
  PROVE  Found'
BY DEF PoolInv, Found, Kept

LEMMA HasServer ==
  ASSUME PoolInv, NEW c \in Callers, ~At(c, "idle")
  PROVE  Of(c) \in Processes /\ servers[Of(c)] \in Server /\ callers[c] \in Caller
<1>1. Of(c) \in Processes
  BY DEF PoolInv, Seated
<1> QED
  BY <1>1 DEF PoolInv, PoolTyped, Processes

\* What a thread waits for is as it was, if its process only loses what is another's.
LEMMA OtherKept ==
  ASSUME PoolInv, NEW d \in Callers, callers'[d] = callers[d],
         ~At(d, "idle") =>
           /\ d \in servers[Of(d)].pending => d \in servers'[Of(d)].pending
           /\ d \in servers[Of(d)].threads => d \in servers'[Of(d)].threads
           /\ servers'[Of(d)].route = "told" => servers[Of(d)].route = "told"
  PROVE  WaitedAt(d)' /\ SubscribedAt(d)'
<1>1. Of(d)' = Of(d) /\ \A pc \in {"idle", "call", "wait", "collect"} : At(d, pc)' <=> At(d, pc)
  BY DEF Of, At
<1>2. At(d, "call") \/ At(d, "wait") \/ At(d, "collect") => ~At(d, "idle")
  BY DEF At
<1>3. WaitedAt(d) /\ SubscribedAt(d)
  BY DEF PoolInv, Waited, Subscribed
<1>4. WaitedAt(d)'
  BY <1>1, <1>2, <1>3 DEF WaitedAt
<1>5. SubscribedAt(d)'
  BY <1>1, <1>2, <1>3 DEF SubscribedAt, Told
<1> QED
  BY <1>4, <1>5

\* One process and one thread change, and neither the books nor what is running.
LEMMA Goes_on ==
  ASSUME PoolInv, UNCHANGED <<pool, spares>>,
         NEW s \in Processes, NEW known \in Server, servers' = [servers EXCEPT ![s] = known],
         known.active = servers[s].active, known.served = servers[s].served, known.holder = servers[s].holder,
         known.up = servers[s].up, known.wrapper = servers[s].wrapper, known.route = servers[s].route,
         NEW c \in Callers, servers[s].pending \subseteq known.pending \cup {c}, servers[s].threads \subseteq known.threads \cup {c},
         known.route = "told" => known.pending = {},
         NEW thread \in Caller, callers' = [callers EXCEPT ![c] = thread],
         thread.server = Of(c), thread.pc = "idle" <=> At(c, "idle"),
         WaitedAt(c)', SubscribedAt(c)'
  PROVE  PoolInv'
<1>1. PoolTyped
  BY DEF PoolInv
<1>2. /\ servers' \in Seq(Server) /\ Processes' = Processes
      /\ \A t \in Processes : servers'[t] = IF t = s THEN known ELSE servers[t]
  BY <1>1, ServerSet
<1>3. /\ callers' \in [Callers -> Caller]
      /\ \A d \in Callers : callers'[d] = IF d = c THEN thread ELSE callers[d]
  BY <1>1, CallerSet
<1>4. PoolTyped'
  BY <1>1, <1>2, <1>3 DEF PoolTyped
<1>5. \A t \in Processes : servers'[t].active = servers[t].active /\ servers'[t].served = servers[t].served
                           /\ servers'[t].holder = servers[t].holder
  BY <1>2
<1>6. \A d \in Callers : Of(d)' = Of(d) /\ (At(d, "idle")' <=> At(d, "idle"))
  BY <1>3 DEF Of, At
<1>7. Seated' /\ Booked'
  BY <1>2, <1>5, <1>6, BooksKept
<1>8. \A t \in Processes : servers'[t].up = servers[t].up /\ servers'[t].wrapper = servers[t].wrapper
                           /\ servers'[t].holder = servers[t].holder
                           /\ servers'[t].active = servers[t].active
                           /\ (servers[t].route # "reads" => servers'[t].route # "reads")
  BY <1>2
<1>9. Found'
  BY <1>2, <1>8, FoundKept
<1>10. Read'
  BY <1>2 DEF PoolInv, Read, Dead
<1>11. ASSUME NEW d \in Callers PROVE WaitedAt(d)' /\ SubscribedAt(d)'
  <2>1. CASE d = c
    BY <2>1
  <2>2. CASE d # c
    <3>1. callers'[d] = callers[d]
      BY <1>3, <2>2
    <3>2. ~At(d, "idle") => Of(d) \in Processes
      BY HasServer
    <3>3. ~At(d, "idle") =>
            /\ d \in servers[Of(d)].pending => d \in servers'[Of(d)].pending
            /\ d \in servers[Of(d)].threads => d \in servers'[Of(d)].threads
            /\ servers'[Of(d)].route = "told" => servers[Of(d)].route = "told"
      BY <1>2, <2>2, <3>2
    <3> QED
      BY <3>1, <3>3, OtherKept
  <2> QED
    BY <2>1, <2>2
<1> QED
  BY <1>4, <1>7, <1>9, <1>10, <1>11 DEF PoolInv, Waited, Subscribed

-----------------------------------------------------------------------------
(* What a thread does with the process it has *)

\* The thread becomes "thread", and its process "known": what it waits for then, and is told, is its process's.
ThreadGoes(c, known, thread) ==
  /\ servers' = [servers EXCEPT ![Of(c)] = known] /\ callers' = [callers EXCEPT ![c] = thread]
  /\ known.active = servers[Of(c)].active /\ known.served = servers[Of(c)].served
  /\ known.holder = servers[Of(c)].holder /\ known.up = servers[Of(c)].up
  /\ known.wrapper = servers[Of(c)].wrapper /\ known.route = servers[Of(c)].route
  /\ servers[Of(c)].pending \subseteq known.pending \cup {c}
  /\ servers[Of(c)].threads \subseteq known.threads \cup {c}
  /\ known.route = "told" => known.pending = {}
  /\ thread.server = Of(c) /\ thread.pc # "idle"
  /\ thread.pc = "wait" /\ thread.reply = "none" => c \in known.pending
  /\ thread.pc \in {"call", "wait", "collect"} /\ thread.call # "thread/start" => c \in known.threads
  /\ (thread.pc = "wait" /\ thread.call # "thread/start") \/ thread.pc = "collect" =>
       (known.route = "told" => thread.inbox = "end")
  /\ thread.pc = "collect" => thread.call # "thread/start"

\* What the steps of a thread that has a process need: the process and the thread as constants, and new ones for them.
LEMMA ThreadStep ==
  ASSUME PoolInv, NEW c \in Callers, ~At(c, "idle"), UNCHANGED <<pool, spares>>,
         \E known \in Server, thread \in Caller : ThreadGoes(c, known, thread)
  PROVE  PoolInv'
<1>1. Of(c) \in Processes /\ servers[Of(c)] \in Server /\ callers[c] \in Caller
  BY HasServer
<1>2. PICK s \in Processes : s = Of(c)
  BY <1>1
<1>3. PICK known \in Server, thread \in Caller :
           /\ servers' = [servers EXCEPT ![s] = known] /\ callers' = [callers EXCEPT ![c] = thread]
           /\ known.active = servers[s].active /\ known.served = servers[s].served
           /\ known.holder = servers[s].holder /\ known.up = servers[s].up
           /\ known.wrapper = servers[s].wrapper /\ known.route = servers[s].route
           /\ servers[s].pending \subseteq known.pending \cup {c}
           /\ servers[s].threads \subseteq known.threads \cup {c}
           /\ known.route = "told" => known.pending = {}
           /\ thread.server = s /\ thread.pc # "idle"
           /\ thread.pc = "wait" /\ thread.reply = "none" => c \in known.pending
           /\ thread.pc \in {"call", "wait", "collect"} /\ thread.call # "thread/start" => c \in known.threads
           /\ (thread.pc = "wait" /\ thread.call # "thread/start") \/ thread.pc = "collect" =>
                (known.route = "told" => thread.inbox = "end")
           /\ thread.pc = "collect" => thread.call # "thread/start"
  BY <1>2 DEF ThreadGoes
<1>4. PoolTyped
  BY DEF PoolInv
<1>5. \A t \in Processes : servers'[t] = IF t = s THEN known ELSE servers[t]
  BY <1>3, <1>4, ServerSet
<1>6. \A d \in Callers : callers'[d] = IF d = c THEN thread ELSE callers[d]
  BY <1>3, <1>4, CallerSet
<1>7. callers'[c] = thread /\ servers'[s] = known
  BY <1>5, <1>6
<1>8. thread.server = Of(c) /\ (thread.pc = "idle" <=> At(c, "idle")) /\ Of(c)' = s
  BY <1>2, <1>3, <1>7 DEF Of
<1>9. WaitedAt(c)'
  BY <1>3, <1>7, <1>8 DEF WaitedAt, At
<1>10. SubscribedAt(c)'
  BY <1>3, <1>7, <1>8 DEF SubscribedAt, Told, At
<1> QED
  BY <1>3, <1>8, <1>9, <1>10, Goes_on

\* What a thread that is on its way has, as constants.
LEMMA Has ==
  ASSUME PoolInv, NEW c \in Callers, ~At(c, "idle")
  PROVE  \E old \in Server, was \in Caller :
           /\ old = servers[Of(c)] /\ was = callers[c] /\ was.server = Of(c)
           /\ servers = [servers EXCEPT ![Of(c)] = old]
           /\ was.pc = "wait" /\ was.reply = "none" => c \in old.pending
           /\ was.pc = "call" /\ was.call # "thread/start" => c \in old.threads
           /\ (was.pc = "wait" /\ was.call # "thread/start") \/ was.pc = "collect" =>
                c \in old.threads /\ (old.route = "told" => was.inbox = "end")
           /\ was.pc = "collect" => was.call # "thread/start"
           /\ old.route = "told" => old.pending = {}
<1>1. Of(c) \in Processes /\ servers[Of(c)] \in Server /\ callers[c] \in Caller
  BY HasServer
<1>2. servers = [servers EXCEPT ![Of(c)] = servers[Of(c)]]
  BY DEF PoolInv, PoolTyped
<1>3. WaitedAt(c) /\ SubscribedAt(c) /\ (servers[Of(c)].route = "told" => servers[Of(c)].pending = {})
  BY <1>1 DEF PoolInv, Waited, Subscribed, Read
<1>4. PICK old \in Server : old = servers[Of(c)]
  BY <1>1
<1>5. PICK was \in Caller : was = callers[c]
  BY <1>1
<1>6. was.server = Of(c) /\ \A pc \in {"call", "wait", "collect"} : was.pc = pc <=> At(c, pc)
  BY <1>5 DEF Of, At
<1> QED
  BY <1>2, <1>3, <1>4, <1>5, <1>6 DEF WaitedAt, SubscribedAt, Told

LEMMA CallKeeps == ASSUME PoolInv, NEW c \in Callers, call(c) PROVE PoolInv'
<1>1. At(c, "call") /\ ~At(c, "idle") /\ UNCHANGED <<pool, spares>>
  BY DEF call, At
<1>2. PICK old \in Server, was \in Caller :
           /\ old = servers[Of(c)] /\ was = callers[c] /\ was.server = Of(c)
           /\ servers = [servers EXCEPT ![Of(c)] = old]
           /\ was.pc = "call" /\ was.call # "thread/start" => c \in old.threads
           /\ old.route = "told" => old.pending = {}
  BY <1>1, Has
<1>3. was.pc = "call"
  BY <1>1, <1>2 DEF At
<1> DEFINE waits == [was EXCEPT !.pc = "wait", !.reply = "none"]
           leaves == [was EXCEPT !.pc = "leave"]
           more == [old EXCEPT !.pending = @ \cup {c}]
<1>4. /\ waits \in Caller /\ waits.pc = "wait" /\ waits.server = was.server /\ waits.call = was.call
      /\ leaves \in Caller /\ leaves.pc = "leave" /\ leaves.server = was.server
  BY DEF Caller
<1>5. /\ more \in Server /\ more.active = old.active /\ more.served = old.served /\ more.holder = old.holder
      /\ more.up = old.up /\ more.wrapper = old.wrapper /\ more.route = old.route /\ more.threads = old.threads
      /\ more.pending = old.pending \cup {c}
  BY DEF Server
<1>6. \/ /\ old.route = "reads" /\ servers' = [servers EXCEPT ![Of(c)] = more]
         /\ callers' = [callers EXCEPT ![c] = waits] \/ callers' = [callers EXCEPT ![c] = leaves]
      \/ servers' = [servers EXCEPT ![Of(c)] = old] /\ callers' = [callers EXCEPT ![c] = leaves]
  BY <1>2 DEF call, Dead, Moves
<1> HIDE DEF waits, leaves, more
<1>7. CASE old.route = "reads" /\ servers' = [servers EXCEPT ![Of(c)] = more] /\ callers' = [callers EXCEPT ![c] = waits]
  <2>1. ThreadGoes(c, more, waits)
    BY <1>1, <1>2, <1>3, <1>4, <1>5, <1>7 DEF ThreadGoes
  <2> QED
    BY <1>1, <1>2, <1>4, <1>5, <2>1, ThreadStep
<1>8. CASE old.route = "reads" /\ servers' = [servers EXCEPT ![Of(c)] = more] /\ callers' = [callers EXCEPT ![c] = leaves]
  <2>1. ThreadGoes(c, more, leaves)
    BY <1>1, <1>2, <1>3, <1>4, <1>5, <1>8 DEF ThreadGoes
  <2> QED
    BY <1>1, <1>2, <1>4, <1>5, <2>1, ThreadStep
<1>9. CASE servers' = [servers EXCEPT ![Of(c)] = old] /\ callers' = [callers EXCEPT ![c] = leaves]
  <2>1. ThreadGoes(c, old, leaves)
    BY <1>1, <1>2, <1>3, <1>4, <1>9 DEF ThreadGoes
  <2> QED
    BY <1>1, <1>2, <1>4, <2>1, ThreadStep
<1> QED
  BY <1>6, <1>7, <1>8, <1>9

LEMMA RepliedKeeps == ASSUME PoolInv, NEW c \in Callers, replied(c) PROVE PoolInv'
<1>1. At(c, "wait") /\ ~At(c, "idle") /\ UNCHANGED <<pool, spares>>
  BY DEF replied, At
<1>2. PICK old \in Server, was \in Caller :
           /\ old = servers[Of(c)] /\ was = callers[c] /\ was.server = Of(c)
           /\ servers = [servers EXCEPT ![Of(c)] = old]
           /\ was.pc = "wait" /\ was.call # "thread/start" => c \in old.threads /\ (old.route = "told" => was.inbox = "end")
           /\ old.route = "told" => old.pending = {}
  BY <1>1, Has
<1>3. was.pc = "wait"
  BY <1>1, <1>2 DEF At
<1> DEFINE goes(next) == [was EXCEPT !.pc = "call", !.call = next, !.reply = "none"]
           collects == [was EXCEPT !.pc = "collect", !.reply = "none"]
           more == [old EXCEPT !.threads = @ \cup {c}]
<1>4. /\ collects \in Caller /\ collects.pc = "collect" /\ collects.server = was.server
      /\ collects.call = was.call /\ collects.inbox = was.inbox
      /\ \A next \in {"thread/inject_items", "turn/start"} :
           goes(next) \in Caller /\ goes(next).pc = "call" /\ goes(next).server = was.server
  BY DEF Caller
<1>5. /\ more \in Server /\ more.active = old.active /\ more.served = old.served /\ more.holder = old.holder
      /\ more.up = old.up /\ more.wrapper = old.wrapper /\ more.route = old.route /\ more.pending = old.pending
      /\ more.threads = old.threads \cup {c}
  BY DEF Server
<1>6. \/ /\ servers' = [servers EXCEPT ![Of(c)] = more]
         /\ \E next \in {"thread/inject_items", "turn/start"} : callers' = [callers EXCEPT ![c] = goes(next)]
      \/ /\ was.call = "thread/inject_items" /\ servers' = [servers EXCEPT ![Of(c)] = old]
         /\ callers' = [callers EXCEPT ![c] = goes("turn/start")]
      \/ /\ was.call = "turn/start" /\ servers' = [servers EXCEPT ![Of(c)] = old]
         /\ callers' = [callers EXCEPT ![c] = collects]
  <2>1. \A next : callers' = [callers EXCEPT ![c].pc = "call", ![c].call = next, ![c].reply = "none"]
                  => callers' = [callers EXCEPT ![c] = goes(next)]
    BY <1>2
  <2>2. callers' = [callers EXCEPT ![c].pc = "collect", ![c].reply = "none"] => callers' = [callers EXCEPT ![c] = collects]
    BY <1>2
  <2>3. servers' = [servers EXCEPT ![Of(c)].threads = @ \cup {c}] => servers' = [servers EXCEPT ![Of(c)] = more]
    BY <1>2
  <2>4. UNCHANGED servers => servers' = [servers EXCEPT ![Of(c)] = old]
    BY <1>2
  <2> HIDE DEF goes, collects, more
  <2> QED
    BY <1>2, <2>1, <2>2, <2>3, <2>4 DEF replied
<1> HIDE DEF goes, collects, more
<1>7. ASSUME servers' = [servers EXCEPT ![Of(c)] = more], NEW next \in {"thread/inject_items", "turn/start"},
             callers' = [callers EXCEPT ![c] = goes(next)]
      PROVE  PoolInv'
  <2>1. ThreadGoes(c, more, goes(next))
    BY <1>1, <1>2, <1>4, <1>5, <1>7 DEF ThreadGoes
  <2> QED
    BY <1>1, <1>2, <1>4, <1>5, <2>1, ThreadStep
<1>8. CASE /\ was.call = "thread/inject_items" /\ servers' = [servers EXCEPT ![Of(c)] = old]
           /\ callers' = [callers EXCEPT ![c] = goes("turn/start")]
  <2>1. ThreadGoes(c, old, goes("turn/start"))
    BY <1>1, <1>2, <1>3, <1>4, <1>8 DEF ThreadGoes
  <2> QED
    BY <1>1, <1>2, <1>4, <2>1, ThreadStep
<1>9. CASE /\ was.call = "turn/start" /\ servers' = [servers EXCEPT ![Of(c)] = old]
           /\ callers' = [callers EXCEPT ![c] = collects]
  <2>1. ThreadGoes(c, old, collects)
    BY <1>1, <1>2, <1>3, <1>4, <1>9 DEF ThreadGoes
  <2> QED
    BY <1>1, <1>2, <1>4, <2>1, ThreadStep
<1> QED
  BY <1>6, <1>7, <1>8, <1>9

\* A thread that gives up is no longer waited for, or no longer subscribed.
LEMMA LeavesKeeps ==
  ASSUME PoolInv, NEW c \in Callers, ~At(c, "idle"), UNCHANGED <<pool, spares>>,
         NEW pc \in {"leave", "release"}, callers' = [callers EXCEPT ![c].pc = pc],
         \/ UNCHANGED servers
         \/ servers' = [servers EXCEPT ![Of(c)].pending = @ \ {c}]
         \/ servers' = [servers EXCEPT ![Of(c)].threads = @ \ {c}]
  PROVE  PoolInv'
<1>2. PICK old \in Server, was \in Caller :
           /\ old = servers[Of(c)] /\ was = callers[c] /\ was.server = Of(c)
           /\ servers = [servers EXCEPT ![Of(c)] = old]
           /\ old.route = "told" => old.pending = {}
  BY Has
<1> DEFINE leaves == [was EXCEPT !.pc = pc]
           one == [old EXCEPT !.pending = @ \ {c}]
           two == [old EXCEPT !.threads = @ \ {c}]
<1>4. leaves \in Caller /\ leaves.pc = pc /\ leaves.server = was.server /\ callers' = [callers EXCEPT ![c] = leaves]
  BY <1>2 DEF Caller
<1>5. /\ one \in Server /\ one.active = old.active /\ one.served = old.served /\ one.holder = old.holder
      /\ one.up = old.up /\ one.wrapper = old.wrapper /\ one.route = old.route /\ one.threads = old.threads
      /\ one.pending = old.pending \ {c}
  BY DEF Server
<1>6. /\ two \in Server /\ two.active = old.active /\ two.served = old.served /\ two.holder = old.holder
      /\ two.up = old.up /\ two.wrapper = old.wrapper /\ two.route = old.route /\ two.pending = old.pending
      /\ two.threads = old.threads \ {c}
  BY DEF Server
<1>7. \/ servers' = [servers EXCEPT ![Of(c)] = old]
      \/ servers' = [servers EXCEPT ![Of(c)] = one]
      \/ servers' = [servers EXCEPT ![Of(c)] = two]
  BY <1>2
<1> HIDE DEF leaves, one, two
<1>8. CASE servers' = [servers EXCEPT ![Of(c)] = old]
  <2>1. ThreadGoes(c, old, leaves)
    BY <1>2, <1>4, <1>8 DEF ThreadGoes
  <2> QED
    BY <1>2, <1>4, <2>1, ThreadStep
<1>9. CASE servers' = [servers EXCEPT ![Of(c)] = one]
  <2>1. ThreadGoes(c, one, leaves)
    BY <1>2, <1>4, <1>5, <1>9 DEF ThreadGoes
  <2> QED
    BY <1>2, <1>4, <1>5, <2>1, ThreadStep
<1>10. CASE servers' = [servers EXCEPT ![Of(c)] = two]
  <2>1. ThreadGoes(c, two, leaves)
    BY <1>2, <1>4, <1>6, <1>10 DEF ThreadGoes
  <2> QED
    BY <1>2, <1>4, <1>6, <2>1, ThreadStep
<1> QED
  BY <1>7, <1>8, <1>9, <1>10

LEMMA FailedKeeps == ASSUME PoolInv, NEW c \in Callers, failed(c) \/ collected(c) \/ leave(c) PROVE PoolInv'
<1>1. ~At(c, "idle") /\ UNCHANGED <<pool, spares>>
  BY DEF failed, collected, leave, At
<1>2. PICK pc \in {"leave", "release"} : callers' = [callers EXCEPT ![c].pc = pc]
  BY DEF failed, collected, leave, Moves
<1>3. \/ UNCHANGED servers
      \/ servers' = [servers EXCEPT ![Of(c)].pending = @ \ {c}]
      \/ servers' = [servers EXCEPT ![Of(c)].threads = @ \ {c}]
  BY DEF failed, collected, leave
<1> QED
  BY <1>1, <1>2, <1>3, LeavesKeeps

-----------------------------------------------------------------------------
(* What a process and its reader do *)

\* A process changes, and no thread does: what it runs, who holds it, how far its reader is.
LEMMA ServerStep ==
  ASSUME PoolInv, UNCHANGED <<callers, spares>>,
         NEW s \in Processes, NEW known \in Server, servers' = [servers EXCEPT ![s] = known],
         pool' \in {pool, pool \cup {s}},
         known.active = servers[s].active, known.served = servers[s].served,
         known.pending = servers[s].pending, known.threads = servers[s].threads,
         known.route = "told" => servers[s].route = "told",
         known.holder # "none" => servers[s].holder # "none" /\ pool' = pool,
         known.up /\ known.wrapper =>
           s \in pool' \/ known.holder # "none" \/ (known.active > 0 /\ known.route # "reads")
  PROVE  PoolInv'
<1>1. PoolTyped
  BY DEF PoolInv
<1>2. /\ servers' \in Seq(Server) /\ Processes' = Processes
      /\ \A t \in Processes : servers'[t] = IF t = s THEN known ELSE servers[t]
  BY <1>1, ServerSet
<1>3. PoolTyped' /\ Seated'
  BY <1>1, <1>2 DEF PoolTyped, PoolInv, Seated, Of, At
<1>4. \A t \in Processes : Holders(t)' = Holders(t)
  BY DEF Holders
<1>5. Booked'
  BY <1>2, <1>4 DEF PoolInv, Booked
<1>6. Found'
  BY <1>2 DEF PoolInv, Found, Kept
<1>7. Read'
  BY <1>2 DEF PoolInv, Read, Dead
<1>8. ASSUME NEW d \in Callers PROVE WaitedAt(d)' /\ SubscribedAt(d)'
  <2>1. callers'[d] = callers[d]
    OBVIOUS
  <2>2. ~At(d, "idle") => Of(d) \in Processes
    BY HasServer
  <2>3. ~At(d, "idle") =>
            /\ d \in servers[Of(d)].pending => d \in servers'[Of(d)].pending
            /\ d \in servers[Of(d)].threads => d \in servers'[Of(d)].threads
            /\ servers'[Of(d)].route = "told" => servers[Of(d)].route = "told"
    BY <1>2, <2>2
  <2> QED
    BY <2>1, <2>3, OtherKept
<1> QED
  BY <1>3, <1>5, <1>6, <1>7, <1>8 DEF PoolInv, Waited, Subscribed

LEMMA ProcessKeeps ==
  ASSUME PoolInv, NEW s \in Processes, add_spare(s) \/ close(s) \/ reads_end(s) \/ process_ends(s) \/ wrapper_ends(s)
  PROVE  PoolInv'
<1>1. PICK old \in Server : old = servers[s]
  BY DEF PoolInv, PoolTyped, Processes
<1>2. /\ old.route = "told" => old.pending = {}
      /\ old.up /\ old.wrapper =>
           s \in pool \/ old.holder # "none" \/ (old.active > 0 /\ old.route # "reads")
  BY <1>1 DEF PoolInv, Read, Found, Kept
<1>3. CASE add_spare(s)
  <2> DEFINE known == [old EXCEPT !.holder = "none"]
  <2>1. servers' = [servers EXCEPT ![s] = known] /\ pool' = pool \cup {s} /\ UNCHANGED <<callers, spares>>
    BY <1>1, <1>3 DEF add_spare
  <2>2. /\ known \in Server /\ known.active = old.active /\ known.served = old.served /\ known.holder = "none"
        /\ known.up = old.up /\ known.wrapper = old.wrapper /\ known.route = old.route /\ known.threads = old.threads
        /\ known.pending = old.pending
    BY DEF Server
  <2> HIDE DEF known
  <2> QED
    BY <1>1, <1>2, <2>1, <2>2, ServerStep
<1>4. CASE close(s)
  <2> DEFINE known == [old EXCEPT !.holder = "none", !.up = FALSE, !.wrapper = FALSE]
  <2>1. servers' = [servers EXCEPT ![s] = known] /\ UNCHANGED <<pool, callers, spares>>
    BY <1>1, <1>4 DEF close
  <2>2. /\ known \in Server /\ known.active = old.active /\ known.served = old.served /\ known.holder = "none"
        /\ ~known.up /\ known.route = old.route /\ known.threads = old.threads /\ known.pending = old.pending
    BY DEF Server
  <2> HIDE DEF known
  <2> QED
    BY <1>1, <1>2, <2>1, <2>2, ServerStep
<1>5. CASE reads_end(s)
  <2> DEFINE known == [old EXCEPT !.route = "ended"]
  <2>1. servers' = [servers EXCEPT ![s] = known] /\ UNCHANGED <<pool, callers, spares>>
    BY <1>1, <1>5 DEF reads_end
  <2>2. /\ known \in Server /\ known.active = old.active /\ known.served = old.served /\ known.holder = old.holder
        /\ known.up = old.up /\ known.wrapper = old.wrapper /\ known.route = "ended" /\ known.threads = old.threads
        /\ known.pending = old.pending
    BY DEF Server
  <2> HIDE DEF known
  <2> QED
    BY <1>1, <1>2, <2>1, <2>2, ServerStep
<1>6. CASE process_ends(s)
  <2> DEFINE known == [old EXCEPT !.up = FALSE, !.wrapper = FALSE]
  <2>1. servers' = [servers EXCEPT ![s] = known] /\ UNCHANGED <<pool, callers, spares>>
    BY <1>1, <1>6 DEF process_ends
  <2>2. /\ known \in Server /\ known.active = old.active /\ known.served = old.served /\ known.holder = old.holder
        /\ ~known.up /\ known.route = old.route /\ known.threads = old.threads /\ known.pending = old.pending
    BY DEF Server
  <2> HIDE DEF known
  <2> QED
    BY <1>1, <1>2, <2>1, <2>2, ServerStep
<1>7. CASE wrapper_ends(s)
  <2> DEFINE known == [old EXCEPT !.wrapper = FALSE]
  <2>1. servers' = [servers EXCEPT ![s] = known] /\ UNCHANGED <<pool, callers, spares>>
    BY <1>1, <1>7 DEF wrapper_ends
  <2>2. /\ known \in Server /\ known.active = old.active /\ known.served = old.served /\ known.holder = old.holder
        /\ known.up = old.up /\ ~known.wrapper /\ known.route = old.route /\ known.threads = old.threads
        /\ known.pending = old.pending
    BY DEF Server
  <2> HIDE DEF known
  <2> QED
    BY <1>1, <1>2, <2>1, <2>2, ServerStep
<1> QED
  BY <1>3, <1>4, <1>5, <1>6, <1>7

\* A reply, or the end of a turn, is put in a thread's queue.
LEMMA RoutesKeeps ==
  ASSUME PoolInv, NEW s \in Processes, NEW c \in Callers, routes_reply(s, c) \/ routes_end(s, c)
  PROVE  PoolInv'
<1>1. PICK old \in Server : old = servers[s]
  BY DEF PoolInv, PoolTyped, Processes
<1>2. PICK was \in Caller : was = callers[c]
  BY DEF PoolInv, PoolTyped
<1>3. UNCHANGED <<pool, spares>> /\ old.route = "reads" /\ was.server = Of(c)
  BY <1>1, <1>2 DEF routes_reply, routes_end, Of
<1> DEFINE one == [old EXCEPT !.pending = @ \ {c}]
<1>4. /\ one \in Server /\ one.active = old.active /\ one.served = old.served /\ one.holder = old.holder
      /\ one.up = old.up /\ one.wrapper = old.wrapper /\ one.route = old.route /\ one.threads = old.threads
      /\ one.pending = old.pending \ {c}
  BY DEF Server
<1>5. \/ servers' = [servers EXCEPT ![s] = one] /\ \E reply \in {"reply", "error"} : callers' = [callers EXCEPT ![c] = [was EXCEPT !.reply = reply]]
      \/ servers' = [servers EXCEPT ![s] = old] /\ callers' = [callers EXCEPT ![c] = [was EXCEPT !.inbox = "end"]]
  BY <1>1, <1>2 DEF routes_reply, routes_end, PoolInv, PoolTyped
<1> HIDE DEF one
<1>6. PICK known \in {one, old} :
        servers' = [servers EXCEPT ![s] = known]
        /\ \/ \E reply \in {"reply", "error"} : callers' = [callers EXCEPT ![c] = [was EXCEPT !.reply = reply]]
           \/ known = old /\ callers' = [callers EXCEPT ![c] = [was EXCEPT !.inbox = "end"]]
  BY <1>5
<1>7. PICK thread \in Caller :
        /\ callers' = [callers EXCEPT ![c] = thread]
        /\ thread.server = was.server /\ thread.pc = was.pc /\ thread.call = was.call
        /\ thread.inbox \in {was.inbox, "end"}
        /\ thread.reply # "none" \/ (known = old /\ thread.reply = was.reply)
  <2>1. ASSUME NEW reply \in {"reply", "error"}
        PROVE  /\ [was EXCEPT !.reply = reply] \in Caller /\ [was EXCEPT !.reply = reply].reply # "none"
               /\ [was EXCEPT !.reply = reply].server = was.server /\ [was EXCEPT !.reply = reply].pc = was.pc
               /\ [was EXCEPT !.reply = reply].call = was.call /\ [was EXCEPT !.reply = reply].inbox = was.inbox
    BY DEF Caller
  <2>2. /\ [was EXCEPT !.inbox = "end"] \in Caller /\ [was EXCEPT !.inbox = "end"].reply = was.reply
        /\ [was EXCEPT !.inbox = "end"].server = was.server /\ [was EXCEPT !.inbox = "end"].pc = was.pc
        /\ [was EXCEPT !.inbox = "end"].call = was.call /\ [was EXCEPT !.inbox = "end"].inbox = "end"
    BY DEF Caller
  <2> QED
    BY <1>6, <2>1, <2>2
<1>8. /\ known \in Server /\ known.active = old.active /\ known.served = old.served /\ known.holder = old.holder
      /\ known.up = old.up /\ known.wrapper = old.wrapper /\ known.route = old.route /\ known.threads = old.threads
      /\ old.pending \subseteq known.pending \cup {c} /\ (known = old => known.pending = old.pending)
  BY <1>4
<1>9. PoolTyped /\ WaitedAt(c) /\ SubscribedAt(c)
  BY DEF PoolInv, Waited, Subscribed
<1>10. /\ \A t \in Processes : servers'[t] = IF t = s THEN known ELSE servers[t]
       /\ callers'[c] = thread
  BY <1>6, <1>7, <1>8, <1>9, ServerSet, CallerSet
<1>11. Of(c)' = Of(c) /\ (\A pc \in {"idle", "call", "wait", "collect"} : At(c, pc)' <=> At(c, pc))
       /\ thread.server = Of(c) /\ (thread.pc = "idle" <=> At(c, "idle"))
  BY <1>2, <1>3, <1>7, <1>10 DEF Of, At
<1>12. At(c, "call") \/ At(c, "wait") \/ At(c, "collect") => Of(c) \in Processes
  BY HasServer DEF At
<1>13. Of(c) \in Processes =>
         /\ servers'[Of(c)].threads = servers[Of(c)].threads /\ servers'[Of(c)].route = servers[Of(c)].route
         /\ (known = old => servers'[Of(c)].pending = servers[Of(c)].pending)
  BY <1>1, <1>8, <1>10
<1>14. WaitedAt(c)'
  BY <1>2, <1>7, <1>9, <1>10, <1>11, <1>12, <1>13 DEF WaitedAt
<1>15. SubscribedAt(c)'
  BY <1>2, <1>7, <1>9, <1>10, <1>11, <1>12, <1>13 DEF SubscribedAt, Told
<1>16. known.route # "told"
  BY <1>3, <1>8
<1> QED
  BY <1>1, <1>3, <1>6, <1>7, <1>8, <1>11, <1>14, <1>15, <1>16, Goes_on

\* Everyone who waits is told: who waits for a reply has an error, and who is subscribed the end.
LEMMA TellsKeeps == ASSUME PoolInv, NEW s \in Processes, tells(s) PROVE PoolInv'
<1>1. PICK old \in Server : old = servers[s]
  BY DEF PoolInv, PoolTyped, Processes
<1> DEFINE known == [old EXCEPT !.route = "told", !.pending = {}]
<1>2. /\ known \in Server /\ known.active = old.active /\ known.served = old.served /\ known.holder = old.holder
      /\ known.up = old.up /\ known.wrapper = old.wrapper /\ known.route = "told" /\ known.threads = old.threads
      /\ known.pending = {}
  BY DEF Server
<1>3. servers' = [servers EXCEPT ![s] = known] /\ UNCHANGED <<pool, spares>> /\ old.route = "ended"
  BY <1>1 DEF tells
<1> HIDE DEF known
<1>4. PoolTyped
  BY DEF PoolInv
<1>5. /\ servers' \in Seq(Server) /\ Processes' = Processes
      /\ \A t \in Processes : servers'[t] = IF t = s THEN known ELSE servers[t]
  BY <1>2, <1>3, <1>4, ServerSet
<1>6. \A c \in Callers :
        /\ callers'[c] \in Caller
        /\ callers'[c].server = callers[c].server /\ callers'[c].pc = callers[c].pc /\ callers'[c].call = callers[c].call
        /\ callers'[c].reply = IF c \in old.pending \cap Holders(s) THEN "error" ELSE callers[c].reply
        /\ callers'[c].inbox = IF c \in old.threads THEN "end" ELSE callers[c].inbox
  <2> SUFFICES ASSUME NEW c \in Callers
               PROVE  /\ callers'[c] \in Caller
                      /\ callers'[c].server = callers[c].server /\ callers'[c].pc = callers[c].pc
                      /\ callers'[c].call = callers[c].call
                      /\ callers'[c].reply = IF c \in old.pending \cap Holders(s) THEN "error" ELSE callers[c].reply
                      /\ callers'[c].inbox = IF c \in old.threads THEN "end" ELSE callers[c].inbox
    OBVIOUS
  <2>1. PICK was \in Caller : was = callers[c]
    BY <1>4 DEF PoolTyped
  <2>2. callers'[c] = [was EXCEPT !.reply = IF c \in old.pending \cap Holders(s) THEN "error" ELSE @,
                                  !.inbox = IF c \in old.threads THEN "end" ELSE @]
    BY <1>1, <2>1 DEF tells
  <2> QED
    BY <2>1, <2>2 DEF Caller
<1>7. callers' = [c \in Callers |-> callers'[c]]
  BY DEF tells
<1>8. callers' \in [Callers -> Caller]
  <2>1. \A c \in Callers : callers'[c] \in Caller
    BY <1>6
  <2> QED
    BY <1>7, <2>1
<1>9. PoolTyped'
  BY <1>3, <1>4, <1>5, <1>8 DEF PoolTyped
<1>10. \A c \in Callers : Of(c)' = Of(c) /\ \A pc \in {"idle", "call", "wait", "collect"} : At(c, pc)' <=> At(c, pc)
  BY <1>6 DEF Of, At
<1>11. \A t \in Processes : servers'[t].active = servers[t].active /\ servers'[t].served = servers[t].served
                           /\ servers'[t].holder = servers[t].holder
  BY <1>1, <1>2, <1>5
<1>12. Seated' /\ Booked'
  BY <1>3, <1>5, <1>10, <1>11, BooksKept
<1>13. Found'
  <2>1. \A t \in Processes : servers'[t].up = servers[t].up /\ servers'[t].wrapper = servers[t].wrapper
                           /\ servers'[t].holder = servers[t].holder
                           /\ servers'[t].active = servers[t].active
                           /\ (servers[t].route # "reads" => servers'[t].route # "reads")
    BY <1>1, <1>2, <1>5
  <2> QED
    BY <1>3, <1>5, <2>1, FoundKept
<1>14. Read'
  BY <1>1, <1>2, <1>3, <1>5 DEF PoolInv, Read, Dead
<1>15. ASSUME NEW c \in Callers PROVE WaitedAt(c)' /\ SubscribedAt(c)'
  <2>1. WaitedAt(c) /\ SubscribedAt(c)
    BY DEF PoolInv, Waited, Subscribed
  <2>2. Of(c)' = Of(c) /\ \A pc \in {"idle", "call", "wait", "collect"} : At(c, pc)' <=> At(c, pc)
    BY <1>10
  <2>3. At(c, "call") \/ At(c, "wait") \/ At(c, "collect") => Of(c) \in Processes
    BY HasServer DEF At
  <2>4. Of(c) \in Processes =>
          servers'[Of(c)].threads = servers[Of(c)].threads /\ (Of(c) # s => servers'[Of(c)] = servers[Of(c)])
    BY <1>1, <1>2, <1>5
  <2>5. c \in Holders(s) <=> Of(c) = s
    BY DEF Holders, Of
  <2>6. WaitedAt(c)'
    BY <1>1, <1>6, <2>1, <2>2, <2>3, <2>4, <2>5 DEF WaitedAt
  <2>7. SubscribedAt(c)'
    BY <1>1, <1>6, <2>1, <2>2, <2>3, <2>4 DEF SubscribedAt, Told
  <2> QED
    BY <2>6, <2>7
<1> QED
  BY <1>9, <1>12, <1>13, <1>14, <1>15 DEF PoolInv, Waited, Subscribed

-----------------------------------------------------------------------------
(* The pool *)

\* A thread that has left is idle, and its process counts one fewer; a process retired is out of the pool, and has none.
LEMMA ReleaseKeeps == ASSUME PoolInv, NEW c \in Callers, release(c) PROVE PoolInv'
<1>1. At(c, "release") /\ ~At(c, "idle") /\ UNCHANGED spares
  BY DEF release, At
<1>2. PICK s \in Processes : s = Of(c)
  BY <1>1, HasServer
<1>3. PICK old \in Server : old = servers[s]
  BY <1>1, <1>2, HasServer
<1>4. PICK gone \in BOOLEAN : gone = retired(s)
  BY DEF retired
<1>5. IsFiniteSet(Holders(s)) /\ c \in Holders(s) /\ old.active = Cardinality(Holders(s))
      /\ old.active <= threads_per_server /\ old.served <= recycle_after
      /\ (old.holder # "none" => old.active = 0 /\ s \notin pool)
  <2>1. IsFiniteSet(Holders(s))
    BY FS_Subset, PoolAssumption DEF Holders
  <2> QED
    BY <1>2, <1>3, <2>1 DEF Holders, Of, PoolInv, Booked
<1>6. Cardinality(Holders(s) \ {c}) = old.active - 1 /\ old.active - 1 \in Nat /\ old.holder = "none"
  <2>1. Cardinality(Holders(s)) \in Nat /\ Cardinality(Holders(s)) # 0
    BY <1>5, FS_CardinalityType, FS_EmptySet
  <2>2. Cardinality(Holders(s) \ {c}) = Cardinality(Holders(s)) - 1
    BY <1>5, FS_RemoveElement
  <2>3. old.holder = "none"
    BY <1>5, <2>1
  <2> QED
    BY <1>5, <2>1, <2>2, <2>3
<1> DEFINE known == [old EXCEPT !.active = @ - 1, !.holder = IF gone THEN "closer" ELSE @]
<1>7. /\ known \in Server /\ known.active = old.active - 1 /\ known.served = old.served
      /\ known.holder = (IF gone THEN "closer" ELSE "none")
      /\ known.up = old.up /\ known.wrapper = old.wrapper /\ known.route = old.route /\ known.threads = old.threads
      /\ known.pending = old.pending
  BY <1>6 DEF Server
<1>8. /\ servers' = [servers EXCEPT ![s] = known] /\ callers' = [callers EXCEPT ![c] = NoCaller]
      /\ pool' = (IF gone THEN pool \ {s} ELSE pool)
  BY <1>2, <1>3, <1>4 DEF release
<1> HIDE DEF known
<1>9. gone => old.active = 1
  BY <1>3, <1>4 DEF retired
<1>10. PoolTyped
  BY DEF PoolInv
<1>11. /\ servers' \in Seq(Server) /\ Processes' = Processes
       /\ \A t \in Processes : servers'[t] = IF t = s THEN known ELSE servers[t]
  BY <1>7, <1>8, <1>10, ServerSet
<1>12. /\ callers' \in [Callers -> Caller]
       /\ \A d \in Callers : callers'[d] = IF d = c THEN NoCaller ELSE callers[d]
  <2>1. NoCaller \in Caller
    BY DEF NoCaller, Caller
  <2> QED
    BY <1>8, <1>10, <2>1, CallerSet
<1>13. PoolTyped'
  BY <1>1, <1>8, <1>10, <1>11, <1>12 DEF PoolTyped
<1>14. Seated'
  BY <1>11, <1>12 DEF PoolInv, Seated, Of, At, NoCaller
<1>15. Holders(s)' = Holders(s) \ {c} /\ \A t \in Processes \ {s} : Holders(t)' = Holders(t)
  <2>1. \A d \in Callers : callers'[d].server = IF d = c THEN 0 ELSE callers[d].server
    BY <1>12 DEF NoCaller
  <2>2. 0 \notin Processes
    BY DEF PoolTyped, PoolInv, Processes
  <2> QED
    BY <1>2, <2>1, <2>2 DEF Holders, Of
<1>16. Booked'
  <2> SUFFICES ASSUME NEW t \in Processes
               PROVE  /\ servers'[t].active = Cardinality(Holders(t)')
                      /\ servers'[t].active <= threads_per_server /\ servers'[t].served <= recycle_after
                      /\ servers'[t].holder # "none" => servers'[t].active = 0 /\ t \notin pool'
    BY <1>11 DEF Booked
  <2>1. CASE t = s
    <3>1. servers'[t] = known /\ Holders(t)' = Holders(s) \ {c} /\ old.active \in Nat /\ threads_per_server \in Nat
      BY <1>11, <1>15, <2>1, PoolAssumption DEF Server
    <3>2. Holders(t)' = Holders(s) \ {c} => Cardinality(Holders(t)') = old.active - 1
      BY <1>6
    <3> QED
      BY <1>5, <1>7, <1>8, <1>9, <2>1, <3>1, <3>2
  <2>2. CASE t # s
    <3>1. servers'[t] = servers[t] /\ Holders(t)' = Holders(t) /\ (t \in pool' <=> t \in pool)
      BY <1>8, <1>11, <1>15, <2>2
    <3> QED
      BY <3>1 DEF PoolInv, Booked
  <2> QED
    BY <2>1, <2>2
<1>17. Found'
  <2>1. gone \/ known.active > 0 \/ old.route = "reads"
    <3>1. old.active \in Nat /\ (old.active = 1 /\ old.route # "reads" => gone)
      BY <1>3, <1>4 DEF retired, Dead, Server
    <3>2. old.active - 1 \in Nat
      BY <1>6
    <3> QED
      BY <1>7, <3>1, <3>2
  <2>2. old.up /\ old.wrapper => s \in pool \/ old.route # "reads"
    BY <1>3, <1>6 DEF PoolInv, Found, Kept
  <2>3. known.up /\ known.wrapper =>
          s \in pool' \/ known.holder # "none" \/ (known.active > 0 /\ known.route # "reads")
    BY <1>7, <1>8, <2>1, <2>2
  <2>4. \A t \in Processes \ {s} : servers'[t] = servers[t] /\ (t \in pool' <=> t \in pool)
    BY <1>8, <1>11
  <2> QED
    BY <1>11, <2>3, <2>4 DEF PoolInv, Found, Kept
<1>18. Read'
  BY <1>3, <1>7, <1>11 DEF PoolInv, Read, Dead
<1>19. ASSUME NEW d \in Callers PROVE WaitedAt(d)' /\ SubscribedAt(d)'
  <2>1. CASE d = c
    BY <1>12, <2>1 DEF WaitedAt, SubscribedAt, At, NoCaller
  <2>2. CASE d # c
    <3>1. callers'[d] = callers[d]
      BY <1>12, <2>2
    <3>2. ~At(d, "idle") => Of(d) \in Processes
      BY HasServer
    <3>3. ~At(d, "idle") =>
            /\ d \in servers[Of(d)].pending => d \in servers'[Of(d)].pending
            /\ d \in servers[Of(d)].threads => d \in servers'[Of(d)].threads
            /\ servers'[Of(d)].route = "told" => servers[Of(d)].route = "told"
      BY <1>3, <1>7, <1>11, <3>2
    <3> QED
      BY <3>1, <3>3, OtherKept
  <2> QED
    BY <2>1, <2>2
<1> QED
  BY <1>13, <1>14, <1>16, <1>17, <1>18, <1>19 DEF PoolInv, Waited, Subscribed

\* Processes are added, or only counted otherwise, and an idle thread may take one: the queues are as they were.
LEMMA RowGrows ==
  ASSUME PoolInv, servers' \in Seq(Server), Processes \subseteq Processes', spares' \in Nat, pool' \subseteq Processes',
         \A t \in Processes :
           /\ servers'[t].up = servers[t].up /\ servers'[t].wrapper = servers[t].wrapper
           /\ servers'[t].route = servers[t].route
           /\ servers'[t].pending = servers[t].pending /\ servers'[t].threads = servers[t].threads,
         \A t \in Processes' \ Processes :
           servers'[t].route = "reads" /\ servers'[t].wrapper /\ servers'[t].pending = {},
         callers' \in [Callers -> Caller],
         \A c \in Callers :
           \/ callers'[c] = callers[c]
           \/ /\ callers'[c].pc = "call" /\ callers'[c].call = "thread/start"
              /\ callers'[c].server \in Processes',
         Booked',
         \A t \in Processes' : Kept(t)'
  PROVE  PoolInv'
<1>1. PoolTyped'
  BY DEF PoolTyped
<1>2. 0 \notin Processes'
  BY DEF Processes
<1>3. Seated'
  BY <1>2 DEF PoolInv, Seated, Of, At
<1>4. Found'
  BY DEF PoolInv, Found, Kept
<1>5. Read'
  BY DEF PoolInv, Read, Dead
<1>6. ASSUME NEW d \in Callers PROVE WaitedAt(d)' /\ SubscribedAt(d)'
  <2>1. CASE callers'[d] = callers[d]
    <3>1. ~At(d, "idle") => Of(d) \in Processes
      BY HasServer
    <3>2. ~At(d, "idle") =>
            /\ d \in servers[Of(d)].pending => d \in servers'[Of(d)].pending
            /\ d \in servers[Of(d)].threads => d \in servers'[Of(d)].threads
            /\ servers'[Of(d)].route = "told" => servers[Of(d)].route = "told"
      BY <3>1
    <3> QED
      BY <2>1, <3>2, OtherKept
  <2>2. CASE callers'[d].pc = "call" /\ callers'[d].call = "thread/start"
    BY <2>2 DEF WaitedAt, SubscribedAt, At
  <2> QED
    BY <2>1, <2>2
<1> QED
  BY <1>1, <1>3, <1>4, <1>5, <1>6, Booked' DEF PoolInv, Waited, Subscribed

\* A process that was started is the last.
LEMMA OneMore ==
  ASSUME NEW known \in Seq(Server), NEW new \in Server
  PROVE  /\ Append(known, new) \in Seq(Server) /\ DOMAIN Append(known, new) = DOMAIN known \cup {Len(known) + 1}
         /\ Append(known, new)[Len(known) + 1] = new /\ Len(known) + 1 \notin DOMAIN known
         /\ \A t \in DOMAIN known : Append(known, new)[t] = known[t]
OBVIOUS

LEMMA StartSpareKeeps == ASSUME PoolInv, start_spare PROVE PoolInv'
<1>1. spares' \in Nat /\ UNCHANGED <<pool, callers>>
  BY DEF start_spare, PoolInv, PoolTyped
<1>2. CASE UNCHANGED servers
  <2>1. Booked' /\ (\A c \in Callers : callers'[c] = callers[c])
    BY <1>1, <1>2 DEF PoolInv, Booked, Processes, Holders
  <2>2. Processes' = Processes /\ servers' \in Seq(Server) /\ callers' \in [Callers -> Caller] /\ pool' \subseteq Processes'
    BY <1>1, <1>2 DEF PoolInv, PoolTyped, Processes
  <2>3. \A t \in Processes' : Kept(t)'
    BY <1>1, <1>2, <2>2 DEF PoolInv, Found, Kept
  <2> QED
    BY <1>1, <1>2, <2>1, <2>2, <2>3, RowGrows
<1>3. CASE servers' = Append(servers, Started("spare", 0))
  <2>1. PICK new \in Server : new = Started("spare", 0)
    BY DEF Started, Server
  <2>2. new.holder = "spare" /\ new.active = 0 /\ new.served = 0 /\ new.pending = {} /\ new.route = "reads" /\ new.wrapper
    BY <2>1 DEF Started
  <2>3. servers \in Seq(Server) /\ pool \subseteq Processes /\ callers \in [Callers -> Caller]
    BY DEF PoolInv, PoolTyped
  <2>4. PICK n \in Nat : n = Len(servers) + 1
    BY <2>3
  <2>5. /\ servers' \in Seq(Server) /\ Processes' = Processes \cup {n}
        /\ servers'[n] = new /\ n \notin Processes
        /\ \A t \in Processes : servers'[t] = servers[t]
    BY <1>3, <2>1, <2>3, <2>4, OneMore DEF Processes
  <2>6. (\A t \in Processes : Holders(t)' = Holders(t)) /\ Holders(n)' = {}
    <3>1. n # 0
      BY <2>3, <2>4
    <3> QED
      BY <1>1, <2>5, <3>1 DEF Holders, PoolInv, Seated, Of
  <2>7. Booked'
    <3> SUFFICES ASSUME NEW t \in Processes'
                 PROVE  /\ servers'[t].active = Cardinality(Holders(t)')
                        /\ servers'[t].active <= threads_per_server /\ servers'[t].served <= recycle_after
                        /\ servers'[t].holder # "none" => servers'[t].active = 0 /\ t \notin pool'
      BY DEF Booked
    <3>1. CASE t = n
      <4>1. Cardinality(Holders(t)') = 0
        BY <2>6, <3>1, FS_EmptySet
      <4> QED
        BY <1>1, <2>2, <2>3, <2>5, <3>1, <4>1, PoolAssumption
    <3>2. CASE t \in Processes
      <4>1. servers'[t] = servers[t] /\ Holders(t)' = Holders(t)
        BY <2>5, <2>6, <3>2
      <4> QED
        BY <1>1, <3>2, <4>1 DEF PoolInv, Booked
    <3> QED
      BY <2>5, <3>1, <3>2
  <2>8. \A t \in Processes' : Kept(t)'
    BY <1>1, <2>2, <2>5 DEF PoolInv, Found, Kept
  <2>9. callers' \in [Callers -> Caller] /\ pool' \subseteq Processes' /\ \A c \in Callers : callers'[c] = callers[c]
    BY <1>1, <2>3, <2>5
  <2> QED
    BY <1>1, <2>2, <2>5, <2>7, <2>8, <2>9, RowGrows
<1> QED
  BY <1>2, <1>3 DEF start_spare

-----------------------------------------------------------------------------
(* acquire *)

SweptServers == Closing([s \in Processes |-> Swept(s)])
Left == {s \in pool : ~Gone(s)}

\* What a sweep leaves: the processes that are gone and idle are for somebody to close, and the pool holds none of them.
LEMMA Sweeps ==
  ASSUME PoolInv, NEW swept, swept = SweptServers, NEW left, left = Left
  PROVE  /\ swept \in Seq(Server) /\ DOMAIN swept = Processes /\ Len(swept) = Len(servers) /\ left \subseteq Processes
         /\ \A t \in Processes :
              /\ swept[t].active = servers[t].active /\ swept[t].served = servers[t].served
              /\ swept[t].up = servers[t].up /\ swept[t].wrapper = servers[t].wrapper
              /\ swept[t].route = servers[t].route
              /\ swept[t].pending = servers[t].pending /\ swept[t].threads = servers[t].threads
              /\ swept[t].holder # "none" => swept[t].active = 0 /\ t \notin left
              /\ swept[t].up /\ swept[t].wrapper =>
                   t \in left \/ swept[t].holder # "none" \/ (swept[t].active > 0 /\ swept[t].route # "reads")
<1>1. servers \in Seq(Server) /\ pool \subseteq Processes /\ Processes = 1 .. Len(servers) /\ Len(servers) \in Nat
  BY DEF PoolInv, PoolTyped, Processes
<1>2. \A t \in Processes : swept[t] = IF Swept(t) THEN [servers[t] EXCEPT !.holder = "closer"] ELSE servers[t]
  BY DEF Closing, SweptServers
<1>3. ASSUME NEW t \in Processes
      PROVE  /\ swept[t] \in Server
             /\ swept[t].active = servers[t].active /\ swept[t].served = servers[t].served
             /\ swept[t].up = servers[t].up /\ swept[t].wrapper = servers[t].wrapper
             /\ swept[t].route = servers[t].route
             /\ swept[t].pending = servers[t].pending /\ swept[t].threads = servers[t].threads
             /\ swept[t].holder = IF Swept(t) THEN "closer" ELSE servers[t].holder
  <2>1. PICK old \in Server : old = servers[t]
    BY <1>1
  <2>2. swept[t] = IF Swept(t) THEN [old EXCEPT !.holder = "closer"] ELSE old
    BY <1>2, <2>1
  <2>3. CASE Swept(t)
    BY <2>1, <2>2, <2>3 DEF Server
  <2>4. CASE ~Swept(t)
    BY <2>1, <2>2, <2>4
  <2> QED
    BY <2>3, <2>4
<1>4. DOMAIN swept = Processes /\ swept = [t \in Processes |-> swept[t]]
  BY DEF Closing, SweptServers
<1>5. swept \in Seq(Server)
  <2>1. swept \in [1 .. Len(servers) -> Server]
    BY <1>1, <1>3, <1>4
  <2> QED
    BY <1>1, <2>1, SeqDef
<1>6. Len(swept) = Len(servers)
  BY <1>1, <1>4, <1>5
<1>7. ASSUME NEW t \in Processes
      PROVE  /\ swept[t].holder # "none" => swept[t].active = 0 /\ t \notin left
             /\ swept[t].up /\ swept[t].wrapper =>
                  t \in left \/ swept[t].holder # "none" \/ (swept[t].active > 0 /\ swept[t].route # "reads")
  <2>1. /\ servers[t].holder # "none" => servers[t].active = 0 /\ t \notin pool
        /\ servers[t].up /\ servers[t].wrapper =>
             t \in pool \/ servers[t].holder # "none" \/ (servers[t].active > 0 /\ servers[t].route # "reads")
    BY DEF PoolInv, Booked, Found, Kept
  <2>2. servers[t].active \in Nat
    <3>1. servers[t] \in Server
      BY <1>1
    <3> QED
      BY <3>1 DEF Server
  <2> QED
    BY <1>3, <2>1, <2>2 DEF Swept, Gone, Dead, Left
<1>8. left \subseteq Processes
  BY <1>1 DEF Left
<1> QED
  BY <1>3, <1>4, <1>5, <1>6, <1>7, <1>8

\* A thread that is idle takes a process of the pool that may serve one more, or a new one.
LEMMA AcquireKeeps == ASSUME PoolInv, NEW c \in Callers, acquire(c) PROVE PoolInv'
<1>1. PICK swept : swept = SweptServers
  OBVIOUS
<1>2. PICK left : left = Left
  OBVIOUS
<1>3. /\ swept \in Seq(Server) /\ DOMAIN swept = Processes /\ Len(swept) = Len(servers) /\ left \subseteq Processes
      /\ \A t \in Processes :
           /\ swept[t].active = servers[t].active /\ swept[t].served = servers[t].served
           /\ swept[t].up = servers[t].up /\ swept[t].wrapper = servers[t].wrapper
           /\ swept[t].route = servers[t].route
           /\ swept[t].pending = servers[t].pending /\ swept[t].threads = servers[t].threads
           /\ swept[t].holder # "none" => swept[t].active = 0 /\ t \notin left
           /\ swept[t].up /\ swept[t].wrapper =>
                t \in left \/ swept[t].holder # "none" \/ (swept[t].active > 0 /\ swept[t].route # "reads")
  BY <1>1, <1>2, Sweeps
<1>4. PICK n \in Nat : n = Len(servers) + 1
  BY DEF PoolInv, PoolTyped
<1>5. n # 0 /\ n \notin Processes
  BY <1>4 DEF Processes, PoolInv, PoolTyped
<1> DEFINE seated(s) == [NoCaller EXCEPT !.pc = "call", !.call = "thread/start", !.server = s]
           Takes(s) == callers' = [callers EXCEPT ![c] = seated(s)]
<1>6. /\ At(c, "idle") /\ spares' \in {spares, spares + 1}
      /\ \/ \E s \in left :
              /\ Usable(s)
              /\ servers' = [swept EXCEPT ![s].active = @ + 1, ![s].served = @ + 1]
              /\ pool' = left
              /\ Takes(s)
         \/ /\ servers' = Append(swept, Started("none", 1))
            /\ pool' = left \cup {n}
            /\ Takes(n)
         \/ /\ servers' = swept /\ pool' = left /\ UNCHANGED callers
  BY <1>1, <1>2, <1>4 DEF acquire, SparesFor, SweptServers, Left
<1>7. spares' \in Nat
  <2>1. spares \in Nat
    BY DEF PoolInv, PoolTyped
  <2>2. spares' \in {spares, spares + 1}
    BY <1>6
  <2> QED
    BY ONLY <2>1, <2>2
<1>8. callers \in [Callers -> Caller] /\ PoolTyped /\ callers[c].server = 0
  BY <1>6 DEF PoolInv, PoolTyped, Seated, At, Of
<1>9. ASSUME NEW s \in Nat \ {0}, Takes(s)
      PROVE  /\ callers' \in [Callers -> Caller]
             /\ callers'[c].pc = "call" /\ callers'[c].call = "thread/start" /\ callers'[c].server = s
             /\ \A d \in Callers \ {c} : callers'[d] = callers[d]
             /\ Holders(s)' = Holders(s) \cup {c} /\ c \notin Holders(s)
             /\ \A t \in Nat \ {0, s} : Holders(t)' = Holders(t)
  <2>1. seated(s) \in Caller /\ seated(s).pc = "call" /\ seated(s).call = "thread/start" /\ seated(s).server = s
    BY DEF Caller, NoCaller
  <2> HIDE DEF seated
  <2>2. /\ callers' \in [Callers -> Caller]
        /\ \A d \in Callers : callers'[d] = IF d = c THEN seated(s) ELSE callers[d]
    BY <1>8, <1>9, <2>1, CallerSet
  <2>3. \A d \in Callers : callers'[d].server = IF d = c THEN s ELSE callers[d].server
    BY <2>1, <2>2
  <2>4. Holders(s)' = Holders(s) \cup {c} /\ c \notin Holders(s) /\ \A t \in Nat \ {0, s} : Holders(t)' = Holders(t)
    BY <1>8, <2>3 DEF Holders
  <2> QED
    BY <2>1, <2>2, <2>4
<1>10. Processes \subseteq Nat \ {0} /\ {threads_per_server, recycle_after} \subseteq Nat \ {0}
  BY PoolAssumption DEF PoolInv, PoolTyped, Processes
<1>11. \A t \in Processes :
         /\ servers[t].active = Cardinality(Holders(t)) /\ servers[t].active <= threads_per_server
         /\ servers[t].served <= recycle_after
  BY DEF PoolInv, Booked
<1> HIDE DEF Takes
<1>12. ASSUME NEW s \in left, Usable(s), servers' = [swept EXCEPT ![s].active = @ + 1, ![s].served = @ + 1],
              pool' = left, Takes(s)
       PROVE  PoolInv'
  <2>1. s \in Processes /\ s \in Nat \ {0}
    BY <1>3, <1>10
  <2>2. PICK old \in Server : old = swept[s]
    BY <1>3, <2>1
  <2> DEFINE known == [old EXCEPT !.active = @ + 1, !.served = @ + 1]
  <2>3. /\ known \in Server /\ known.active = old.active + 1 /\ known.served = old.served + 1
        /\ known.holder = old.holder /\ known.up = old.up /\ known.wrapper = old.wrapper /\ known.route = old.route
        /\ known.pending = old.pending /\ known.threads = old.threads
    <3>1. old.active + 1 \in Nat /\ old.served + 1 \in Nat
      BY DEF Server
    <3> QED
      BY <3>1 DEF Server
  <2>4. servers' = [swept EXCEPT ![s] = known]
    BY <1>12, <2>2
  <2> HIDE DEF known
  <2>5. /\ servers' \in Seq(Server) /\ Processes' = Processes
        /\ \A t \in Processes : servers'[t] = IF t = s THEN known ELSE swept[t]
    BY <1>3, <2>1, <2>3, <2>4 DEF Processes
  <2>6. /\ callers' \in [Callers -> Caller]
        /\ callers'[c].pc = "call" /\ callers'[c].call = "thread/start" /\ callers'[c].server = s
        /\ \A d \in Callers \ {c} : callers'[d] = callers[d]
        /\ Holders(s)' = Holders(s) \cup {c} /\ c \notin Holders(s)
        /\ \A t \in Nat \ {0, s} : Holders(t)' = Holders(t)
    BY <1>9, <1>12, <2>1
  <2>7. old.active = servers[s].active /\ old.served = servers[s].served /\ old.holder = "none"
    BY <1>3, <2>1, <2>2
  <2>8. Cardinality(Holders(s) \cup {c}) = old.active + 1
    <3>1. IsFiniteSet(Holders(s))
      BY FS_Subset, PoolAssumption DEF Holders
    <3>2. Cardinality(Holders(s) \cup {c}) = Cardinality(Holders(s)) + 1
      BY <2>6, <3>1, FS_AddElement
    <3> QED
      BY <1>11, <2>1, <2>7, <3>2
  <2>9. old.active + 1 <= threads_per_server /\ old.served + 1 <= recycle_after
    <3>1. old.active < threads_per_server /\ old.served < recycle_after
      BY <1>12, <2>7 DEF Usable
    <3>2. old.active \in Nat /\ old.served \in Nat /\ threads_per_server \in Nat /\ recycle_after \in Nat
      BY <1>10 DEF Server
    <3> QED
      BY <3>1, <3>2
  <2>10. Booked'
    <3> SUFFICES ASSUME NEW t \in Processes
                 PROVE  /\ servers'[t].active = Cardinality(Holders(t)')
                        /\ servers'[t].active <= threads_per_server /\ servers'[t].served <= recycle_after
                        /\ servers'[t].holder # "none" => servers'[t].active = 0 /\ t \notin pool'
      BY <2>5 DEF Booked
    <3>1. CASE t = s
      <4>1. servers'[t] = known /\ Holders(t)' = Holders(s) \cup {c}
        BY <2>5, <2>6, <3>1
      <4>2. Cardinality(Holders(t)') = old.active + 1
        BY <2>8, <4>1
      <4> QED
        BY <2>3, <2>7, <2>9, <4>1, <4>2
    <3>2. CASE t # s
      <4>1. servers'[t] = swept[t] /\ Holders(t)' = Holders(t)
        BY <1>10, <2>5, <2>6, <3>2
      <4>2. Cardinality(Holders(t)') = Cardinality(Holders(t))
        BY <4>1
      <4>3. /\ servers'[t].active = servers[t].active /\ servers'[t].served = servers[t].served
            /\ servers'[t].holder # "none" => servers'[t].active = 0 /\ t \notin left
        BY <1>3, <4>1
      <4>4. servers[t].active = Cardinality(Holders(t)) /\ servers[t].active <= threads_per_server
            /\ servers[t].served <= recycle_after
        BY <1>11
      <4> QED
        BY <1>12, <4>2, <4>3, <4>4
    <3> QED
      BY <3>1, <3>2
  <2>11. \A t \in Processes' : Kept(t)'
    BY <1>3, <1>12, <2>2, <2>3, <2>5 DEF Kept
  <2>12. \A t \in Processes :
           /\ servers'[t].up = servers[t].up /\ servers'[t].wrapper = servers[t].wrapper
           /\ servers'[t].route = servers[t].route
           /\ servers'[t].pending = servers[t].pending /\ servers'[t].threads = servers[t].threads
    BY <1>3, <2>2, <2>3, <2>5
  <2>13. \A d \in Callers :
           \/ callers'[d] = callers[d]
           \/ callers'[d].pc = "call" /\ callers'[d].call = "thread/start" /\ callers'[d].server \in Processes'
    BY <2>1, <2>5, <2>6
  <2>14. pool' \subseteq Processes'
    BY <1>3, <1>12, <2>5
  <2> QED
    BY <1>7, <2>5, <2>6, <2>10, <2>11, <2>12, <2>13, <2>14, RowGrows
<1>13. ASSUME servers' = Append(swept, Started("none", 1)), pool' = left \cup {n}, Takes(n)
       PROVE  PoolInv'
  <2>1. PICK new \in Server : new = Started("none", 1)
    BY DEF Started, Server
  <2>2. new.holder = "none" /\ new.active = 1 /\ new.served = 1 /\ new.pending = {} /\ new.route = "reads" /\ new.wrapper
    BY <2>1 DEF Started
  <2>3. /\ servers' \in Seq(Server) /\ Processes' = Processes \cup {n}
        /\ servers'[n] = new
        /\ \A t \in Processes : servers'[t] = swept[t]
    BY <1>3, <1>4, <1>13, <2>1, OneMore DEF Processes
  <2>4. /\ callers' \in [Callers -> Caller]
        /\ callers'[c].pc = "call" /\ callers'[c].call = "thread/start" /\ callers'[c].server = n
        /\ \A d \in Callers \ {c} : callers'[d] = callers[d]
        /\ Holders(n)' = Holders(n) \cup {c}
        /\ \A t \in Nat \ {0, n} : Holders(t)' = Holders(t)
    BY <1>5, <1>9, <1>13
  <2>5. Holders(n) = {}
    BY <1>5 DEF Holders, PoolInv, Seated, Of
  <2>6. Booked'
    <3> SUFFICES ASSUME NEW t \in Processes'
                 PROVE  /\ servers'[t].active = Cardinality(Holders(t)')
                        /\ servers'[t].active <= threads_per_server /\ servers'[t].served <= recycle_after
                        /\ servers'[t].holder # "none" => servers'[t].active = 0 /\ t \notin pool'
      BY DEF Booked
    <3>1. CASE t = n
      <4>1. Holders(t)' = {c}
        BY <2>4, <2>5, <3>1
      <4>2. Cardinality(Holders(t)') = 1
        BY <4>1, FS_Singleton
      <4> QED
        BY <1>10, <2>2, <2>3, <3>1, <4>2
    <3>2. CASE t \in Processes
      <4>1. servers'[t] = swept[t] /\ Holders(t)' = Holders(t) /\ t # n
        BY <1>5, <1>10, <2>3, <2>4, <3>2
      <4>2. Cardinality(Holders(t)') = Cardinality(Holders(t))
        BY <4>1
      <4> QED
        BY <1>3, <1>11, <1>13, <3>2, <4>1, <4>2
    <3> QED
      BY <2>3, <3>1, <3>2
  <2>7. \A t \in Processes' : Kept(t)'
    BY <1>3, <1>13, <2>2, <2>3 DEF Kept
  <2>8. \A t \in Processes :
           /\ servers'[t].up = servers[t].up /\ servers'[t].wrapper = servers[t].wrapper
           /\ servers'[t].route = servers[t].route
           /\ servers'[t].pending = servers[t].pending /\ servers'[t].threads = servers[t].threads
    BY <1>3, <2>3
  <2>9. \A d \in Callers :
           \/ callers'[d] = callers[d]
           \/ callers'[d].pc = "call" /\ callers'[d].call = "thread/start" /\ callers'[d].server \in Processes'
    BY <2>3, <2>4
  <2>10. pool' \subseteq Processes' /\ Processes \subseteq Processes'
         /\ \A t \in Processes' \ Processes : servers'[t].route = "reads" /\ servers'[t].wrapper /\ servers'[t].pending = {}
    BY <1>3, <1>13, <2>2, <2>3
  <2> QED
    BY <1>7, <2>3, <2>4, <2>6, <2>7, <2>8, <2>9, <2>10, RowGrows
<1>14. ASSUME servers' = swept, pool' = left, UNCHANGED callers
       PROVE  PoolInv'
  <2>1. Processes' = Processes /\ servers' \in Seq(Server) /\ callers' \in [Callers -> Caller] /\ pool' \subseteq Processes'
    BY <1>3, <1>8, <1>14 DEF Processes
  <2>2. Booked'
    <3>1. \A t \in Processes : Holders(t)' = Holders(t)
      BY <1>14 DEF Holders
    <3> QED
      BY <1>3, <1>11, <1>14, <2>1, <3>1 DEF Booked
  <2>3. \A t \in Processes' : Kept(t)'
    BY <1>3, <1>14, <2>1 DEF Kept
  <2>4. \A d \in Callers : callers'[d] = callers[d]
    BY <1>14
  <2>5. \A t \in Processes :
           /\ servers'[t].up = servers[t].up /\ servers'[t].wrapper = servers[t].wrapper
           /\ servers'[t].route = servers[t].route
           /\ servers'[t].pending = servers[t].pending /\ servers'[t].threads = servers[t].threads
    BY <1>3, <1>14
  <2> QED
    BY <1>7, <2>1, <2>2, <2>3, <2>4, <2>5, RowGrows
<1> QED
  BY <1>6, <1>12, <1>13, <1>14

-----------------------------------------------------------------------------
LEMMA PoolInvInit == PoolInit => PoolInv
<1> SUFFICES ASSUME PoolInit PROVE PoolInv
  OBVIOUS
<1>1. NoCaller \in Caller /\ NoCaller.pc = "idle" /\ NoCaller.server = 0
  BY DEF NoCaller, Caller
<1>2. Processes = {} /\ \A c \in Callers : callers[c] = NoCaller
  BY DEF PoolInit, Processes
<1>3. PoolTyped
  BY <1>1 DEF PoolTyped, PoolInit, Processes
<1>4. Seated /\ Waited /\ Subscribed
  BY <1>1, <1>2 DEF Seated, Waited, WaitedAt, Subscribed, SubscribedAt, At, Of
<1>5. Booked /\ Found /\ Read
  BY <1>2 DEF Booked, Found, Kept, Read
<1> QED
  BY <1>3, <1>4, <1>5 DEF PoolInv

LEMMA PoolInvNext == PoolInv /\ [PoolNext]_poolVars => PoolInv'
<1> SUFFICES ASSUME PoolInv, [PoolNext]_poolVars PROVE PoolInv'
  OBVIOUS
<1>1. ASSUME NEW c \in Callers, Turn(c) PROVE PoolInv'
  BY <1>1, AcquireKeeps, CallKeeps, RepliedKeeps, FailedKeeps, ReleaseKeeps DEF Turn
<1>2. CASE start_spare
  BY <1>2, StartSpareKeeps
<1>3. ASSUME NEW s \in Processes, Process(s) PROVE PoolInv'
  BY <1>3, ProcessKeeps, TellsKeeps DEF Process
<1>4. ASSUME NEW s \in Processes, NEW c \in Callers, routes_reply(s, c) \/ routes_end(s, c) PROVE PoolInv'
  BY <1>4, RoutesKeeps
<1>5. CASE UNCHANGED poolVars
  <2>1. PoolTyped' /\ Seated' /\ Booked' /\ Found' /\ Read'
    BY <1>5 DEF PoolInv, poolVars, PoolTyped, Seated, Booked, Found, Kept, Read, Processes, Holders, Of, At, Dead
  <2>2. ASSUME NEW d \in Callers PROVE WaitedAt(d)' /\ SubscribedAt(d)'
    BY <1>5, OtherKept DEF poolVars
  <2> QED
    BY <2>1, <2>2 DEF PoolInv, Waited, Subscribed
<1> QED
  BY <1>1, <1>2, <1>3, <1>4, <1>5 DEF PoolNext

LEMMA PoolInvAlways == PoolSpec => []PoolInv
<1>1. PoolInit => PoolInv
  BY PoolInvInit
<1>2. PoolInv /\ [PoolNext]_poolVars => PoolInv'
  BY PoolInvNext
<1> QED
  BY <1>1, <1>2, PTL DEF PoolSpec

\* A process has the turns it is said to have, and as many as it may; one that is retired has none (codex.py:441-473).
THEOREM TurnsCounted == PoolSpec => []ActiveExact
<1>1. PoolInv => ActiveExact
  <2> SUFFICES ASSUME PoolInv, NEW s \in Processes
               PROVE  /\ servers[s].active = Cardinality(Holders(s))
                      /\ servers[s].active <= threads_per_server /\ servers[s].served <= recycle_after
                      /\ Holders(s) # {} => servers[s].holder # "closer"
    BY DEF ActiveExact
  <2>1. IsFiniteSet(Holders(s))
    BY FS_Subset, PoolAssumption DEF Holders
  <2>2. Cardinality(Holders(s)) = 0 <=> Holders(s) = {}
    BY <2>1, FS_EmptySet
  <2> QED
    BY <2>2 DEF PoolInv, Booked
<1> QED
  BY <1>1, PoolInvAlways, PTL

\* A process that runs can be found, and closed, whatever made its reader end: garbage on its output, a line that is
\* too long, or nothing (codex.py:215-217, 274, 439-473).  It is said of those whose wrapper has not ended alone.
THEOREM ProcessesFound == PoolSpec => []NoneLost
<1>1. PoolInv => NoneLost
  BY DEF PoolInv, Found, Kept, NoneLost
<1> QED
  BY <1>1, PoolInvAlways, PTL

\* Nobody waits for a process whose reader has ended: not one that called, or whose turn began, when it ended
\* (codex.py:274-302).
THEOREM EveryoneTold == PoolSpec => []NobodyWaits
<1>1. PoolInv => NobodyWaits
  <2> SUFFICES ASSUME PoolInv, NEW c \in Callers, ~At(c, "idle"), servers[Of(c)].route = "told"
               PROVE  /\ At(c, "wait") => callers[c].reply # "none"
                      /\ At(c, "collect") => callers[c].inbox # "none"
    BY DEF NobodyWaits
  <2>1. Of(c) \in Processes /\ WaitedAt(c) /\ SubscribedAt(c)
    BY HasServer DEF PoolInv, Waited, Subscribed
  <2>2. servers[Of(c)].pending = {}
    BY <2>1 DEF PoolInv, Read
  <2> QED
    BY <2>1, <2>2 DEF WaitedAt, SubscribedAt, Told
<1> QED
  BY <1>1, PoolInvAlways, PTL

-----------------------------------------------------------------------------
(* What a backend answers: of sequences of sequences *)

\* What holds of zero, and of the next number when it does of one, holds of all.
LEMMA NatSetInduction ==
  ASSUME NEW Good, 0 \in Good, \A n \in Nat : n \in Good => n + 1 \in Good
  PROVE  \A n \in Nat : n \in Good
<1> DEFINE Bad == {n \in Nat : n \notin Good}
           R == OpToRel(<, Nat)
<1>1. SUFFICES ASSUME Bad # {} PROVE FALSE
  OBVIOUS
<1>2. IsWellFoundedOn(R, Nat)
  BY NatLessThanWellFounded
<1>3. \A x, y \in Nat : <<x, y>> \in R <=> x < y
  BY DEF OpToRel
<1> HIDE DEF R
<1>4. PICK n \in Bad : \A m \in Bad : <<m, n>> \notin R
  <2>1. Bad \subseteq Nat
    OBVIOUS
  <2> HIDE DEF Bad
  <2> QED
    BY <1>1, <1>2, <2>1, WFMin
<1>5. n \in Nat /\ n # 0 /\ n - 1 \in Nat /\ n = (n - 1) + 1
  BY <1>4
<1>6. n - 1 \in Bad
  BY <1>4, <1>5
<1> HIDE DEF Bad
<1>7. <<n - 1, n>> \notin R
  BY <1>4, <1>6
<1>8. n - 1 < n
  BY <1>5
<1> QED
  BY <1>3, <1>5, <1>7, <1>8

\* What holds of the empty sequence and goes on to hold when an element is appended holds of every sequence.
LEMMA SeqInduction ==
  ASSUME NEW S, NEW Good, <<>> \in Good, \A s \in Seq(S) : s \in Good => \A e \in S : Append(s, e) \in Good
  PROVE  \A s \in Seq(S) : s \in Good
<1> DEFINE Lengths == {n \in Nat : \A s \in Seq(S) : Len(s) = n => s \in Good}
<1>1. 0 \in Lengths
  BY EmptySeq
<1>2. ASSUME NEW n \in Nat, n \in Lengths PROVE n + 1 \in Lengths
  <2> SUFFICES ASSUME NEW s \in Seq(S), Len(s) = n + 1 PROVE s \in Good
    OBVIOUS
  <2>1. s # <<>>
    BY EmptySeq
  <2>2. PICK r \in Seq(S), e \in S : s = Append(r, e)
    BY <2>1, SequenceEmptyOrAppend
  <2>3. Len(r) = n
    BY <2>2, AppendProperties, LenProperties
  <2> QED
    BY <1>2, <2>2, <2>3
<1> HIDE DEF Lengths
<1>3. \A n \in Nat : n \in Lengths
  <2>1. \A n \in Nat : n \in Lengths => n + 1 \in Lengths
    BY <1>2
  <2> QED
    BY <1>1, <2>1, NatSetInduction
<1> QED
  BY <1>3, LenProperties DEF Lengths

Flattens(f, seqs) == f = [i \in 1 .. Len(seqs) |-> IF i = 1 THEN seqs[i] ELSE f[i - 1] \o seqs[i]]

LEMMA FlattenIs ==
  ASSUME NEW seqs
  PROVE  FlattenSeq(seqs) = IF Len(seqs) = 0 THEN seqs ELSE (CHOOSE f : Flattens(f, seqs))[Len(seqs)]
BY DEF FlattenSeq, Flattens

LEMMA FlattenEmpty == FlattenSeq(<<>>) = <<>>
BY FlattenIs

\* Such a function does not look beyond its sequence.
LEMMA FlattenGrows ==
  ASSUME NEW S, NEW s \in Seq(S), NEW t \in S, NEW f, Flattens(f, s)
  PROVE  LET n == Len(s)
         IN  Flattens([i \in 1 .. n + 1 |-> IF i = n + 1 THEN (IF n = 0 THEN t ELSE f[n] \o t) ELSE f[i]], Append(s, t))
<1> DEFINE n == Len(s)
           a == Append(s, t)
           g == [i \in 1 .. n + 1 |-> IF i = n + 1 THEN (IF n = 0 THEN t ELSE f[n] \o t) ELSE f[i]]
<1>1. n \in Nat /\ Len(a) = n + 1 /\ a[n + 1] = t /\ \A i \in 1 .. n : a[i] = s[i]
  BY AppendProperties, LenProperties
<1> HIDE DEF n, a
<1>2. \A i \in 1 .. n : f[i] = IF i = 1 THEN s[i] ELSE f[i - 1] \o s[i]
  BY DEF Flattens, n
<1>3. ASSUME NEW i \in 1 .. n + 1 PROVE g[i] = IF i = 1 THEN a[i] ELSE g[i - 1] \o a[i]
  <2>1. CASE i = n + 1 /\ n = 0
    BY <1>1, <2>1
  <2>2. CASE i = n + 1 /\ n # 0
    <3>1. g[i] = f[n] \o t /\ i # 1 /\ i - 1 = n /\ n \in 1 .. n + 1 /\ n # n + 1
      BY <1>1, <2>2
    <3>2. g[n] = f[n]
      BY <3>1
    <3> QED
      BY <1>1, <2>2, <3>1, <3>2
  <2>3. CASE i # n + 1
    <3>1. i \in 1 .. n /\ g[i] = f[i]
      BY <1>1, <2>3
    <3>2. i # 1 => i - 1 \in 1 .. n + 1 /\ i - 1 # n + 1
      BY <1>1, <2>3
    <3>3. i # 1 => g[i - 1] = f[i - 1]
      BY <3>2
    <3> HIDE DEF g
    <3> QED
      BY <1>1, <1>2, <3>1, <3>3
  <2> QED
    BY <2>1, <2>2, <2>3
<1>4. g = [i \in 1 .. n + 1 |-> g[i]]
  OBVIOUS
<1> HIDE DEF g
<1>5. g = [i \in 1 .. Len(a) |-> IF i = 1 THEN a[i] ELSE g[i - 1] \o a[i]]
  BY <1>1, <1>3, <1>4
<1> QED
  BY <1>5 DEF Flattens, g, n, a

LEMMA FlattenExists == ASSUME NEW S, NEW s \in Seq(S) PROVE \E f : Flattens(f, s)
<1> DEFINE Good == {r \in Seq(S) : \E f : Flattens(f, r)}
<1>1. <<>> \in Good
  <2>1. Flattens(<<>>, <<>>)
    BY DEF Flattens
  <2> QED
    BY <2>1
<1>2. ASSUME NEW r \in Seq(S), r \in Good, NEW e \in S PROVE Append(r, e) \in Good
  <2>1. PICK f : Flattens(f, r)
    BY <1>2
  <2>2. \E g : Flattens(g, Append(r, e))
    BY <2>1, FlattenGrows
  <2>3. Append(r, e) \in Seq(S)
    BY AppendProperties
  <2> QED
    BY <2>2, <2>3
<1> HIDE DEF Good
<1>3. s \in Good
  BY <1>1, <1>2, SeqInduction
<1> QED
  BY <1>3 DEF Good

LEMMA FlattensAgree ==
  ASSUME NEW S, NEW s \in Seq(S), NEW t \in S, NEW f, Flattens(f, s), NEW g, Flattens(g, Append(s, t))
  PROVE  \A i \in 1 .. Len(s) : f[i] = g[i]
<1> DEFINE n == Len(s)
           Good == {i \in Nat : i \in 1 .. n => f[i] = g[i]}
<1>1. n \in Nat /\ Len(Append(s, t)) = n + 1 /\ \A i \in 1 .. n : Append(s, t)[i] = s[i]
  BY AppendProperties, LenProperties
<1>2. \A i \in 1 .. n : f[i] = IF i = 1 THEN s[i] ELSE f[i - 1] \o s[i]
  BY DEF Flattens
<1>3. \A i \in 1 .. n : g[i] = IF i = 1 THEN s[i] ELSE g[i - 1] \o s[i]
  <2> DEFINE a == Append(s, t)
  <2>1. g = [i \in 1 .. n + 1 |-> IF i = 1 THEN a[i] ELSE g[i - 1] \o a[i]]
    BY <1>1 DEF Flattens
  <2>2. \A i \in 1 .. n : i \in 1 .. n + 1 /\ a[i] = s[i]
    BY <1>1
  <2> HIDE DEF a, n
  <2>3. \A i \in 1 .. n + 1 : g[i] = IF i = 1 THEN a[i] ELSE g[i - 1] \o a[i]
    BY <2>1
  <2> QED
    BY <2>2, <2>3
<1> HIDE DEF n
<1>4. 0 \in Good
  OBVIOUS
<1>5. ASSUME NEW i \in Nat, i \in Good PROVE i + 1 \in Good
  BY <1>1, <1>2, <1>3, <1>5
<1> HIDE DEF Good
<1>6. \A i \in Nat : i \in Good
  <2>1. \A i \in Nat : i \in Good => i + 1 \in Good
    BY <1>5
  <2> QED
    BY <1>4, <2>1, NatSetInduction
<1> QED
  BY <1>1, <1>6 DEF Good, n

\* One more sequence comes last.
LEMMA FlattenMore ==
  ASSUME NEW S, NEW s \in Seq(S), NEW t \in S, s # <<>>
  PROVE  FlattenSeq(Append(s, t)) = FlattenSeq(s) \o t
<1> DEFINE n == Len(s)
           a == Append(s, t)
           f == CHOOSE h : Flattens(h, s)
           g == CHOOSE h : Flattens(h, a)
<1>1. n \in Nat \ {0} /\ Len(a) = n + 1 /\ a[n + 1] = t /\ a \in Seq(S)
  BY AppendProperties, LenProperties, EmptySeq
<1>2. Flattens(f, s)
  BY FlattenExists
<1>3. Flattens(g, a)
  BY <1>1, FlattenExists
<1>4. FlattenSeq(s) = f[n]
  BY <1>1, FlattenIs
<1>5. FlattenSeq(a) = g[n + 1]
  <2> HIDE DEF g, a, n
  <2>1. Len(a) # 0
    BY <1>1
  <2> QED
    BY <1>1, <2>1, FlattenIs DEF g
<1> HIDE DEF f, g
<1>6. f[n] = g[n]
  BY <1>1, <1>2, <1>3, FlattensAgree
<1> HIDE DEF n, a
<1>7. g[n + 1] = g[n] \o t
  <2>1. g = [i \in 1 .. n + 1 |-> IF i = 1 THEN a[i] ELSE g[i - 1] \o a[i]]
    BY <1>1, <1>3 DEF Flattens
  <2>2. n + 1 \in 1 .. n + 1 /\ n + 1 # 1 /\ (n + 1) - 1 = n
    BY <1>1
  <2>3. g[n + 1] = IF n + 1 = 1 THEN a[n + 1] ELSE g[(n + 1) - 1] \o a[n + 1]
    BY <2>1, <2>2
  <2> QED
    BY <1>1, <2>2, <2>3
<1> QED
  BY <1>4, <1>5, <1>6, <1>7 DEF a

LEMMA FlattenOne == ASSUME NEW t PROVE FlattenSeq(<<t>>) = t
<1> DEFINE s == <<t>>
           f == CHOOSE h : Flattens(h, s)
<1>1. s \in Seq({t}) /\ Len(s) = 1 /\ s[1] = t
  OBVIOUS
<1> HIDE DEF s
<1>2. Flattens(f, s)
  BY <1>1, FlattenExists
<1>3. FlattenSeq(s) = f[1]
  BY <1>1, FlattenIs
<1> HIDE DEF f
<1>4. f = [i \in 1 .. 1 |-> IF i = 1 THEN s[i] ELSE f[i - 1] \o s[i]]
  BY <1>1, <1>2 DEF Flattens
<1>5. f[1] = s[1]
  BY <1>4
<1> QED
  BY <1>1, <1>3, <1>5 DEF s

LEMMA FlattenSeqs == ASSUME NEW S, NEW s \in Seq(Seq(S)) PROVE FlattenSeq(s) \in Seq(S)
<1> DEFINE Good == {r \in Seq(Seq(S)) : FlattenSeq(r) \in Seq(S)}
<1>1. <<>> \in Good
  <2>1. <<>> \in Seq(Seq(S)) /\ FlattenSeq(<<>>) \in Seq(S)
    BY EmptySeq, FlattenEmpty
  <2> QED
    BY <2>1
<1>2. ASSUME NEW r \in Seq(Seq(S)), r \in Good, NEW t \in Seq(S) PROVE Append(r, t) \in Good
  <2>1. Append(r, t) \in Seq(Seq(S))
    BY AppendProperties
  <2>2. CASE r = <<>>
    <3>1. Append(r, t) = <<t>>
      BY <2>2
    <3> QED
      BY <2>1, <3>1, FlattenOne
  <2>3. CASE r # <<>>
    BY <1>2, <2>1, <2>3, FlattenMore, ConcatProperties
  <2> QED
    BY <2>2, <2>3
<1> HIDE DEF Good
<1>3. s \in Good
  BY <1>1, <1>2, SeqInduction
<1> QED
  BY <1>3 DEF Good

LEMMA FlattenAppend ==
  ASSUME NEW S, NEW s \in Seq(Seq(S)), NEW t \in Seq(S)
  PROVE  FlattenSeq(Append(s, t)) = FlattenSeq(s) \o t
<1>1. CASE s = <<>>
  <2>1. Append(s, t) = <<t>>
    BY <1>1
  <2> QED
    BY <1>1, <2>1, FlattenOne, FlattenEmpty, ConcatEmptySeq
<1>2. CASE s # <<>>
  BY <1>2, FlattenMore
<1> QED
  BY <1>1, <1>2

\* The last element of a sequence is another.
LEMMA LastChanged ==
  ASSUME NEW S, NEW s \in Seq(S), NEW e \in S, NEW u \in S
  PROVE  [Append(s, e) EXCEPT ![Len(Append(s, e))] = u] = Append(s, u)
<1> DEFINE n == Len(s) + 1
           a == Append(s, e)
           x == [a EXCEPT ![n] = u]
           y == Append(s, u)
<1>1. Len(s) \in Nat /\ a \in Seq(S) /\ Len(a) = n /\ \A i \in 1 .. Len(s) : a[i] = s[i]
  BY AppendProperties, LenProperties
<1>2. y \in Seq(S) /\ Len(y) = n /\ y[n] = u /\ \A i \in 1 .. Len(s) : y[i] = s[i]
  BY AppendProperties
<1> HIDE DEF a, y
<1>3. n \in 1 .. Len(a)
  BY <1>1
<1>4. x \in Seq(S) /\ Len(x) = n /\ \A i \in 1 .. n : x[i] = IF i = n THEN u ELSE a[i]
  BY <1>1, <1>3, ExceptSeq
<1> HIDE DEF x
<1>5. \A i \in 1 .. n : i = n \/ (i # n /\ i \in 1 .. Len(s))
  BY <1>1
<1>6. \A i \in 1 .. Len(x) : x[i] = y[i]
  BY <1>1, <1>2, <1>4, <1>5
<1>7. x = y
  BY <1>2, <1>4, <1>6, SeqEqual
<1> QED
  BY <1>1, <1>7 DEF a, x, y

\* The last sequence grows.

LEMMA LastGrows ==
  ASSUME NEW S, NEW r \in Seq(Seq(S)), NEW e \in Seq(S), NEW t \in Seq(S)
  PROVE  e \o t \in Seq(S) /\ Extended(Append(r, e), t) = Append(r, e \o t)
<1> DEFINE s == Append(r, e)
           u == e \o t
<1>1. Len(s) = Len(r) + 1 /\ s[Len(r) + 1] = e /\ u \in Seq(S)
  BY AppendProperties, ConcatProperties
<1>2. Extended(s, t) = [s EXCEPT ![Len(s)] = u]
  BY <1>1 DEF Extended
<1> HIDE DEF u
<1>3. [Append(r, e) EXCEPT ![Len(Append(r, e))] = u] = Append(r, u)
  BY <1>1, LastChanged
<1> QED
  BY <1>1, <1>2, <1>3 DEF u

LEMMA FlattenLast ==
  ASSUME NEW S, NEW s \in Seq(Seq(S)), s # <<>>, NEW t \in Seq(S)
  PROVE  /\ FlattenSeq(Extended(s, t)) = FlattenSeq(s) \o t
         /\ Extended(s, t) \in Seq(Seq(S))
<1>0. PICK r \in Seq(Seq(S)), e \in Seq(S) : s = Append(r, e)
  BY SequenceEmptyOrAppend
<1>1. s = Append(r, e) /\ e \o t \in Seq(S) /\ Extended(s, t) = Append(r, e \o t)
  BY <1>0, LastGrows
<1> DEFINE f == FlattenSeq(r)
<1>2. f \in Seq(S) /\ FlattenSeq(Append(r, e \o t)) = f \o (e \o t) /\ FlattenSeq(s) = f \o e
  BY <1>1, FlattenAppend, FlattenSeqs
<1> HIDE DEF f
<1>3. (f \o e) \o t = f \o (e \o t)
  <2>1. f \in Seq(S) /\ e \in Seq(S) /\ t \in Seq(S)
    BY <1>2
  <2> QED
    BY ONLY <2>1, ConcatAssociative, SMTT(30)
<1>4. Append(r, e \o t) \in Seq(Seq(S))
  BY <1>1, AppendProperties
<1>5. FlattenSeq(Extended(s, t)) = FlattenSeq(s) \o t
  BY <1>1, <1>2, <1>3
<1> QED
  BY <1>1, <1>4, <1>5

\* A sequence that goes on where another ends.
LEMMA OneLonger ==
  ASSUME NEW T, NEW n \in Nat, NEW f \in [1 .. n -> T], NEW g \in [1 .. n + 1 -> T], \A i \in 1 .. n : g[i] = f[i]
  PROVE  f \in Seq(T) /\ g \in Seq(T) /\ g = Append(f, g[n + 1])
<1>1. f \in Seq(T) /\ Len(f) = n /\ g \in Seq(T) /\ Len(g) = n + 1 /\ g[n + 1] \in T
  OBVIOUS
<1> DEFINE e == g[n + 1]
           h == Append(f, e)
<1>2. e \in T
  BY <1>1
<1> HIDE DEF e
<1>3. h \in Seq(T) /\ Len(h) = n + 1 /\ h[n + 1] = e /\ \A i \in 1 .. n : h[i] = f[i]
  BY <1>1, <1>2, AppendProperties
<1> HIDE DEF h
<1>4. \A i \in 1 .. n + 1 : i = n + 1 \/ i \in 1 .. n
  OBVIOUS
<1>5. \A i \in 1 .. Len(g) : g[i] = h[i]
  BY <1>1, <1>3, <1>4 DEF e
<1>6. g = h
  BY <1>1, <1>3, <1>5, SeqEqual
<1> QED
  BY <1>1, <1>6 DEF e, h

-----------------------------------------------------------------------------
(* The elements of a sequence that are in a set *)

ThatAt(s, T) == [i \in DOMAIN s |-> IF s[i] \in T THEN <<s[i]>> ELSE <<>>]

Only(e, T) == IF e \in T THEN <<e>> ELSE <<>>

LEMMA ThatAtAppend ==
  ASSUME NEW S, NEW T, NEW s \in Seq(S), NEW e \in S
  PROVE  /\ ThatAt(s, T) \in Seq(Seq(S))
         /\ ThatAt(Append(s, e), T) = Append(ThatAt(s, T), Only(e, T))
<1> DEFINE n == Len(s)
           a == Append(s, e)
           f == ThatAt(s, T)
           g == ThatAt(a, T)
<1>1. n \in Nat /\ DOMAIN s = 1 .. n /\ \A i \in 1 .. n : s[i] \in S
  BY LenProperties, ElementOfSeq
<1>2. DOMAIN a = 1 .. n + 1 /\ a[n + 1] = e /\ \A i \in 1 .. n : a[i] = s[i]
  BY AppendProperties, LenProperties
<1> HIDE DEF n, a
<1>3. \A x \in S : Only(x, T) \in Seq(S)
  BY DEF Only
<1>4. f \in [1 .. n -> Seq(S)]
  BY <1>1, <1>3 DEF ThatAt, Only
<1>5. \A i \in 1 .. n + 1 : a[i] \in S
  <2> SUFFICES ASSUME NEW i \in 1 .. n + 1 PROVE a[i] \in S
    OBVIOUS
  <2>1. i \in 1 .. n \/ i = n + 1
    BY <1>1
  <2> QED
    BY <1>1, <1>2, <2>1
<1>6. g \in [1 .. n + 1 -> Seq(S)]
  BY <1>2, <1>3, <1>5 DEF ThatAt, Only
<1>7. \A i \in 1 .. n : g[i] = f[i]
  BY <1>1, <1>2 DEF ThatAt
<1>8. g[n + 1] = Only(e, T)
  BY <1>1, <1>2 DEF ThatAt, Only
<1> HIDE DEF f, g
<1>9. f \in Seq(Seq(S)) /\ g = Append(f, g[n + 1])
  BY <1>1, <1>4, <1>6, <1>7, OneLonger
<1> QED
  BY <1>8, <1>9 DEF f, g, a

LEMMA ThoseAppend ==
  ASSUME NEW S, NEW T, NEW s \in Seq(S), NEW e \in S
  PROVE  Those(Append(s, e), T) = Those(s, T) \o Only(e, T)
<1> DEFINE w == Only(e, T)
           f == ThatAt(s, T)
<1>1. w \in Seq(S)
  BY DEF Only
<1>2. Those(s, T) = FlattenSeq(f) /\ Those(Append(s, e), T) = FlattenSeq(ThatAt(Append(s, e), T))
  BY DEF Those, ThatAt
<1>3. f \in Seq(Seq(S)) /\ ThatAt(Append(s, e), T) = Append(f, w)
  BY ThatAtAppend
<1> HIDE DEF w, f
<1>4. FlattenSeq(Append(f, w)) = FlattenSeq(f) \o w
  BY <1>1, <1>3, FlattenAppend
<1> QED
  BY <1>2, <1>3, <1>4 DEF w

LEMMA ThoseEmpty == ASSUME NEW T PROVE Those(<<>>, T) = <<>>
<1>1. ThatAt(<<>>, T) = <<>>
  BY DEF ThatAt
<1>2. Those(<<>>, T) = FlattenSeq(ThatAt(<<>>, T))
  BY DEF Those, ThatAt
<1> QED
  BY <1>1, <1>2, FlattenEmpty

LEMMA ThoseSeq == ASSUME NEW S, NEW T, NEW s \in Seq(S) PROVE Those(s, T) \in Seq(S)
<1>1. ThatAt(s, T) \in Seq(Seq(S))
  <2>1. \A i \in 1 .. Len(s) : (IF s[i] \in T THEN <<s[i]>> ELSE <<>>) \in Seq(S)
    BY ElementOfSeq
  <2>2. ThatAt(s, T) = [i \in 1 .. Len(s) |-> IF s[i] \in T THEN <<s[i]>> ELSE <<>>] /\ Len(s) \in Nat
    BY LenProperties DEF ThatAt
  <2> QED
    BY <2>1, <2>2
<1> QED
  BY <1>1, FlattenSeqs DEF Those, ThatAt

LEMMA ThoseSame ==
  ASSUME NEW s, NEW T, NEW U, \A i \in DOMAIN s : s[i] \in T <=> s[i] \in U PROVE Those(s, T) = Those(s, U)
<1>1. ThatAt(s, T) = ThatAt(s, U)
  BY DEF ThatAt
<1> QED
  BY <1>1 DEF Those, ThatAt

LEMMA ThoseConcat == ASSUME NEW S, NEW T, NEW s \in Seq(S), NEW t \in Seq(S) 
  PROVE  Those(s \o t, T) = Those(s, T) \o Those(t, T)
<1> DEFINE Good == {r \in Seq(S) : Those(s \o r, T) = Those(s, T) \o Those(r, T)}
<1>1. <<>> \in Good
  BY EmptySeq, ConcatEmptySeq, ThoseEmpty, ThoseSeq
<1>2. ASSUME NEW r \in Seq(S), r \in Good, NEW e \in S PROVE Append(r, e) \in Good
  <2> DEFINE w == Only(e, T)
  <2>1. w \in Seq(S) /\ Append(r, e) \in Seq(S)
    BY AppendProperties DEF Only
  <2>2. s \o Append(r, e) = Append(s \o r, e) /\ s \o r \in Seq(S)
    <3>1. <<e>> \in Seq(S) /\ s \o r \in Seq(S) /\ Append(r, e) = r \o <<e>> /\ Append(s \o r, e) = (s \o r) \o <<e>>
      BY ConcatProperties, AppendIsConcat
    <3> QED
      BY <3>1, ConcatAssociative
  <2>3. Those(s \o Append(r, e), T) = Those(s \o r, T) \o w /\ Those(Append(r, e), T) = Those(r, T) \o w
    <3>1. ASSUME NEW x \in Seq(S) PROVE Those(Append(x, e), T) = Those(x, T) \o w
      BY ThoseAppend DEF w
    <3> HIDE DEF w
    <3> QED
      BY <2>2, <3>1
  <2>4. Those(s, T) \in Seq(S) /\ Those(r, T) \in Seq(S)
    BY ThoseSeq
  <2> HIDE DEF w
  <2>5. (Those(s, T) \o Those(r, T)) \o w = Those(s, T) \o (Those(r, T) \o w)
    BY ONLY <2>1, <2>4, ConcatAssociative, SMTT(20)
  <2>6. Those(s \o r, T) = Those(s, T) \o Those(r, T)
    BY <1>2
  <2>7. Those(s \o Append(r, e), T) = Those(s, T) \o Those(Append(r, e), T)
    BY <2>3, <2>5, <2>6
  <2> QED
    BY <2>1, <2>7
<1> HIDE DEF Good
<1>3. t \in Good
  BY <1>1, <1>2, SeqInduction
<1> QED
  BY <1>3 DEF Good

LEMMA ThoseAll == ASSUME NEW S, NEW T, S \subseteq T, NEW s \in Seq(S) PROVE Those(s, T) = s
<1> DEFINE Good == {r \in Seq(S) : Those(r, T) = r}
<1>1. <<>> \in Good
  BY EmptySeq, ThoseEmpty
<1>2. ASSUME NEW r \in Seq(S), r \in Good, NEW e \in S PROVE Append(r, e) \in Good
  <2>1. Append(r, e) \in Seq(S) /\ Append(r, e) = r \o <<e>> /\ e \in T
    BY AppendProperties, AppendIsConcat
  <2>2. Those(Append(r, e), T) = Those(r, T) \o <<e>>
    BY <2>1, ThoseAppend DEF Only
  <2> QED
    BY <1>2, <2>1, <2>2
<1> HIDE DEF Good
<1>3. s \in Good
  BY <1>1, <1>2, SeqInduction
<1> QED
  BY <1>3 DEF Good

LEMMA ThoseNone == ASSUME NEW S, NEW T, S \cap T = {}, NEW s \in Seq(S) PROVE Those(s, T) = <<>>
<1> DEFINE Good == {r \in Seq(S) : Those(r, T) = <<>>}
<1>1. <<>> \in Good
  BY EmptySeq, ThoseEmpty
<1>2. ASSUME NEW r \in Seq(S), r \in Good, NEW e \in S PROVE Append(r, e) \in Good
  <2>1. Append(r, e) \in Seq(S) /\ e \notin T
    BY AppendProperties
  <2>2. Those(Append(r, e), T) = Those(r, T) \o Only(e, T)
    BY ThoseAppend
  <2>3. <<>> \o <<>> = <<>>
    OBVIOUS
  <2> QED
    BY <1>2, <2>1, <2>2, <2>3 DEF Only
<1> HIDE DEF Good
<1>3. s \in Good
  BY <1>1, <1>2, SeqInduction
<1> QED
  BY <1>3 DEF Good

-----------------------------------------------------------------------------
(* Texts *)

LEMMA WordsAre == ASSUME NEW S, NEW s \in Seq(S) PROVE Words(s) = Those(s, S \ {Blank})
<1>1. \A i \in DOMAIN s : s[i] \in S
  BY LenProperties, ElementOfSeq
<1>2. [i \in DOMAIN s |-> IF s[i] = Blank THEN <<>> ELSE <<s[i]>>] = ThatAt(s, S \ {Blank})
  BY <1>1 DEF ThatAt
<1> QED
  BY <1>2 DEF Words, Those, ThatAt

LEMMA WordsAppend ==
  ASSUME NEW S, NEW s \in Seq(S), NEW e \in S
  PROVE  Words(Append(s, e)) = Words(s) \o (IF e = Blank THEN <<>> ELSE <<e>>)
<1>1. Append(s, e) \in Seq(S)
  BY AppendProperties
<1>2. e \in S \ {Blank} <=> e # Blank
  OBVIOUS
<1>3. Those(Append(s, e), S \ {Blank}) = Those(s, S \ {Blank}) \o (IF e \in S \ {Blank} THEN <<e>> ELSE <<>>)
  BY ThoseAppend DEF Only
<1> QED
  BY <1>1, <1>2, <1>3, WordsAre

LEMMA WordsEmpty == Words(<<>>) = <<>>
<1>1. <<>> \in Seq({})
  OBVIOUS
<1> QED
  BY <1>1, WordsAre, ThoseEmpty

LEMMA WordsConcat == ASSUME NEW S, NEW s \in Seq(S), NEW t \in Seq(S) PROVE Words(s \o t) = Words(s) \o Words(t)
<1>1. s \o t \in Seq(S)
  BY ConcatProperties
<1> DEFINE T == S \ {Blank}
<1>2. Those(s \o t, T) = Those(s, T) \o Those(t, T)
  BY ThoseConcat
<1>3. Words(s \o t) = Those(s \o t, T) /\ Words(s) = Those(s, T) /\ Words(t) = Those(t, T)
  BY <1>1, WordsAre
<1> HIDE DEF T
<1> QED
  BY <1>2, <1>3

LEMMA WordsSame == ASSUME NEW S, Blank \notin S, NEW s \in Seq(S) PROVE Words(s) = s
<1>1. S \subseteq S \ {Blank}
  OBVIOUS
<1> QED
  BY <1>1, WordsAre, ThoseAll

\* Codex's messages, with blank lines between them.
MessageAt(messages) == [i \in DOMAIN messages |-> (IF i > 1 THEN <<Blank>> ELSE <<>>) \o messages[i]]
Joined(messages) == FlattenSeq(MessageAt(messages))
Gap(messages) == IF messages # <<>> THEN <<Blank>> ELSE <<>>

LEMMA MessageAtAppend ==
  ASSUME NEW S, Blank \in S, NEW m \in Seq(Seq(S)), NEW t \in Seq(S)
  PROVE  /\ MessageAt(m) \in Seq(Seq(S))
         /\ Gap(m) \o t \in Seq(S)
         /\ MessageAt(Append(m, t)) = Append(MessageAt(m), Gap(m) \o t)
<1> DEFINE n == Len(m)
           a == Append(m, t)
           f == MessageAt(m)
           g == MessageAt(a)
<1>1. n \in Nat /\ DOMAIN m = 1 .. n /\ \A i \in 1 .. n : m[i] \in Seq(S)
  BY LenProperties, ElementOfSeq
<1>2. n = 0 <=> m = <<>>
  BY EmptySeq
<1>3. DOMAIN a = 1 .. n + 1 /\ a[n + 1] = t /\ \A i \in 1 .. n : a[i] = m[i]
  BY AppendProperties, LenProperties
<1> HIDE DEF n, a
<1>4. <<Blank>> \in Seq(S) /\ <<>> \in Seq(S)
  OBVIOUS
<1>5. \A x \in Seq(S) : <<Blank>> \o x \in Seq(S) /\ <<>> \o x \in Seq(S)
  BY <1>4, ConcatProperties
<1>6. \A i \in Nat, x \in Seq(S) : (IF i > 1 THEN <<Blank>> ELSE <<>>) \o x \in Seq(S)
  BY <1>5
<1>7. f \in [1 .. n -> Seq(S)]
  BY <1>1, <1>6 DEF MessageAt
<1>8. \A i \in 1 .. n + 1 : a[i] \in Seq(S)
  <2> SUFFICES ASSUME NEW i \in 1 .. n + 1 PROVE a[i] \in Seq(S)
    OBVIOUS
  <2>1. i \in 1 .. n \/ i = n + 1
    BY <1>1
  <2> QED
    BY <1>1, <1>3, <2>1
<1>9. g \in [1 .. n + 1 -> Seq(S)]
  BY <1>3, <1>6, <1>8 DEF MessageAt
<1>10. \A i \in 1 .. n : g[i] = f[i]
  BY <1>1, <1>3 DEF MessageAt
<1>11. g[n + 1] = Gap(m) \o t
  <2>1. n + 1 > 1 <=> m # <<>>
    BY <1>1, <1>2
  <2>2. n + 1 \in 1 .. n + 1
    BY <1>1
  <2>3. g[n + 1] = (IF n + 1 > 1 THEN <<Blank>> ELSE <<>>) \o t
    BY <1>3, <2>2 DEF MessageAt
  <2> QED
    BY <2>1, <2>3 DEF Gap
<1>12. Gap(m) \o t \in Seq(S)
  BY <1>5 DEF Gap
<1> HIDE DEF f, g
<1>13. f \in Seq(Seq(S)) /\ g = Append(f, g[n + 1])
  BY <1>1, <1>7, <1>9, <1>10, OneLonger
<1> QED
  BY <1>11, <1>12, <1>13 DEF f, g, a

LEMMA JoinedEmpty == Joined(<<>>) = <<>>
<1>1. MessageAt(<<>>) = <<>>
  BY DEF MessageAt
<1> QED
  BY <1>1, FlattenEmpty DEF Joined

LEMMA JoinedAppend ==
  ASSUME NEW S, Blank \in S, NEW m \in Seq(Seq(S)), NEW t \in Seq(S)
  PROVE  Joined(Append(m, t)) = Joined(m) \o (Gap(m) \o t) /\ Joined(m) \in Seq(S)
<1> DEFINE f == MessageAt(m)
           u == Gap(m) \o t
<1>1. f \in Seq(Seq(S)) /\ u \in Seq(S) /\ MessageAt(Append(m, t)) = Append(f, u)
  BY MessageAtAppend
<1>2. Joined(m) = FlattenSeq(f) /\ Joined(Append(m, t)) = FlattenSeq(MessageAt(Append(m, t)))
  BY DEF Joined
<1> HIDE DEF f, u
<1>3. FlattenSeq(Append(f, u)) = FlattenSeq(f) \o u /\ FlattenSeq(f) \in Seq(S)
  BY <1>1, FlattenAppend, FlattenSeqs
<1> QED
  BY <1>1, <1>2, <1>3 DEF u

LEMMA ConcatFour ==
  ASSUME NEW S, NEW p \in Seq(S), NEW q \in Seq(S), NEW r \in Seq(S), NEW s \in Seq(S)
  PROVE  p \o (q \o (r \o s)) = (p \o (q \o r)) \o s
<1>1. q \o r \in Seq(S)
  BY ConcatProperties
<1>2. q \o (r \o s) = (q \o r) \o s
  BY ConcatAssociative
<1>3. p \o ((q \o r) \o s) = (p \o (q \o r)) \o s
  BY <1>1, ConcatAssociative, SMTT(30)
<1> QED
  BY <1>2, <1>3, SMTT(30)

LEMMA JoinedLast ==
  ASSUME NEW S, Blank \in S, NEW m \in Seq(Seq(S)), m # <<>>, NEW t \in Seq(S)
  PROVE  Joined(Extended(m, t)) = Joined(m) \o t
<1>0. PICK r \in Seq(Seq(S)), e \in Seq(S) : m = Append(r, e)
  BY SequenceEmptyOrAppend
<1>1. m = Append(r, e) /\ e \o t \in Seq(S) /\ Extended(m, t) = Append(r, e \o t)
  BY <1>0, LastGrows
<1> DEFINE j == Joined(r)
           x == Gap(r)
<1>2. j \in Seq(S) /\ Joined(m) = j \o (x \o e) /\ Joined(Append(r, e \o t)) = j \o (x \o (e \o t))
  BY <1>1, JoinedAppend
<1>3. x \in Seq(S) /\ x \o e \in Seq(S)
  BY ConcatProperties DEF Gap
<1> HIDE DEF j, x
<1>4. j \o (x \o (e \o t)) = (j \o (x \o e)) \o t
  <2>1. j \in Seq(S) /\ x \in Seq(S) /\ e \in Seq(S) /\ t \in Seq(S) /\ x \o e \in Seq(S)
    BY <1>2, <1>3
  <2>2. x \o (e \o t) = (x \o e) \o t
    BY ONLY <2>1, ConcatAssociative, SMTT(20)
  <2>3. j \o ((x \o e) \o t) = (j \o (x \o e)) \o t
    BY ONLY <2>1, ConcatAssociative, SMTT(20)
  <2> QED
    BY ONLY <2>2, <2>3
<1> QED
  BY <1>1, <1>2, <1>4

\* Without the blank lines it is the messages.
LEMMA WordsJoined == ASSUME NEW S, Blank \notin S, NEW m \in Seq(Seq(S)) PROVE Words(Joined(m)) = FlattenSeq(m)
<1> DEFINE Good == {r \in Seq(Seq(S)) : Words(Joined(r)) = FlattenSeq(r)}
           P == S \cup {Blank}
<1>1. <<>> \in Good
  <2>1. Words(Joined(<<>>)) = FlattenSeq(<<>>)
    BY JoinedEmpty, WordsEmpty, FlattenEmpty
  <2> QED
    BY <2>1, EmptySeq
<1>2. ASSUME NEW r \in Seq(Seq(S)), r \in Good, NEW t \in Seq(S) PROVE Append(r, t) \in Good
  <2>1. t \in Seq(P) /\ Blank \in P /\ Seq(S) \subseteq Seq(P)
    OBVIOUS
  <2>2. r \in Seq(Seq(P)) /\ FlattenSeq(r) \in Seq(S)
    BY <2>1, SeqMonotonic, FlattenSeqs
  <2> HIDE DEF P
  <2>3. Joined(r) \in Seq(P) /\ Joined(Append(r, t)) = Joined(r) \o (Gap(r) \o t)
    BY <2>1, <2>2, JoinedAppend
  <2>4. Gap(r) \in Seq(P) /\ Gap(r) \o t \in Seq(P)
    <3>1. <<Blank>> \in Seq(P) /\ <<>> \in Seq(P)
      BY <2>1
    <3>2. Gap(r) \in Seq(P)
      BY <3>1 DEF Gap
    <3> QED
      BY <2>1, <3>2, ConcatProperties
  <2>5. Words(Gap(r)) = <<>>
    <3>1. Words(Append(<<>>, Blank)) = Words(<<>>) \o <<>>
      <4>1. <<>> \in Seq(P)
        OBVIOUS
      <4> QED
        BY <2>1, <4>1, WordsAppend
    <3>2. Append(<<>>, Blank) = <<Blank>>
      OBVIOUS
    <3>3. Words(<<Blank>>) = <<>>
      BY <3>1, <3>2, WordsEmpty
    <3> QED
      BY <3>3, WordsEmpty DEF Gap
  <2>6. Words(t) = t
    BY WordsSame
  <2>7. Words(Gap(r) \o t) = <<>> \o t
    BY <2>1, <2>4, <2>5, <2>6, WordsConcat
  <2>8. <<>> \o t = t
    BY ConcatEmptySeq
  <2>9. Words(Joined(Append(r, t))) = Words(Joined(r)) \o t
    BY <2>3, <2>4, <2>7, <2>8, WordsConcat
  <2>10. FlattenSeq(Append(r, t)) = FlattenSeq(r) \o t
    BY FlattenAppend
  <2>11. Append(r, t) \in Seq(Seq(S))
    BY AppendProperties
  <2> QED
    BY <1>2, <2>9, <2>10, <2>11
<1> HIDE DEF Good
<1>3. m \in Good
  BY <1>1, <1>2, SeqInduction
<1> QED
  BY <1>3 DEF Good

-----------------------------------------------------------------------------
(* What the model has said *)

Token == (Nat \ {0}) \X Nat
Block == [kind : {"text", "call", "thought"}, pieces : Nat, done : BOOLEAN, lost : BOOLEAN]

PiecesOf(b, n) == [i \in 1 .. n |-> <<b, i>>]
SaidBy(b, block) == IF block.kind = "text" THEN PiecesOf(b, block.pieces) ELSE <<>>
\* The text of the first n blocks.
UpTo(m, n) == FlattenSeq([b \in 1 .. n |-> SaidBy(b, m[b])])

LEMMA PiecesOfSeq ==
  ASSUME NEW b \in Nat \ {0}, NEW n \in Nat
  PROVE  PiecesOf(b, n) \in Seq(Token) /\ Len(PiecesOf(b, n)) = n
BY DEF PiecesOf, Token

LEMMA PiecesOfMore ==
  ASSUME NEW b \in Nat \ {0}, NEW n \in Nat
  PROVE  <<b, n + 1>> \in Token /\ PiecesOf(b, n + 1) = PiecesOf(b, n) \o <<<<b, n + 1>>>>
<1> DEFINE f == PiecesOf(b, n)
           g == PiecesOf(b, n + 1)
           e == <<b, n + 1>>
<1>1. f \in [1 .. n -> Token] /\ g \in [1 .. n + 1 -> Token] /\ (\A i \in 1 .. n : g[i] = f[i]) /\ g[n + 1] = e
  BY DEF PiecesOf, Token
<1>2. e \in Token
  BY DEF Token
<1> HIDE DEF f, g, e
<1>3. f \in Seq(Token) /\ g = Append(f, e)
  BY <1>1, OneLonger
<1>4. g = f \o <<e>>
  BY <1>2, <1>3, AppendIsConcat
<1> QED
  BY <1>2, <1>4 DEF f, g, e

LEMMA SaidBySeq == ASSUME NEW b \in Nat \ {0}, NEW x \in Block PROVE SaidBy(b, x) \in Seq(Token)
<1>1. x.pieces \in Nat
  BY DEF Block
<1> QED
  BY <1>1, PiecesOfSeq DEF SaidBy

LEMMA UpToStep ==
  ASSUME NEW m \in Seq(Block), NEW n \in Nat, n + 1 <= Len(m)
  PROVE  UpTo(m, n) \in Seq(Token) /\ UpTo(m, n + 1) = UpTo(m, n) \o SaidBy(n + 1, m[n + 1])
<1> DEFINE f == [b \in 1 .. n |-> SaidBy(b, m[b])]
           g == [b \in 1 .. n + 1 |-> SaidBy(b, m[b])]
           T == Seq(Token)
<1>1. ASSUME NEW b \in 1 .. n + 1 PROVE SaidBy(b, m[b]) \in T
  <2>1. b \in Nat \ {0} /\ b \in 1 .. Len(m)
    BY LenProperties
  <2>2. m[b] \in Block
    BY <2>1, ElementOfSeq
  <2> QED
    BY <2>1, <2>2, SaidBySeq
<1> HIDE DEF T
<1>2. f \in [1 .. n -> T] /\ g \in [1 .. n + 1 -> T]
  BY <1>1
<1>3. \A i \in 1 .. n : g[i] = f[i]
  OBVIOUS
<1>4. g[n + 1] = SaidBy(n + 1, m[n + 1]) /\ g[n + 1] \in T
  BY <1>1
<1> HIDE DEF f, g
<1>5. f \in Seq(T) /\ g = Append(f, g[n + 1])
  BY <1>2, <1>3, OneLonger
<1>6. FlattenSeq(f) \in Seq(Token) /\ FlattenSeq(g) = FlattenSeq(f) \o g[n + 1]
  BY <1>4, <1>5, FlattenAppend, FlattenSeqs DEF T
<1> QED
  BY <1>4, <1>6 DEF UpTo, f, g

LEMMA UpToSame ==
  ASSUME NEW m, NEW k, NEW n \in Nat, \A b \in 1 .. n : SaidBy(b, m[b]) = SaidBy(b, k[b])
  PROVE  UpTo(m, n) = UpTo(k, n)
BY DEF UpTo

LEMMA UpToSeq == ASSUME NEW m \in Seq(Block) PROVE UpTo(m, Len(m)) \in Seq(Token)
<1> DEFINE f == [b \in 1 .. Len(m) |-> SaidBy(b, m[b])]
<1>1. Len(m) \in Nat /\ \A b \in 1 .. Len(m) : SaidBy(b, m[b]) \in Seq(Token)
  BY LenProperties, ElementOfSeq, SaidBySeq
<1>2. f \in Seq(Seq(Token))
  BY <1>1
<1> HIDE DEF f
<1>3. FlattenSeq(f) \in Seq(Token)
  BY <1>2, FlattenSeqs
<1> QED
  BY <1>3 DEF UpTo, f

\* A new block has said nothing yet.
LEMMA UpToBegins ==
  ASSUME NEW m \in Seq(Block), NEW x \in Block, x.pieces = 0
  PROVE  UpTo(Append(m, x), Len(m) + 1) = UpTo(m, Len(m)) /\ UpTo(Append(m, x), Len(m)) = UpTo(m, Len(m))
<1> DEFINE n == Len(m)
           a == Append(m, x)
<1>1. n \in Nat /\ a \in Seq(Block) /\ Len(a) = n + 1 /\ a[n + 1] = x /\ \A i \in 1 .. n : a[i] = m[i]
  BY AppendProperties, LenProperties
<1>2. UpTo(m, n) \in Seq(Token)
  BY UpToSeq
<1> HIDE DEF n, a
<1>3. UpTo(a, n) = UpTo(m, n)
  BY <1>1, UpToSame
<1>4. UpTo(a, n + 1) = UpTo(a, n) \o SaidBy(n + 1, x)
  <2>1. n + 1 <= Len(a)
    BY <1>1
  <2>2. UpTo(a, n + 1) = UpTo(a, n) \o SaidBy(n + 1, a[n + 1])
    BY <1>1, <2>1, UpToStep
  <2> QED
    BY <1>1, <2>2
<1>5. SaidBy(n + 1, x) = <<>>
  BY DEF SaidBy, PiecesOf
<1>6. UpTo(m, n) \o <<>> = UpTo(m, n)
  BY <1>2, ConcatEmptySeq
<1> QED
  BY <1>3, <1>4, <1>5, <1>6 DEF n, a

\* Of a model whose last block is text the text is that of the others and its own.
LEMMA UpToLast ==
  ASSUME NEW m \in Seq(Block), NEW n \in Nat \ {0}, Len(m) = n, m[n].kind = "text"
  PROVE  UpTo(m, n - 1) \in Seq(Token) /\ UpTo(m, n) = UpTo(m, n - 1) \o PiecesOf(n, m[n].pieces)
<1>1. n - 1 \in Nat /\ (n - 1) + 1 = n /\ (n - 1) + 1 <= Len(m)
  OBVIOUS
<1>2. UpTo(m, n - 1) \in Seq(Token) /\ UpTo(m, (n - 1) + 1) = UpTo(m, n - 1) \o SaidBy((n - 1) + 1, m[(n - 1) + 1])
  BY <1>1, UpToStep
<1> QED
  BY <1>1, <1>2 DEF SaidBy

\* It goes on by a piece.
LEMMA UpToGrows ==
  ASSUME NEW m \in Seq(Block), NEW k \in Seq(Block), NEW n \in Nat \ {0}, Len(m) = n, Len(k) = n,
         m[n].kind = "text", k[n].kind = "text", k[n].pieces = m[n].pieces + 1, \A b \in 1 .. n - 1 : k[b] = m[b]
  PROVE  /\ UpTo(k, n - 1) = UpTo(m, n - 1)
         /\ UpTo(k, n) = UpTo(m, n) \o <<<<n, m[n].pieces + 1>>>>
<1> DEFINE p == m[n].pieces
           u == UpTo(m, n - 1)
           q == PiecesOf(n, p)
           t == <<<<n, p + 1>>>>
<1>1. n - 1 \in Nat /\ p \in Nat
  <2>1. n \in 1 .. Len(m)
    OBVIOUS
  <2>2. m[n] \in Block
    BY <2>1, ElementOfSeq
  <2> QED
    BY <2>2 DEF Block
<1>2. UpTo(k, n - 1) = u
  BY <1>1, UpToSame
<1>3. u \in Seq(Token) /\ UpTo(m, n) = u \o q /\ UpTo(k, n) = UpTo(k, n - 1) \o PiecesOf(n, p + 1)
  BY UpToLast
<1>4. q \in Seq(Token) /\ PiecesOf(n, p + 1) = q \o t
  <2> HIDE DEF p
  <2> QED
    BY <1>1, PiecesOfSeq, PiecesOfMore
<1>5. t \in Seq(Token)
  <2>1. <<n, p + 1>> \in Token
    BY <1>1 DEF Token
  <2> HIDE DEF p
  <2> QED
    BY <2>1
<1> HIDE DEF p, u, q, t
<1>6. u \in Seq(Token)
  BY <1>3
<1>7. (u \o q) \o t = u \o (q \o t)
  <2>1. q \in Seq(Token)
    BY <1>4
  <2> QED
    BY ONLY <1>5, <1>6, <2>1, ConcatAssociative, SMTT(30)
<1> QED
  BY <1>2, <1>3, <1>4, <1>7 DEF p, u, t

-----------------------------------------------------------------------------
(* The invariant *)

CallTexts == UNION {[S -> Seq(Token)] : S \in SUBSET Nat}
Takings ==
  [messages : Seq(Seq(Token)), items : Seq(Nat \ {0}), calls : CallTexts, usage : BOOLEAN, stopping : BOOLEAN]
USE DEF Takings

StreamTyped ==
  /\ model \in Seq(Block) /\ live \in BOOLEAN
  /\ taken \in Takings

\* Nothing has come before the request is sent.
Fresh == protocol = "none" => model = <<>> /\ taken = Nothing /\ streamed = <<>>

\* In a stream in order only the last block is not whole.
OneByOne == (protocol # "codex" \/ flaw # "disorder") => \A b \in DOMAIN model : b # Len(model) => Finished(b)

\* What was streamed is the text so far, with its blank lines.
Heard ==
  /\ live => streamed = IF protocol = "codex" THEN Joined(taken.messages) ELSE UpTo(model, Len(model))
  /\ ~live => streamed = <<>>

\* All the backends but Codex have the whole text so far, or will get it again.
TextTaken == protocol \notin {"codex", "responses"} => FlattenSeq(taken.messages) = UpTo(model, Len(model))

\* Codex's messages are of blocks, and in order the last block is no earlier one's.
ItemsTrue ==
  protocol = "codex" =>
    /\ Len(taken.items) = Len(taken.messages)
    /\ \A i \in DOMAIN taken.items :
         /\ taken.items[i] <= Len(model)
         /\ flaw # "disorder" /\ i # Len(taken.items) => taken.items[i] # Len(model)

\* Of a message that is not whole Codex has the first pieces, and all of them unless a delta was lost.
Unfinished == model # <<>> /\ IsText(Len(model)) /\ ~Finished(Len(model))
Had == IF taken.items # <<>> /\ Last(taken.items) = Len(model) THEN Last(taken.messages) ELSE <<>>
MessagesTrue ==
  (protocol = "codex" /\ flaw # "disorder") =>
    IF Unfinished
    THEN /\ Len(Had) <= model[Len(model)].pieces /\ Had = PiecesOf(Len(model), Len(Had))
         /\ ~model[Len(model)].lost => Len(Had) = model[Len(model)].pieces
         /\ FlattenSeq(taken.messages) = UpTo(model, Len(model) - 1) \o Had
    ELSE FlattenSeq(taken.messages) = UpTo(model, Len(model))

\* A call that was taken is what was said of it, and one that was not has said nothing.  The Messages API leaves none out.
CallsTaken ==
  /\ \A b \in DOMAIN taken.calls : b \in DOMAIN model /\ model[b].kind = "call"
  /\ protocol # "responses" =>
       \A b \in DOMAIN model : model[b].kind = "call" =>
         IF b \in DOMAIN taken.calls THEN taken.calls[b] = PiecesOf(b, model[b].pieces)
         ELSE protocol # "anthropic" /\ model[b].pieces = 0 /\ ~Finished(b)

\* Who stops or answers without a flaw has everything; so has one that waits for its last event.
Uncut == flaw = "none" \/ (Announced /\ protocol # "codex")
EndsWhole == Uncut /\ (taken.stopping \/ outcome = "answer") => \A b \in DOMAIN model : Finished(b)

StreamInv ==
  /\ StreamTyped /\ Fresh /\ OneByOne /\ Heard /\ TextTaken /\ ItemsTrue /\ MessagesTrue /\ CallsTaken /\ EndsWhole

-----------------------------------------------------------------------------
(* What a step does to the parts *)

LEMMA Shape ==
  ASSUME StreamTyped
  PROVE  /\ Len(model) \in Nat /\ DOMAIN model = 1 .. Len(model) /\ (model = <<>> <=> Len(model) = 0)
         /\ \A b \in DOMAIN model : b \in Nat \ {0} /\ model[b] \in Block /\ model[b].pieces \in Nat
         /\ Len(taken.items) \in Nat /\ DOMAIN taken.items = 1 .. Len(taken.items)
         /\ (taken.items = <<>> <=> Len(taken.items) = 0)
         /\ \A i \in DOMAIN taken.items : taken.items[i] \in Nat \ {0}
         /\ Len(taken.messages) \in Nat /\ (taken.messages = <<>> <=> Len(taken.messages) = 0)
         /\ DOMAIN taken.messages = 1 .. Len(taken.messages)
         /\ \A i \in DOMAIN taken.messages : taken.messages[i] \in Seq(Token)
         /\ taken.messages \in Seq(Seq(Token)) /\ taken.items \in Seq(Nat \ {0})
<1>1. model \in Seq(Block) /\ taken.messages \in Seq(Seq(Token)) /\ taken.items \in Seq(Nat \ {0})
  BY DEF StreamTyped
<1>2. \A x \in Block : x.pieces \in Nat
  BY DEF Block
<1>3. /\ Len(model) \in Nat /\ DOMAIN model = 1 .. Len(model) /\ (model = <<>> <=> Len(model) = 0)
      /\ \A b \in DOMAIN model : b \in Nat \ {0} /\ model[b] \in Block
  BY <1>1, LenProperties, ElementOfSeq, EmptySeq
<1>4. /\ Len(taken.items) \in Nat /\ DOMAIN taken.items = 1 .. Len(taken.items)
      /\ (taken.items = <<>> <=> Len(taken.items) = 0)
      /\ \A i \in DOMAIN taken.items : taken.items[i] \in Nat \ {0}
  BY <1>1, LenProperties, ElementOfSeq, EmptySeq
<1>5. /\ Len(taken.messages) \in Nat /\ (taken.messages = <<>> <=> Len(taken.messages) = 0)
      /\ DOMAIN taken.messages = 1 .. Len(taken.messages)
      /\ \A i \in DOMAIN taken.messages : taken.messages[i] \in Seq(Token)
  <2> DEFINE m == taken.messages
             T == Seq(Token)
  <2>1. m \in Seq(T)
    BY <1>1
  <2> HIDE DEF m, T
  <2>2. /\ Len(m) \in Nat /\ (m = <<>> <=> Len(m) = 0) /\ DOMAIN m = 1 .. Len(m) /\ \A i \in DOMAIN m : m[i] \in T
    BY <2>1, LenProperties, ElementOfSeq, EmptySeq
  <2> QED
    BY <2>2 DEF m, T
<1> QED
  BY <1>1, <1>2, <1>3, <1>4, <1>5

\* One block changes.
LEMMA BlockChanged ==
  ASSUME StreamTyped, NEW b \in DOMAIN model, NEW x \in Block, model' = [model EXCEPT ![b] = x]
  PROVE  /\ model' \in Seq(Block) /\ Len(model') = Len(model) /\ DOMAIN model' = DOMAIN model /\ model'[b] = x
         /\ \A c \in DOMAIN model : c # b => model'[c] = model[c]
<1>1. model \in Seq(Block)
  BY DEF StreamTyped
<1>2. b \in 1 .. Len(model) /\ DOMAIN model = 1 .. Len(model)
  BY Shape
<1>3. /\ model' \in Seq(Block) /\ Len(model') = Len(model)
      /\ \A c \in 1 .. Len(model) : model'[c] = IF c = b THEN x ELSE model[c]
  BY <1>1, <1>2, ExceptSeq
<1> QED
  BY <1>2, <1>3, LenProperties

LEMMA MoreIs ==
  ASSUME StreamTyped, NEW b \in DOMAIN model
  PROVE  More(b) = [model EXCEPT ![b] = [kind |-> model[b].kind, pieces |-> model[b].pieces + 1,
                                         done |-> model[b].done, lost |-> model[b].lost]]
<1>1. PICK old \in Block : old = model[b]
  BY Shape
<1>2. [old EXCEPT !.pieces = @ + 1] =
        [kind |-> old.kind, pieces |-> old.pieces + 1, done |-> old.done, lost |-> old.lost]
  BY DEF Block
<1>3. More(b) = [model EXCEPT ![b] = [old EXCEPT !.pieces = @ + 1]]
  BY <1>1 DEF More
<1> QED
  BY <1>1, <1>2, <1>3

LEMMA FieldSet ==
  ASSUME NEW x \in Block, NEW v
  PROVE  /\ [x EXCEPT !.done = v] = [kind |-> x.kind, pieces |-> x.pieces, done |-> v, lost |-> x.lost]
         /\ [x EXCEPT !.lost = v] = [kind |-> x.kind, pieces |-> x.pieces, done |-> x.done, lost |-> v]
BY DEF Block

LEMMA KindSet ==
  ASSUME NEW x \in Block, NEW v
  PROVE  [x EXCEPT !.kind = v] = [kind |-> v, pieces |-> x.pieces, done |-> x.done, lost |-> x.lost]
BY DEF Block

LEMMA LostIs ==
  ASSUME StreamTyped, NEW b \in DOMAIN model
  PROVE  [More(b) EXCEPT ![b].lost = TRUE] =
           [model EXCEPT ![b] = [kind |-> model[b].kind, pieces |-> model[b].pieces + 1,
                                 done |-> model[b].done, lost |-> TRUE]]
<1> DEFINE x == [kind |-> model[b].kind, pieces |-> model[b].pieces + 1, done |-> model[b].done, lost |-> model[b].lost]
           y == [kind |-> model[b].kind, pieces |-> model[b].pieces + 1, done |-> model[b].done, lost |-> TRUE]
<1>1. [More(b) EXCEPT ![b].lost = TRUE] = [[model EXCEPT ![b] = x] EXCEPT ![b].lost = TRUE]
  BY MoreIs
<1>2. [x EXCEPT !.lost = TRUE] = y
  <2>1. model[b] \in Block
    BY Shape
  <2>2. x \in Block
    BY <2>1 DEF Block
  <2>3. x.kind = model[b].kind /\ x.pieces = model[b].pieces + 1 /\ x.done = model[b].done
    OBVIOUS
  <2> HIDE DEF x
  <2>4. [x EXCEPT !.lost = TRUE] = [kind |-> x.kind, pieces |-> x.pieces, done |-> x.done, lost |-> TRUE]
    BY <2>2, FieldSet
  <2> QED
    BY <2>3, <2>4
<1> HIDE DEF x, y
<1>3. [[model EXCEPT ![b] = x] EXCEPT ![b].lost = TRUE] = [model EXCEPT ![b] = [x EXCEPT !.lost = TRUE]]
  OBVIOUS
<1> QED
  BY <1>1, <1>2, <1>3 DEF x, y

LEMMA DoneIs ==
  ASSUME StreamTyped, NEW b \in DOMAIN model
  PROVE  [model EXCEPT ![b].done = TRUE] =
           [model EXCEPT ![b] = [kind |-> model[b].kind, pieces |-> model[b].pieces, done |-> TRUE, lost |-> model[b].lost]]
<1>1. PICK old \in Block : old = model[b]
  BY Shape
<1>2. [old EXCEPT !.done = TRUE] = [kind |-> old.kind, pieces |-> old.pieces, done |-> TRUE, lost |-> old.lost]
  BY FieldSet
<1> QED
  BY <1>1, <1>2

\* A call's pieces go to its end.
LEMMA CallTakenIs ==
  ASSUME StreamTyped, NEW b \in Nat, NEW pieces \in Seq(Token), taken' = CallTaken(b, pieces)
  PROVE  /\ taken' \in Takings
         /\ taken'.messages = taken.messages /\ taken'.items = taken.items /\ taken'.usage = taken.usage
         /\ taken'.stopping = taken.stopping
         /\ DOMAIN taken'.calls = DOMAIN taken.calls \cup {b}
         /\ \A c \in DOMAIN taken.calls : c # b => taken'.calls[c] = taken.calls[c]
         /\ taken'.calls[b] = (IF b \in DOMAIN taken.calls THEN taken.calls[b] ELSE <<>>) \o pieces
<1> DEFINE T == Seq(Token)
           S == DOMAIN taken.calls
           new == [c \in S \cup {b} |-> (IF c \in S THEN taken.calls[c] ELSE <<>>) \o (IF c = b THEN pieces ELSE <<>>)]
<1>1. taken \in [messages : Seq(T), items : Seq(Nat \ {0}), calls : CallTexts, usage : BOOLEAN, stopping : BOOLEAN]
  BY DEF StreamTyped
<1>2. taken' = [taken EXCEPT !.calls = new]
  BY DEF CallTaken
<1>3. S \in SUBSET Nat /\ taken.calls \in [S -> T]
  BY <1>1 DEF CallTexts
<1>4. <<>> \in T /\ pieces \in T
  BY EmptySeq
<1>5. \A c \in S : taken.calls[c] \in T
  BY <1>3
<1>6. \A t, u \in T : t \o u \in T /\ t \o <<>> = t
  BY ConcatProperties, ConcatEmptySeq
<1> HIDE DEF T, S
<1>7. \A c \in S \cup {b} : (IF c \in S THEN taken.calls[c] ELSE <<>>) \o (IF c = b THEN pieces ELSE <<>>) \in T
  BY <1>4, <1>5, <1>6
<1>8. new \in [S \cup {b} -> T]
  BY <1>7
<1>9. DOMAIN new = S \cup {b} /\ new[b] = (IF b \in S THEN taken.calls[b] ELSE <<>>) \o pieces
  OBVIOUS
<1>10. \A c \in S : c # b => new[c] = taken.calls[c] \o <<>>
  OBVIOUS
<1> HIDE DEF new
<1>11. new \in CallTexts
  <2>1. S \cup {b} \in SUBSET Nat
    BY <1>3
  <2> QED
    BY <1>8, <2>1 DEF CallTexts, T
<1>12. \A c \in S : c # b => new[c] = taken.calls[c]
  BY <1>5, <1>6, <1>10
<1>13. /\ taken' \in [messages : Seq(T), items : Seq(Nat \ {0}), calls : CallTexts, usage : BOOLEAN, stopping : BOOLEAN]
       /\ taken'.messages = taken.messages /\ taken'.items = taken.items /\ taken'.usage = taken.usage
       /\ taken'.stopping = taken.stopping /\ taken'.calls = new
  BY <1>1, <1>2, <1>11
<1> QED
  BY <1>9, <1>12, <1>13 DEF T, S

\* A piece of a message goes to its end, or begins the next one.
PieceTaken(b, text) ==
  /\ taken' \in Takings
  /\ taken'.calls = taken.calls /\ taken'.usage = taken.usage /\ taken'.stopping = taken.stopping
  /\ Len(taken'.items) = Len(taken'.messages) /\ taken'.items # <<>> /\ Last(taken'.items) = b
  /\ \A i \in DOMAIN taken'.items : i # Len(taken'.items) =>
       i \in DOMAIN taken.items /\ taken'.items[i] = taken.items[i] /\ (i # Len(taken.items) \/ taken.items[i] # b)
  /\ FlattenSeq(taken'.messages) = FlattenSeq(taken.messages) \o text
  /\ Last(taken'.messages) =
       (IF taken.items # <<>> /\ Last(taken.items) = b THEN Last(taken.messages) ELSE <<>>) \o text
  /\ live /\ streamed = Joined(taken.messages) => streamed' = Joined(taken'.messages)
  /\ ~live => streamed' = streamed

LEMMA PieceIs ==
  ASSUME StreamTyped, Len(taken.items) = Len(taken.messages), NEW b \in Nat \ {0}, NEW text \in Seq(Token), piece(b, text)
  PROVE  PieceTaken(b, text)
<1> DEFINE m == taken.messages
           items == taken.items
           P == Token \cup {Blank}
<1>1. /\ m \in Seq(Seq(Token)) /\ items \in Seq(Nat \ {0}) /\ Len(m) \in Nat /\ Len(items) = Len(m)
      /\ (m = <<>> <=> Len(m) = 0) /\ (items = <<>> <=> Len(items) = 0)
      /\ DOMAIN items = 1 .. Len(items) /\ DOMAIN m = 1 .. Len(m)
  BY Shape
<1>2. taken \in Takings
  BY DEF StreamTyped
<1>3. Blank \in P /\ Seq(Token) \subseteq Seq(P)
  OBVIOUS
<1>4. m \in Seq(Seq(P)) /\ text \in Seq(P)
  BY <1>1, <1>3, SeqMonotonic
<1>5. <<>> \in Seq(Token) /\ <<>> \o text = text
  BY EmptySeq, ConcatEmptySeq
<1>6. CASE items = <<>> \/ Last(items) # b
  <2> DEFINE m1 == Append(m, text)
             i1 == Append(items, b)
  <2>1. taken' = [taken EXCEPT !.items = i1, !.messages = m1]
    BY <1>6 DEF piece
  <2>2. streamed' = IF live THEN streamed \o ((IF items # <<>> THEN <<Blank>> ELSE <<>>) \o text) ELSE streamed
    BY <1>6 DEF piece, on_delta
  <2>3. /\ m1 \in Seq(Seq(Token)) /\ Len(m1) = Len(m) + 1 /\ m1[Len(m) + 1] = text
    BY <1>1, AppendProperties
  <2>4. /\ i1 \in Seq(Nat \ {0}) /\ Len(i1) = Len(items) + 1 /\ i1[Len(items) + 1] = b /\ i1 # <<>>
        /\ \A i \in 1 .. Len(items) : i1[i] = items[i]
    <3> DEFINE N == Nat \ {0}
    <3>1. items \in Seq(N) /\ b \in N
      BY <1>1
    <3> HIDE DEF N, items
    <3>2. /\ Append(items, b) \in Seq(N) /\ Append(items, b) # <<>> /\ Len(Append(items, b)) = Len(items) + 1
          /\ Append(items, b)[Len(items) + 1] = b /\ \A i \in 1 .. Len(items) : Append(items, b)[i] = items[i]
      BY <3>1, AppendProperties
    <3> QED
      BY <3>2 DEF N
  <2>5. FlattenSeq(m1) = FlattenSeq(m) \o text
    BY <1>1, FlattenAppend
  <2>6. Joined(m1) = Joined(m) \o (Gap(m) \o text)
    BY <1>3, <1>4, JoinedAppend
  <2>7. Gap(m) = IF items # <<>> THEN <<Blank>> ELSE <<>>
    BY <1>1 DEF Gap
  <2>8. DOMAIN i1 = 1 .. Len(i1)
    BY <2>4, LenProperties
  <2> HIDE DEF m, items, m1, i1, P
  <2>9. live /\ streamed = Joined(m) => streamed' = Joined(m1)
    BY <2>2, <2>6, <2>7
  <2>10. /\ taken' \in Takings
         /\ taken'.calls = taken.calls /\ taken'.usage = taken.usage /\ taken'.stopping = taken.stopping
         /\ taken'.items = i1 /\ taken'.messages = m1
    BY <1>2, <2>1, <2>3, <2>4
  <2>11. ASSUME NEW i \in DOMAIN i1, i # Len(i1)
         PROVE  i \in DOMAIN items /\ i1[i] = items[i] /\ (i # Len(items) \/ items[i] # b)
    <3>1. i \in 1 .. Len(items)
      BY <1>1, <2>4, <2>8, <2>11
    <3>2. items # <<>>
      BY <1>1, <3>1
    <3>3. i = Len(items) => items[i] # b
      BY <1>6, <3>2 DEF Last
    <3> QED
      BY <1>1, <2>4, <3>1, <3>3
  <2>12. Last(i1) = b /\ Last(m1) = text /\ Len(i1) = Len(m1)
    BY <1>1, <2>3, <2>4 DEF Last
  <2>13. ~(items # <<>> /\ Last(items) = b)
    BY <1>6
  <2>14. ~live => streamed' = streamed
    BY <2>2
  <2> QED
    BY <1>5, <2>4, <2>5, <2>9, <2>10, <2>11, <2>12, <2>13, <2>14 DEF PieceTaken, m, items
<1>7. CASE items # <<>> /\ Last(items) = b
  <2> DEFINE m1 == Extended(m, text)
  <2>1. taken' = [taken EXCEPT !.items = items, !.messages = m1]
    <3>1. ~(taken.items = <<>> \/ Last(taken.items) # b)
      BY <1>7
    <3>2. taken' = [taken EXCEPT !.items = @, !.messages = Extended(@, text)]
      BY <3>1 DEF piece
    <3> QED
      BY <1>2, <3>2
  <2>2. streamed' = IF live THEN streamed \o (<<>> \o text) ELSE streamed
    BY <1>7 DEF piece, on_delta
  <2>3. m # <<>>
    BY <1>1, <1>7
  <2>4. FlattenSeq(m1) = FlattenSeq(m) \o text /\ m1 \in Seq(Seq(Token))
    BY <1>1, <2>3, FlattenLast
  <2>5. Joined(m1) = Joined(m) \o text
    BY <1>3, <1>4, <2>3, JoinedLast
  <2>6. Len(m1) = Len(m) /\ Last(m1) = Last(m) \o text
    BY <1>1, <2>3 DEF Extended, Last
  <2> HIDE DEF m, items, m1, P
  <2>7. /\ taken' \in Takings
        /\ taken'.calls = taken.calls /\ taken'.usage = taken.usage /\ taken'.stopping = taken.stopping
        /\ taken'.items = items /\ taken'.messages = m1
    BY <1>1, <1>2, <2>1, <2>4
  <2>8. live /\ streamed = Joined(m) => streamed' = Joined(m1)
    BY <1>5, <2>2, <2>5
  <2>9. ~live => streamed' = streamed
    BY <2>2
  <2> QED
    BY <1>1, <1>7, <2>4, <2>6, <2>7, <2>8, <2>9 DEF PieceTaken, m, items
<1> QED
  BY <1>6, <1>7

\* Something that is in a sequence is first somewhere.
LEMMA FirstAt ==
  ASSUME NEW S, NEW s \in Seq(S), NEW e \in Range(s)
  PROVE  \E i \in DOMAIN s : s[i] = e /\ \A j \in 1 .. (i - 1) : s[j] # e
<1> DEFINE First(i) == s[i] = e /\ \A j \in 1 .. (i - 1) : s[j] # e
           Good == {n \in Nat : (\E i \in DOMAIN s : i <= n /\ s[i] = e) => \E i \in DOMAIN s : First(i)}
<1>1. Len(s) \in Nat /\ DOMAIN s = 1 .. Len(s)
  BY LenProperties
<1>2. 0 \in Good
  BY <1>1
<1>3. ASSUME NEW n \in Nat, n \in Good PROVE n + 1 \in Good
  <2> SUFFICES ASSUME NEW i \in DOMAIN s, i <= n + 1, s[i] = e PROVE \E k \in DOMAIN s : First(k)
    OBVIOUS
  <2>1. CASE \E k \in DOMAIN s : k <= n /\ s[k] = e
    BY <1>3, <2>1
  <2>2. CASE ~\E k \in DOMAIN s : k <= n /\ s[k] = e
    <3>1. i = n + 1
      BY <1>1, <2>2
    <3>2. First(i)
      BY <1>1, <2>2, <3>1
    <3> QED
      BY <3>2
  <2> QED
    BY <2>1, <2>2
<1> HIDE DEF Good
<1>4. \A n \in Nat : n \in Good
  BY <1>2, <1>3, NatSetInduction
<1>5. PICK i \in DOMAIN s : s[i] = e
  BY DEF Range
<1> QED
  BY <1>1, <1>4, <1>5 DEF Good

LEMMA PiecesIs == ASSUME NEW b PROVE Pieces(b) = PiecesOf(b, model[b].pieces)
BY DEF Pieces, PiecesOf

\* The rest of a text of which the first k pieces have come.
LEMMA RestIs ==
  ASSUME NEW b \in Nat \ {0}, NEW n \in Nat, NEW k \in 0 .. n
  PROVE  /\ IsPrefix(PiecesOf(b, k), PiecesOf(b, n)) /\ Len(PiecesOf(b, k)) = k
         /\ SubSeq(PiecesOf(b, n), k + 1, n) \in Seq(Token)
         /\ PiecesOf(b, k) \o SubSeq(PiecesOf(b, n), k + 1, n) = PiecesOf(b, n)
<1> DEFINE p == PiecesOf(b, n)
           q == PiecesOf(b, k)
<1>1. p \in Seq(Token) /\ Len(p) = n /\ q \in Seq(Token) /\ Len(q) = k
  BY PiecesOfSeq
<1>2. \A i \in 1 .. k : q[i] = p[i]
  BY DEF PiecesOf
<1> HIDE DEF p, q
<1>3. SubSeq(p, 1, n) = p /\ SubSeq(q, 1, k) = q
  BY <1>1, SubSeqFull
<1>4. SubSeq(p, 1, k) = q
  <2> DEFINE u == SubSeq(p, 1, k)
  <2>1. \A i \in 1 .. k : p[i] \in Token
    BY <1>1, ElementOfSeq
  <2>2. u \in Seq(Token) /\ Len(u) = k /\ \A i \in 1 .. k : u[i] = p[i]
    <3>1. /\ SubSeq(p, 1, k) \in Seq(Token) /\ Len(SubSeq(p, 1, k)) = IF 1 <= k THEN k - 1 + 1 ELSE 0
          /\ \A i \in 1 .. k - 1 + 1 : SubSeq(p, 1, k)[i] = p[1 + i - 1]
      BY <2>1, SubSeqProperties
    <3> QED
      BY <3>1
  <2> HIDE DEF u
  <2>3. u = q
    BY <1>1, <1>2, <2>2, SeqEqual
  <2> QED
    BY <2>3 DEF u
<1>5. SubSeq(p, 1, k) \o SubSeq(p, k + 1, n) = SubSeq(p, 1, n)
  <2>1. 1 \in 1 .. Len(p) + 1 /\ k \in 1 - 1 .. Len(p) /\ n \in k .. Len(p)
    BY <1>1
  <2> QED
    BY <1>1, <2>1, ConcatAdjacentSubSeq
<1>6. SubSeq(p, k + 1, n) \in Seq(Token)
  <2>1. \A i \in k + 1 .. n : p[i] \in Token
    BY <1>1, ElementOfSeq
  <2> QED
    BY <2>1, SubSeqProperties
<1>7. IsPrefix(q, p)
  BY <1>1, <1>3, <1>4 DEF IsPrefix
<1>8. q \o SubSeq(p, k + 1, n) = p
  BY <1>3, <1>4, <1>5
<1> QED
  BY <1>1, <1>6, <1>7, <1>8 DEF p, q

\* What completed adds of a message is text, whatever the message has already.
LEMMA RestTyped ==
  ASSUME StreamTyped, Len(taken.items) = Len(taken.messages), NEW b \in DOMAIN model, b \in Range(taken.items)
  PROVE  rest_of(b) \in Seq(Token)
<1> DEFINE First(i) == taken.items[i] = b /\ \A j \in 1 .. (i - 1) : taken.items[j] # b
           at == CHOOSE i \in DOMAIN taken.items : First(i)
           had == taken.messages[at]
           n == model[b].pieces
<1>1. at \in DOMAIN taken.items
  <2>1. taken.items \in Seq(Nat \ {0})
    BY Shape
  <2>2. \E i \in DOMAIN taken.items : First(i)
    BY <2>1, FirstAt
  <2> QED
    BY <2>2
<1>2. rest_of(b) = IF IsPrefix(had, Pieces(b)) THEN SubSeq(Pieces(b), Len(had) + 1, n) ELSE <<>>
  BY DEF rest_of
<1> HIDE DEF at
<1>3. had \in Seq(Token)
  BY <1>1, Shape
<1>4. n \in Nat /\ Len(had) \in Nat /\ b \in Nat \ {0}
  BY <1>3, LenProperties, Shape
<1>5. Pieces(b) \in Seq(Token) /\ Len(Pieces(b)) = n
  <2> HIDE DEF n
  <2> QED
    BY <1>4, PiecesOfSeq, PiecesIs DEF n
<1> HIDE DEF had, n
<1>6. SubSeq(Pieces(b), Len(had) + 1, n) \in Seq(Token)
  <2>1. \A i \in Len(had) + 1 .. n : Pieces(b)[i] \in Token
    BY <1>4, <1>5, ElementOfSeq
  <2> QED
    BY <1>4, <2>1, SubSeqProperties
<1> QED
  BY <1>2, <1>6, EmptySeq

-----------------------------------------------------------------------------
(* The steps *)

LEMMA BeginsKeeps == ASSUME StreamInv, NEW kind \in {"text", "call", "thought"}, begins(kind) PROVE StreamInv'
<1> DEFINE n == Len(model)
           x == [kind |-> kind, pieces |-> 0, done |-> kind = "thought", lost |-> FALSE]
           calls == taken.calls
           anew == protocol = "anthropic" /\ kind = "call"
<1>0. StreamTyped
  BY DEF StreamInv
<1>1. /\ model \in Seq(Block) /\ n \in Nat /\ DOMAIN model = 1 .. n /\ (model = <<>> <=> n = 0)
      /\ \A b \in DOMAIN model : model[b] \in Block
  BY <1>0, Shape DEF StreamTyped
<1>2. x \in Block /\ x.kind = kind /\ x.pieces = 0 /\ (x.done <=> kind = "thought")
  BY DEF Block
<1>3. protocol # "none" /\ outcome = "none" /\ outcome' = outcome /\ protocol' = protocol /\ live' = live
      /\ streamed' = streamed /\ ~taken.stopping
  BY DEF begins, Running
<1>4. model' = Append(model, x)
  BY DEF begins
<1>5. \/ (\A b \in DOMAIN model : Finished(b)) /\ flaw' = flaw
      \/ protocol = "codex" /\ flaw' = "disorder"
  BY DEF begins
<1>6. \A b \in DOMAIN calls : b \in DOMAIN model
  BY DEF StreamInv, CallsTaken
<1>7. taken' = IF anew THEN CallTaken(n + 1, <<>>) ELSE taken
  BY DEF begins
<1>8. /\ taken' \in Takings
      /\ taken'.messages = taken.messages /\ taken'.items = taken.items /\ taken'.stopping = taken.stopping
      /\ DOMAIN taken'.calls = DOMAIN calls \cup (IF anew THEN {n + 1} ELSE {})
      /\ \A c \in DOMAIN calls : taken'.calls[c] = calls[c]
      /\ anew => taken'.calls[n + 1] = <<>>
  <2>1. CASE anew
    <3>1. n + 1 \in Nat /\ <<>> \in Seq(Token) /\ <<>> \o <<>> = <<>>
      BY <1>1, EmptySeq, ConcatEmptySeq
    <3>2. taken' = CallTaken(n + 1, <<>>) /\ n + 1 \notin DOMAIN calls
      BY <1>1, <1>6, <1>7, <2>1
    <3>3. \A c \in DOMAIN calls : c # n + 1
      BY <3>2
    <3> HIDE DEF n, anew
    <3>4. StreamTyped
      BY DEF StreamInv
    <3> QED
      BY <2>1, <3>1, <3>2, <3>3, <3>4, CallTakenIs
  <2>2. CASE ~anew
    <3>1. taken' = taken
      BY <1>7, <2>2
    <3>2. StreamTyped
      BY DEF StreamInv
    <3> QED
      BY <2>2, <3>1, <3>2 DEF StreamTyped
  <2> QED
    BY <2>1, <2>2
<1> HIDE DEF x
<1>9. /\ model' \in Seq(Block) /\ Len(model') = n + 1 /\ DOMAIN model' = 1 .. n + 1 /\ model'[n + 1] = x
      /\ \A b \in 1 .. n : model'[b] = model[b]
  BY <1>1, <1>2, <1>4, AppendProperties, LenProperties
<1>10. UpTo(model', n + 1) = UpTo(model, n) /\ UpTo(model', n) = UpTo(model, n)
  BY <1>1, <1>2, <1>4, UpToBegins
<1> HIDE DEF n, calls, anew
<1>11. StreamTyped'
  BY <1>3, <1>8, <1>9 DEF StreamInv, StreamTyped
<1>12. Fresh'
  BY <1>3 DEF Fresh
<1>13. OneByOne'
  <2> SUFFICES ASSUME protocol # "codex" \/ flaw' # "disorder", NEW b \in 1 .. n + 1, b # n + 1 PROVE model'[b].done
    BY <1>3, <1>9 DEF OneByOne, Finished
  <2>1. b \in 1 .. n
    BY <1>1
  <2> QED
    BY <1>1, <1>5, <1>9, <2>1 DEF Finished
<1>14. Heard'
  BY <1>3, <1>8, <1>9, <1>10 DEF StreamInv, Heard, n
<1>15. TextTaken'
  BY <1>3, <1>8, <1>9, <1>10 DEF StreamInv, TextTaken, n
<1>16. protocol = "codex" => \A i \in DOMAIN taken.items : taken.items[i] <= n
  BY DEF StreamInv, ItemsTrue, n
<1>17. taken.items \in Seq(Nat \ {0}) /\ Len(taken.items) \in Nat /\ DOMAIN taken.items = 1 .. Len(taken.items)
       /\ (taken.items = <<>> <=> Len(taken.items) = 0) /\ \A i \in DOMAIN taken.items : taken.items[i] \in Nat
  BY Shape DEF StreamInv
<1>18. ItemsTrue'
  <2>1. protocol = "codex" => Len(taken.items) = Len(taken.messages)
    BY DEF StreamInv, ItemsTrue
  <2>2. protocol = "codex" => \A i \in DOMAIN taken.items : taken.items[i] <= n + 1 /\ taken.items[i] # n + 1
    BY <1>1, <1>16, <1>17
  <2> QED
    BY <1>3, <1>8, <1>9, <2>1, <2>2 DEF ItemsTrue
<1>19. MessagesTrue'
  <2> SUFFICES ASSUME protocol = "codex", flaw' # "disorder" PROVE MessagesTrue'
    BY <1>3 DEF MessagesTrue
  <2>1. flaw # "disorder" /\ \A b \in DOMAIN model : Finished(b)
    BY <1>5
  <2>2. ~Unfinished
    BY <1>1, <2>1 DEF Unfinished, n
  <2>3. FlattenSeq(taken.messages) = UpTo(model, n)
    BY <2>1, <2>2 DEF StreamInv, MessagesTrue, n
  <2>4. taken.items # <<>> => Last(taken.items) # n + 1
    BY <1>1, <1>16, <1>17 DEF Last
  <2>5. Had' = <<>>
    BY <1>8, <1>9, <2>4 DEF Had
  <2>6. PiecesOf(n + 1, 0) = <<>> /\ Len(<<>>) = 0
    BY DEF PiecesOf
  <2>7. UpTo(model, n) \o <<>> = UpTo(model, n)
    BY <1>1, UpToSeq, ConcatEmptySeq DEF n
  <2>8. Len(model') - 1 = n
    BY <1>1, <1>9
  <2>9. Len(Had') = 0 /\ Had' = PiecesOf(n + 1, Len(Had')) /\ model'[n + 1].pieces = 0
    BY <1>2, <1>9, <2>5, <2>6
  <2>10. FlattenSeq(taken'.messages) = UpTo(model', n) \o Had' /\ FlattenSeq(taken'.messages) = UpTo(model', n + 1)
    BY <1>8, <1>10, <2>3, <2>5, <2>7
  <2>11. Len(model') = n + 1
    BY <1>9
  <2>12. Len(Had') <= model'[n + 1].pieces
    BY <2>9
  <2> QED
    BY <2>8, <2>9, <2>10, <2>11, <2>12 DEF MessagesTrue
<1>20. CallsTaken'
  <2>1. \A b \in DOMAIN taken'.calls : b \in DOMAIN model' /\ model'[b].kind = "call"
    <3>1. \A b \in DOMAIN calls : b \in 1 .. n /\ model[b].kind = "call"
      BY <1>1 DEF StreamInv, CallsTaken, calls
    <3>2. anew => kind = "call"
      BY DEF anew
    <3>3. 1 .. n \subseteq 1 .. n + 1 /\ n + 1 \in 1 .. n + 1
      BY <1>1
    <3> SUFFICES ASSUME NEW b \in DOMAIN taken'.calls PROVE b \in DOMAIN model' /\ model'[b].kind = "call"
      OBVIOUS
    <3>4. CASE b \in DOMAIN calls
      BY <1>9, <3>1, <3>3, <3>4
    <3>5. CASE anew /\ b = n + 1
      BY <1>2, <1>9, <3>2, <3>3, <3>5
    <3> QED
      BY <1>8, <3>4, <3>5
  <2>2. ASSUME protocol # "responses", NEW b \in DOMAIN model', model'[b].kind = "call"
        PROVE  IF b \in DOMAIN taken'.calls THEN taken'.calls[b] = PiecesOf(b, model'[b].pieces)
               ELSE protocol # "anthropic" /\ model'[b].pieces = 0 /\ ~model'[b].done
    <3>1. CASE b = n + 1
      <4>1. kind = "call" /\ model'[b].pieces = 0 /\ ~model'[b].done
        BY <1>2, <1>9, <2>2, <3>1
      <4>2. PiecesOf(b, 0) = <<>>
        BY DEF PiecesOf
      <4>3. CASE anew
        BY <1>8, <3>1, <4>1, <4>2, <4>3
      <4>4. CASE ~anew
        <5>1. b \notin DOMAIN taken'.calls
          BY <1>1, <1>6, <1>8, <3>1, <4>4 DEF calls
        <5> QED
          BY <4>1, <4>4, <5>1 DEF anew
      <4> QED
        BY <4>3, <4>4
    <3>2. CASE b # n + 1
      <4>1. b \in DOMAIN model /\ model'[b] = model[b] /\ model[b].kind = "call"
        BY <1>1, <1>9, <2>2, <3>2
      <4>2. IF b \in DOMAIN calls THEN calls[b] = PiecesOf(b, model[b].pieces)
            ELSE protocol # "anthropic" /\ model[b].pieces = 0 /\ ~model[b].done
        BY <2>2, <4>1 DEF StreamInv, CallsTaken, Finished, calls
      <4>3. b \in DOMAIN taken'.calls <=> b \in DOMAIN calls
        BY <1>8, <3>2
      <4> QED
        BY <1>8, <4>1, <4>2, <4>3
    <3> QED
      BY <3>1, <3>2
  <2> QED
    BY <1>3, <2>1, <2>2 DEF CallsTaken, Finished
<1>21. EndsWhole'
  BY <1>3, <1>8 DEF EndsWhole, Uncut, Announced
<1> QED
  BY <1>11, <1>12, <1>13, <1>14, <1>15, <1>18, <1>19, <1>20, <1>21 DEF StreamInv

\* A text goes on by a piece.
SaidMore(b) ==
  /\ model' \in Seq(Block) /\ Len(model') = Len(model) /\ DOMAIN model' = DOMAIN model
  /\ model'[b].kind = "text" /\ model'[b].pieces = model[b].pieces + 1 /\ ~model'[b].done
  /\ \A c \in DOMAIN model : c # b => model'[c] = model[c]
  /\ (protocol # "codex" \/ flaw # "disorder") =>
       b = Len(model) /\ UpTo(model', Len(model) - 1) = UpTo(model, Len(model) - 1)
       /\ UpTo(model', Len(model)) = UpTo(model, Len(model)) \o <<Piece(b)>>

LEMMA SaidMoreIs ==
  ASSUME StreamInv, NEW b \in DOMAIN model, IsText(b), ~Finished(b), NEW x \in Block, x.kind = "text",
         x.pieces = model[b].pieces + 1, ~x.done, model' = [model EXCEPT ![b] = x]
  PROVE  SaidMore(b)
<1>1. /\ model' \in Seq(Block) /\ Len(model') = Len(model) /\ DOMAIN model' = DOMAIN model /\ model'[b] = x
      /\ \A c \in DOMAIN model : c # b => model'[c] = model[c]
  BY BlockChanged DEF StreamInv
<1>2. model \in Seq(Block) /\ b \in Nat \ {0} /\ Len(model) \in Nat /\ DOMAIN model = 1 .. Len(model)
  <2>1. StreamTyped
    BY DEF StreamInv
  <2> QED
    BY <2>1, Shape DEF StreamTyped
<1>3. ASSUME protocol # "codex" \/ flaw # "disorder"
      PROVE  b = Len(model) /\ UpTo(model', Len(model) - 1) = UpTo(model, Len(model) - 1)
             /\ UpTo(model', Len(model)) = UpTo(model, Len(model)) \o <<Piece(b)>>
  <2>1. b = Len(model)
    BY <1>3 DEF StreamInv, OneByOne
  <2>2. \A c \in 1 .. b - 1 : model'[c] = model[c]
    BY <1>1, <1>2
  <2>3. model[b].kind = "text"
    BY DEF IsText
  <2>4. UpTo(model', b - 1) = UpTo(model, b - 1) /\ UpTo(model', b) = UpTo(model, b) \o <<<<b, model[b].pieces + 1>>>>
    <3>1. /\ model \in Seq(Block) /\ model' \in Seq(Block) /\ Len(model) = b /\ Len(model') = b
          /\ model'[b].kind = "text" /\ model'[b].pieces = model[b].pieces + 1
      BY <1>1, <1>2, <2>1
    <3> QED
      BY ONLY <1>2, <2>2, <2>3, <3>1, UpToGrows
  <2> QED
    BY <2>1, <2>4 DEF Piece
<1> QED
  BY <1>1, <1>3 DEF SaidMore

\* Of the calls nothing changes.
LEMMA CallsSame ==
  ASSUME StreamInv, protocol' = protocol, taken'.calls = taken.calls, Len(model') = Len(model),
         DOMAIN model' = DOMAIN model,
         \A c \in DOMAIN model : model'[c].kind = model[c].kind /\ (model[c].kind = "call" => model'[c] = model[c])
  PROVE  CallsTaken'
<1>1. CallsTaken
  BY DEF StreamInv
<1>2. \A b \in DOMAIN taken'.calls : b \in DOMAIN model' /\ model'[b].kind = "call"
  BY <1>1 DEF CallsTaken
<1>3. ASSUME protocol # "responses", NEW b \in DOMAIN model', model'[b].kind = "call"
      PROVE  IF b \in DOMAIN taken'.calls THEN taken'.calls[b] = PiecesOf(b, model'[b].pieces)
             ELSE protocol # "anthropic" /\ model'[b].pieces = 0 /\ ~model'[b].done
  <2>1. b \in DOMAIN model /\ model[b].kind = "call" /\ model'[b] = model[b]
    BY <1>3
  <2>2. IF b \in DOMAIN taken.calls THEN taken.calls[b] = PiecesOf(b, model[b].pieces)
        ELSE protocol # "anthropic" /\ model[b].pieces = 0 /\ ~model[b].done
    BY <1>1, <1>3, <2>1 DEF CallsTaken, Finished
  <2> QED
    BY <2>1, <2>2
<1> QED
  BY <1>2, <1>3 DEF CallsTaken, Finished

\* In a stream in order a message begun is no message had.
LEMMA ItemsKept ==
  ASSUME StreamInv, protocol = "codex", protocol' = protocol, NEW b \in DOMAIN model, NEW text, PieceTaken(b, text),
         Len(model') = Len(model), flaw' # "disorder" => flaw # "disorder" /\ b = Len(model)
  PROVE  ItemsTrue'
<1>1. ItemsTrue /\ StreamTyped
  BY DEF StreamInv
<1>2. b \in 1 .. Len(model) /\ Len(model) \in Nat /\ Len(taken.items) \in Nat
  BY <1>1, Shape
<1>3. /\ Len(taken'.items) = Len(taken'.messages) /\ Last(taken'.items) = b
      /\ \A i \in DOMAIN taken'.items : i # Len(taken'.items) =>
           i \in DOMAIN taken.items /\ taken'.items[i] = taken.items[i] /\ (i # Len(taken.items) \/ taken.items[i] # b)
  BY DEF PieceTaken
<1>4. ASSUME NEW i \in DOMAIN taken'.items
      PROVE  /\ taken'.items[i] <= Len(model)
             /\ flaw' # "disorder" /\ i # Len(taken'.items) => taken'.items[i] # Len(model)
  <2>1. CASE i = Len(taken'.items)
    BY <1>2, <1>3, <2>1 DEF Last
  <2>2. CASE i # Len(taken'.items)
    BY <1>1, <1>3, <2>2 DEF ItemsTrue
  <2> QED
    BY <2>1, <2>2
<1> QED
  BY <1>3, <1>4 DEF ItemsTrue

LEMMA TextPieceKeeps == ASSUME StreamInv, NEW b \in DOMAIN model, text_piece(b) PROVE StreamInv'
<1> DEFINE n == Len(model)
           t == <<Piece(b)>>
<1>0. StreamTyped /\ n \in Nat /\ DOMAIN model = 1 .. n /\ b \in Nat \ {0} /\ model[b].pieces \in Nat
      /\ model[b] \in Block /\ model \in Seq(Block) /\ (model = <<>> <=> n = 0)
  <2>1. StreamTyped
    BY DEF StreamInv
  <2> QED
    BY <2>1, Shape DEF StreamTyped
<1>1. /\ protocol # "none" /\ outcome = "none" /\ outcome' = outcome /\ protocol' = protocol /\ live' = live
      /\ IsText(b) /\ ~Finished(b)
  BY DEF text_piece, Running, Grows
<1>2. model' = More(b)
  BY DEF text_piece
<1>3. SaidMore(b) /\ model'[b].lost = model[b].lost
  <2> DEFINE x == [kind |-> model[b].kind, pieces |-> model[b].pieces + 1, done |-> model[b].done, lost |-> model[b].lost]
  <2>1. model' = [model EXCEPT ![b] = x]
    BY <1>0, <1>2, MoreIs
  <2>2. x \in Block /\ x.kind = "text" /\ x.pieces = model[b].pieces + 1 /\ ~x.done /\ x.lost = model[b].lost
    <3>1. model[b].kind \in {"text", "call", "thought"} /\ model[b].done \in BOOLEAN /\ model[b].lost \in BOOLEAN
      BY <1>0 DEF Block
    <3> QED
      BY <1>0, <1>1, <3>1 DEF Block, IsText, Finished
  <2> HIDE DEF x
  <2>3. SaidMore(b)
    BY <1>1, <2>1, <2>2, SaidMoreIs
  <2>4. model'[b] = x
    BY <2>1
  <2> QED
    BY <2>2, <2>3, <2>4
<1>4. Piece(b) \in Token /\ t \in Seq(Token)
  <2>1. Piece(b) \in Token
    BY <1>0 DEF Piece, Token
  <2> QED
    BY <2>1
<1>5. Len(model') = n /\ DOMAIN model' = DOMAIN model /\ model' \in Seq(Block)
  BY <1>3 DEF SaidMore
<1>6. \A c \in DOMAIN model : model'[c].kind = model[c].kind /\ (model[c].kind = "call" => model'[c] = model[c])
  BY <1>1, <1>3 DEF SaidMore, IsText
<1>7. \A c \in DOMAIN model : model'[c].done <=> model[c].done
  BY <1>1, <1>3 DEF SaidMore, Finished
<1>8. Fresh'
  BY <1>1 DEF Fresh
<1>9. flaw' = flaw \/ flaw' = "disorder"
  BY DEF text_piece
<1>10. OneByOne'
  <2> SUFFICES ASSUME protocol # "codex" \/ flaw' # "disorder", NEW c \in DOMAIN model, c # n PROVE model[c].done
    BY <1>1, <1>5, <1>7 DEF OneByOne, Finished
  <2>1. protocol # "codex" \/ flaw # "disorder"
    BY <1>9
  <2> QED
    BY <2>1 DEF StreamInv, OneByOne, Finished
<1> HIDE DEF n, t
<1>11. CASE protocol # "codex"
  <2>1. append_text(t) /\ flaw' = flaw
    BY <1>11 DEF text_piece, t
  <2>2. UpTo(model', n) = UpTo(model, n) \o t
    BY <1>3, <1>11 DEF SaidMore, n, t
  <2>3. taken' = IF protocol = "responses" THEN taken ELSE [taken EXCEPT !.messages = <<FlattenSeq(@) \o t>>]
    BY <2>1 DEF append_text
  <2>4. streamed' = IF live THEN streamed \o t ELSE streamed
    BY <2>1 DEF append_text, on_delta
  <2> DEFINE u == FlattenSeq(taken.messages) \o t
  <2>5. u \in Seq(Token)
    BY <1>0, <1>4, Shape, FlattenSeqs, ConcatProperties
  <2>6. taken' = IF protocol = "responses" THEN taken ELSE [taken EXCEPT !.messages = <<u>>]
    BY <2>3
  <2> HIDE DEF u
  <2>7. FlattenSeq(<<u>>) = u /\ <<u>> \in Seq(Seq(Token))
    <3>1. <<u>> \in Seq(Seq(Token))
      BY <2>5
    <3> QED
      BY <3>1, FlattenOne
  <2>8. taken \in Takings
    BY <1>0 DEF StreamTyped
  <2>9. /\ taken' \in Takings
        /\ taken'.calls = taken.calls /\ taken'.stopping = taken.stopping
        /\ protocol # "responses" => taken'.messages = <<u>>
    BY <2>6, <2>7, <2>8
  <2>10. StreamTyped'
    BY <1>0, <1>1, <1>5, <2>9 DEF StreamTyped
  <2>11. Heard'
    BY <1>1, <1>5, <1>11, <2>2, <2>4 DEF StreamInv, Heard, n
  <2>12. TextTaken'
    BY <1>1, <1>5, <2>2, <2>7, <2>9 DEF StreamInv, TextTaken, n, u
  <2>13. ItemsTrue' /\ MessagesTrue'
    BY <1>1, <1>11 DEF ItemsTrue, MessagesTrue
  <2>14. CallsTaken'
    BY <1>1, <1>5, <1>6, <2>9, CallsSame DEF n
  <2>15. EndsWhole'
    BY <1>1, <1>5, <1>7, <2>1, <2>9 DEF StreamInv, EndsWhole, Uncut, Announced, Finished
  <2> QED
    BY <1>8, <1>10, <2>10, <2>11, <2>12, <2>13, <2>14, <2>15 DEF StreamInv
<1>12. CASE protocol = "codex"
  <2>1. piece(b, t) /\ flaw' = IF model[b].lost THEN "disorder" ELSE flaw
    BY <1>12 DEF text_piece, t
  <2>2. Len(taken.items) = Len(taken.messages)
    BY <1>12 DEF StreamInv, ItemsTrue
  <2>3. PieceTaken(b, t)
    BY <1>0, <1>4, <2>1, <2>2, PieceIs
  <2>4. StreamTyped'
    BY <1>0, <1>1, <1>5, <2>3 DEF StreamTyped, PieceTaken
  <2>5. Heard'
    BY <1>1, <1>12, <2>3 DEF StreamInv, Heard, PieceTaken
  <2>6. TextTaken'
    BY <1>1, <1>12 DEF TextTaken
  <2>7. flaw' # "disorder" => flaw # "disorder" /\ ~model[b].lost /\ b = n
    BY <1>3, <2>1 DEF SaidMore, n
  <2>8. ItemsTrue'
    BY <1>1, <1>5, <1>12, <2>3, <2>7, ItemsKept DEF n
  <2>9. MessagesTrue'
    <3> SUFFICES ASSUME flaw' # "disorder" PROVE MessagesTrue'
      BY DEF MessagesTrue
    <3> DEFINE u == UpTo(model, n - 1)
               p == model[b].pieces
    <3>1. flaw # "disorder" /\ ~model[b].lost /\ b = n
      BY <2>7
    <3>2. Unfinished
      BY <1>0, <1>1, <3>1 DEF Unfinished, n
    <3>3. Had = PiecesOf(b, p) /\ FlattenSeq(taken.messages) = u \o Had
      BY <1>12, <3>1, <3>2 DEF StreamInv, MessagesTrue, n
    <3>4. Had' = Had \o t /\ FlattenSeq(taken'.messages) = FlattenSeq(taken.messages) \o t
      BY <1>5, <2>3, <3>1 DEF PieceTaken, Had, n
    <3>5. PiecesOf(b, p + 1) = PiecesOf(b, p) \o t /\ Len(PiecesOf(b, p + 1)) = p + 1
      <4>1. p \in Nat /\ p + 1 \in Nat
        BY <1>0
      <4>2. t = <<<<b, p + 1>>>>
        BY DEF t, Piece
      <4> HIDE DEF p
      <4> QED
        BY <1>0, <4>1, <4>2, PiecesOfMore, PiecesOfSeq
    <3>6. u \in Seq(Token) /\ PiecesOf(b, p) \in Seq(Token)
      BY <1>0, <1>1, <3>1, UpToLast, PiecesOfSeq DEF IsText, n
    <3>7. (u \o Had) \o t = u \o (Had \o t)
      <4>1. Had \in Seq(Token) /\ t \in Seq(Token) /\ u \in Seq(Token)
        BY <1>4, <3>3, <3>6
      <4> HIDE DEF u
      <4> QED
        BY ONLY <4>1, ConcatAssociative
    <3>8. UpTo(model', n - 1) = u
      BY <1>3, <3>1 DEF SaidMore, n
    <3>9. model'[n].pieces = p + 1 /\ p + 1 <= p + 1
      BY <1>0, <1>3, <3>1 DEF SaidMore
    <3>10. Had' = PiecesOf(n, p + 1) /\ Len(Had') = p + 1
      BY <3>1, <3>3, <3>4, <3>5
    <3>11. FlattenSeq(taken'.messages) = UpTo(model', n - 1) \o Had'
      BY <3>3, <3>4, <3>7, <3>8
    <3>12. Unfinished'
      BY <1>0, <1>1, <1>3, <1>5, <3>1 DEF SaidMore, Unfinished, IsText, Finished
    <3> HIDE DEF p, u
    <3> QED
      BY <1>5, <3>9, <3>10, <3>11, <3>12 DEF MessagesTrue
  <2>10. CallsTaken'
    BY <1>1, <1>5, <1>6, <2>3, CallsSame DEF n, PieceTaken
  <2>11. EndsWhole'
    <3>1. flaw' = "none" => flaw = "none"
      BY <1>9
    <3>2. taken'.stopping = taken.stopping
      BY <2>3 DEF PieceTaken
    <3> QED
      BY <1>1, <1>5, <1>7, <3>1, <3>2 DEF StreamInv, EndsWhole, Uncut, Announced, Finished
  <2> QED
    BY <1>8, <1>10, <2>4, <2>5, <2>6, <2>8, <2>9, <2>10, <2>11 DEF StreamInv
<1> QED
  BY <1>11, <1>12

LEMMA HadTyped == ASSUME StreamInv, protocol = "codex" PROVE Had \in Seq(Token) /\ Len(Had) \in Nat
<1>1. StreamTyped /\ Len(taken.items) = Len(taken.messages)
  BY DEF StreamInv, ItemsTrue
<1>2. taken.items # <<>> => Len(taken.messages) \in DOMAIN taken.messages
  BY <1>1, Shape
<1>3. Had \in Seq(Token)
  BY <1>1, <1>2, Shape, EmptySeq DEF Had, Last
<1> QED
  BY <1>3, LenProperties

LEMMA LostPieceKeeps == ASSUME StreamInv, NEW b \in DOMAIN model, lost_piece(b) PROVE StreamInv'
<1> DEFINE n == Len(model)
<1>0. StreamTyped /\ n \in Nat /\ DOMAIN model = 1 .. n /\ b \in Nat \ {0} /\ model[b].pieces \in Nat
      /\ model[b] \in Block /\ model \in Seq(Block) /\ (model = <<>> <=> n = 0)
  <2>1. StreamTyped
    BY DEF StreamInv
  <2> QED
    BY <2>1, Shape DEF StreamTyped
<1>1. /\ protocol = "codex" /\ outcome = "none" /\ outcome' = outcome /\ protocol' = protocol /\ live' = live
      /\ IsText(b) /\ ~Finished(b) /\ taken' = taken /\ streamed' = streamed /\ flaw' = flaw
  BY DEF lost_piece, Running, Grows
<1>2. SaidMore(b) /\ model'[b].lost
  <2> DEFINE x == [kind |-> model[b].kind, pieces |-> model[b].pieces + 1, done |-> model[b].done, lost |-> TRUE]
  <2>1. model' = [model EXCEPT ![b] = x]
    BY <1>0, LostIs DEF lost_piece
  <2>2. x \in Block /\ x.kind = "text" /\ x.pieces = model[b].pieces + 1 /\ ~x.done /\ x.lost
    <3>1. model[b].kind \in {"text", "call", "thought"} /\ model[b].done \in BOOLEAN
      BY <1>0 DEF Block
    <3> QED
      BY <1>0, <1>1, <3>1 DEF Block, IsText, Finished
  <2> HIDE DEF x
  <2>3. SaidMore(b)
    BY <1>1, <2>1, <2>2, SaidMoreIs
  <2>4. model'[b] = x
    BY <2>1
  <2> QED
    BY <2>2, <2>3, <2>4
<1>3. Len(model') = n /\ DOMAIN model' = DOMAIN model /\ model' \in Seq(Block)
  BY <1>2 DEF SaidMore
<1>4. \A c \in DOMAIN model : model'[c].kind = model[c].kind /\ (model[c].kind = "call" => model'[c] = model[c])
  BY <1>1, <1>2 DEF SaidMore, IsText
<1>5. \A c \in DOMAIN model : model'[c].done <=> model[c].done
  BY <1>1, <1>2 DEF SaidMore, Finished
<1>6. StreamTyped' /\ Fresh' /\ TextTaken'
  BY <1>0, <1>1, <1>3 DEF StreamTyped, Fresh, TextTaken
<1>7. OneByOne' /\ EndsWhole'
  BY <1>1, <1>3, <1>5 DEF StreamInv, OneByOne, EndsWhole, Uncut, Announced, Finished
<1>8. Heard' /\ ItemsTrue'
  BY <1>1, <1>3 DEF StreamInv, Heard, ItemsTrue
<1>9. CallsTaken'
  BY <1>1, <1>3, <1>4, CallsSame
<1>10. MessagesTrue'
  <2> SUFFICES ASSUME flaw # "disorder" PROVE MessagesTrue'
    BY <1>1 DEF MessagesTrue
  <2>1. b = n
    BY <1>2 DEF SaidMore
  <2>2. Unfinished /\ Unfinished'
    BY <1>0, <1>1, <1>2, <1>3, <2>1 DEF SaidMore, Unfinished, IsText, Finished
  <2>3. /\ Len(Had) <= model[n].pieces /\ Had = PiecesOf(n, Len(Had))
        /\ FlattenSeq(taken.messages) = UpTo(model, n - 1) \o Had
    BY <1>1, <2>2 DEF StreamInv, MessagesTrue
  <2>4. Had' = Had
    BY <1>1, <1>3 DEF Had
  <2>5. UpTo(model', n - 1) = UpTo(model, n - 1) /\ model'[n].pieces = model[n].pieces + 1
    BY <1>2, <2>1 DEF SaidMore
  <2>6. Len(Had) \in Int
    BY <1>1, HadTyped
  <2>7. Len(Had) <= model'[n].pieces
    BY <1>0, <2>1, <2>3, <2>5, <2>6
  <2> HIDE DEF n
  <2> QED
    BY <1>1, <1>2, <1>3, <2>1, <2>2, <2>3, <2>4, <2>5, <2>7 DEF MessagesTrue
<1> QED
  BY <1>6, <1>7, <1>8, <1>9, <1>10 DEF StreamInv

LEMMA TextSame ==
  ASSUME StreamTyped, Len(model') = Len(model), \A c \in DOMAIN model : SaidBy(c, model'[c]) = SaidBy(c, model[c])
  PROVE  /\ UpTo(model', Len(model)) = UpTo(model, Len(model))
         /\ model # <<>> => UpTo(model', Len(model) - 1) = UpTo(model, Len(model) - 1)
<1>1. Len(model) \in Nat /\ DOMAIN model = 1 .. Len(model) /\ (model = <<>> <=> Len(model) = 0)
  BY Shape
<1>2. UpTo(model', Len(model)) = UpTo(model, Len(model))
  BY <1>1, UpToSame
<1>3. ASSUME model # <<>> PROVE UpTo(model', Len(model) - 1) = UpTo(model, Len(model) - 1)
  <2>1. Len(model) - 1 \in Nat /\ 1 .. Len(model) - 1 \subseteq 1 .. Len(model)
    BY <1>1, <1>3
  <2> QED
    BY <1>1, <2>1, UpToSame
<1> QED
  BY <1>2, <1>3

LEMMA CallPieceKeeps == ASSUME StreamInv, NEW b \in DOMAIN model, call_piece(b) PROVE StreamInv'
<1> DEFINE n == Len(model)
           p == model[b].pieces
           x == [kind |-> model[b].kind, pieces |-> p + 1, done |-> model[b].done, lost |-> model[b].lost]
<1>0. StreamTyped /\ n \in Nat /\ DOMAIN model = 1 .. n /\ b \in Nat \ {0} /\ p \in Nat
      /\ model[b] \in Block /\ model \in Seq(Block) /\ (model = <<>> <=> n = 0)
  <2>1. StreamTyped
    BY DEF StreamInv
  <2> QED
    BY <2>1, Shape DEF StreamTyped
<1>1. /\ protocol # "none" /\ outcome = "none" /\ outcome' = outcome /\ protocol' = protocol /\ live' = live
      /\ model[b].kind = "call" /\ ~Finished(b) /\ streamed' = streamed /\ flaw' = flaw
  BY DEF call_piece, Running, Grows
<1>2. model' = [model EXCEPT ![b] = x]
  BY <1>0, MoreIs DEF call_piece
<1>3. x \in Block /\ x.kind = "call" /\ x.pieces = p + 1 /\ x.done = model[b].done
  BY <1>0, <1>1 DEF Block
<1> HIDE DEF x, n, p
<1>4. /\ model' \in Seq(Block) /\ Len(model') = n /\ DOMAIN model' = DOMAIN model /\ model'[b] = x
      /\ \A c \in DOMAIN model : c # b => model'[c] = model[c]
  BY <1>0, <1>2, <1>3, BlockChanged DEF n
<1>5. /\ taken' \in Takings
      /\ taken'.messages = taken.messages /\ taken'.items = taken.items /\ taken'.stopping = taken.stopping
      /\ DOMAIN taken'.calls = DOMAIN taken.calls \cup (IF protocol = "responses" THEN {} ELSE {b})
      /\ \A c \in DOMAIN taken.calls : c # b => taken'.calls[c] = taken.calls[c]
      /\ protocol # "responses" =>
           taken'.calls[b] = (IF b \in DOMAIN taken.calls THEN taken.calls[b] ELSE <<>>) \o <<Piece(b)>>
  <2>1. taken' = IF protocol = "responses" THEN taken ELSE CallTaken(b, <<Piece(b)>>)
    BY DEF call_piece
  <2>2. CASE protocol = "responses"
    BY <1>0, <2>1, <2>2 DEF StreamTyped
  <2>3. CASE protocol # "responses"
    <3>1. Piece(b) \in Token
      BY <1>0 DEF Piece, Token, p
    <3>2. <<Piece(b)>> \in Seq(Token) /\ b \in Nat /\ taken' = CallTaken(b, <<Piece(b)>>)
      BY <1>0, <2>1, <2>3, <3>1
    <3> QED
      BY <1>0, <2>3, <3>2, CallTakenIs
  <2> QED
    BY <2>2, <2>3
<1>6. \A c \in DOMAIN model : SaidBy(c, model'[c]) = SaidBy(c, model[c])
  BY <1>1, <1>3, <1>4 DEF SaidBy
<1>7. UpTo(model', n) = UpTo(model, n) /\ (model # <<>> => UpTo(model', n - 1) = UpTo(model, n - 1))
  BY <1>0, <1>4, <1>6, TextSame DEF n
<1>8. \A c \in DOMAIN model : model'[c].kind = model[c].kind /\ model'[c].done = model[c].done
  BY <1>1, <1>3, <1>4
<1>9. StreamTyped' /\ Fresh'
  BY <1>0, <1>1, <1>4, <1>5 DEF StreamTyped, Fresh
<1>10. OneByOne' /\ EndsWhole'
  BY <1>1, <1>4, <1>5, <1>8 DEF StreamInv, OneByOne, EndsWhole, Uncut, Announced, Finished, n
<1>11. Heard' /\ TextTaken' /\ ItemsTrue'
  BY <1>1, <1>4, <1>5, <1>7 DEF StreamInv, Heard, TextTaken, ItemsTrue, n
<1>12. MessagesTrue'
  <2> SUFFICES ASSUME protocol = "codex", flaw # "disorder" PROVE MessagesTrue'
    BY <1>1 DEF MessagesTrue
  <2>1. Had' = Had
    BY <1>4, <1>5 DEF Had, n
  <2>2. CASE Unfinished
    <3>1. n # b /\ n \in DOMAIN model /\ model # <<>>
      BY <1>0, <1>1, <2>2 DEF Unfinished, IsText, n
    <3>2. model'[n] = model[n]
      BY <1>4, <3>1
    <3>3. Unfinished' /\ model' # <<>>
      BY <1>0, <1>4, <2>2, <3>1, <3>2 DEF Unfinished, IsText, Finished, n
    <3> QED
      BY <1>4, <1>5, <1>7, <2>1, <2>2, <3>1, <3>2, <3>3 DEF StreamInv, MessagesTrue, n
  <2>3. CASE ~Unfinished
    <3>1. ~Unfinished'
      BY <1>0, <1>4, <1>8, <2>3 DEF Unfinished, IsText, Finished, n
    <3> QED
      BY <1>4, <1>5, <1>7, <2>3, <3>1 DEF StreamInv, MessagesTrue, n
  <2> QED
    BY <2>2, <2>3
<1>13. CallsTaken'
  <2>1. CallsTaken
    BY DEF StreamInv
  <2>2. \A c \in DOMAIN taken'.calls : c \in DOMAIN model' /\ model'[c].kind = "call"
    <3> SUFFICES ASSUME NEW c \in DOMAIN taken'.calls PROVE c \in DOMAIN model /\ model[c].kind = "call"
      BY <1>4, <1>8
    <3>1. CASE c = b
      BY <1>1, <3>1
    <3>2. CASE c # b
      BY <1>5, <2>1, <3>2 DEF CallsTaken
    <3> QED
      BY <3>1, <3>2
  <2>3. ASSUME protocol # "responses", NEW c \in DOMAIN model', model'[c].kind = "call"
        PROVE  IF c \in DOMAIN taken'.calls THEN taken'.calls[c] = PiecesOf(c, model'[c].pieces)
               ELSE protocol # "anthropic" /\ model'[c].pieces = 0 /\ ~model'[c].done
    <3>1. c \in DOMAIN model /\ model[c].kind = "call"
      BY <1>4, <1>8, <2>3
    <3>2. IF c \in DOMAIN taken.calls THEN taken.calls[c] = PiecesOf(c, model[c].pieces)
          ELSE protocol # "anthropic" /\ model[c].pieces = 0 /\ ~model[c].done
      BY <2>1, <2>3, <3>1 DEF CallsTaken, Finished
    <3>3. CASE c = b
      <4>1. (IF b \in DOMAIN taken.calls THEN taken.calls[b] ELSE <<>>) = PiecesOf(b, p)
        <5>1. PiecesOf(b, 0) = <<>>
          BY DEF PiecesOf
        <5> QED
          BY <3>2, <3>3, <5>1 DEF p
      <4>2. PiecesOf(b, p + 1) = PiecesOf(b, p) \o <<Piece(b)>>
        <5>1. Piece(b) = <<b, p + 1>>
          BY DEF Piece, p
        <5> QED
          BY <1>0, <5>1, PiecesOfMore
      <4> QED
        BY <1>3, <1>4, <1>5, <2>3, <3>3, <4>1, <4>2
    <3>4. CASE c # b
      BY <1>4, <1>5, <2>3, <3>1, <3>2, <3>4
    <3> QED
      BY <3>3, <3>4
  <2> QED
    BY <1>1, <2>2, <2>3 DEF CallsTaken, Finished
<1> QED
  BY <1>9, <1>10, <1>11, <1>12, <1>13 DEF StreamInv

\* In a stream in order a whole message adds just what its deltas did not bring.
LEMMA RestOfLast ==
  ASSUME StreamInv, protocol = "codex", flaw # "disorder", NEW b \in DOMAIN model, IsText(b), ~Finished(b)
  PROVE  /\ b = Len(model) /\ Unfinished /\ FlattenSeq(taken.messages) = UpTo(model, Len(model) - 1) \o Had
         /\ b \notin Range(taken.items) => Had = <<>>
         /\ b \in Range(taken.items) => Had \o rest_of(b) = Pieces(b)
<1> DEFINE n == Len(model)
           p == model[b].pieces
<1>0. StreamTyped /\ n \in Nat /\ DOMAIN model = 1 .. n /\ b \in Nat \ {0} /\ p \in Nat
      /\ (model = <<>> <=> n = 0)
  <2>1. StreamTyped
    BY DEF StreamInv
  <2> QED
    BY <2>1, Shape DEF StreamTyped
<1>1. b = n
  BY DEF StreamInv, OneByOne
<1>2. Unfinished
  BY <1>0, <1>1 DEF Unfinished
<1>3. /\ Len(Had) <= p /\ Had = PiecesOf(b, Len(Had))
      /\ FlattenSeq(taken.messages) = UpTo(model, n - 1) \o Had
  BY <1>1, <1>2 DEF StreamInv, MessagesTrue
<1>4. /\ Len(taken.items) = Len(taken.messages)
      /\ \A i \in DOMAIN taken.items : i # Len(taken.items) => taken.items[i] # b
  BY <1>1 DEF StreamInv, ItemsTrue
<1>5. /\ Len(taken.items) \in Nat /\ DOMAIN taken.items = 1 .. Len(taken.items)
      /\ (taken.items = <<>> <=> Len(taken.items) = 0)
  BY <1>0, Shape
<1>6. ASSUME b \notin Range(taken.items) PROVE Had = <<>>
  <2>1. taken.items # <<>> => Last(taken.items) # b
    BY <1>5, <1>6 DEF Last, Range
  <2> QED
    BY <1>1, <2>1 DEF Had
<1>7. ASSUME b \in Range(taken.items) PROVE Had \o rest_of(b) = Pieces(b)
  <2> DEFINE First(i) == taken.items[i] = b /\ \A j \in 1 .. (i - 1) : taken.items[j] # b
             at == CHOOSE i \in DOMAIN taken.items : First(i)
             k == Len(Had)
  <2>1. PICK i \in DOMAIN taken.items : taken.items[i] = b
    BY <1>7 DEF Range
  <2>2. i = Len(taken.items) /\ First(i)
    BY <1>4, <1>5, <2>1
  <2>3. at \in DOMAIN taken.items /\ First(at)
    BY <2>2
  <2>4. at = Len(taken.items)
    BY <1>4, <2>3
  <2>5. taken.messages[at] = Had
    <3>1. taken.items # <<>> /\ Last(taken.items) = b
      BY <1>5, <2>1, <2>2 DEF Last
    <3>2. Had = taken.messages[Len(taken.messages)]
      BY <1>1, <3>1 DEF Had, Last
    <3> QED
      BY <1>4, <2>4, <3>2
  <2>6. rest_of(b) = IF IsPrefix(Had, Pieces(b)) THEN SubSeq(Pieces(b), k + 1, p) ELSE <<>>
    BY <2>5 DEF rest_of
  <2>7. k \in 0 .. p
    BY <1>0, <1>3, HadTyped
  <2> HIDE DEF at, k, p
  <2>8. /\ IsPrefix(PiecesOf(b, k), PiecesOf(b, p))
        /\ PiecesOf(b, k) \o SubSeq(PiecesOf(b, p), k + 1, p) = PiecesOf(b, p)
    BY <1>0, <2>7, RestIs
  <2>9. Pieces(b) = PiecesOf(b, p) /\ Had = PiecesOf(b, k)
    BY <1>3, PiecesIs DEF p, k
  <2> QED
    BY <2>6, <2>8, <2>9
<1> QED
  BY <1>1, <1>2, <1>3, <1>6, <1>7

LEMMA CompletedKeeps == ASSUME StreamInv, NEW b \in DOMAIN model, completed(b) PROVE StreamInv'
<1> DEFINE n == Len(model)
           p == model[b].pieces
           x == [kind |-> model[b].kind, pieces |-> p, done |-> TRUE, lost |-> model[b].lost]
<1>0. StreamTyped /\ n \in Nat /\ DOMAIN model = 1 .. n /\ b \in Nat \ {0} /\ p \in Nat
      /\ model[b] \in Block /\ model \in Seq(Block) /\ (model = <<>> <=> n = 0)
  <2>1. StreamTyped
    BY DEF StreamInv
  <2> QED
    BY <2>1, Shape DEF StreamTyped
<1>1. /\ protocol # "none" /\ outcome = "none" /\ outcome' = outcome /\ protocol' = protocol /\ live' = live
      /\ ~Finished(b) /\ flaw' = flaw /\ (model[b].kind = "call" /\ protocol # "anthropic" => p > 0)
  BY DEF completed, Running
<1>2. model' = [model EXCEPT ![b] = x]
  BY <1>0, DoneIs DEF completed
<1>3. x \in Block /\ x.kind = model[b].kind /\ x.pieces = p /\ x.done
  BY <1>0 DEF Block
<1> HIDE DEF x, n, p
<1>4. /\ model' \in Seq(Block) /\ Len(model') = n /\ DOMAIN model' = DOMAIN model /\ model'[b] = x
      /\ \A c \in DOMAIN model : c # b => model'[c] = model[c]
  BY <1>0, <1>2, <1>3, BlockChanged DEF n
<1>5. \A c \in DOMAIN model : model'[c].kind = model[c].kind /\ model'[c].pieces = model[c].pieces
                              /\ (model[c].done => model'[c].done)
  BY <1>3, <1>4 DEF p
<1>6. \A c \in DOMAIN model : SaidBy(c, model'[c]) = SaidBy(c, model[c])
  BY <1>5 DEF SaidBy
<1>7. UpTo(model', n) = UpTo(model, n) /\ (model # <<>> => UpTo(model', n - 1) = UpTo(model, n - 1))
  BY <1>0, <1>4, <1>6, TextSame DEF n
<1> DEFINE told == protocol = "codex" /\ IsText(b)
           text == IF b \notin Range(taken.items) THEN Pieces(b) ELSE rest_of(b)
<1>8. Pieces(b) = PiecesOf(b, p) /\ Pieces(b) \in Seq(Token)
  BY <1>0, PiecesIs, PiecesOfSeq DEF p
<1>9. told => text \in Seq(Token)
  BY <1>0, <1>8, RestTyped DEF StreamInv, ItemsTrue
<1>10. (taken' = taken /\ streamed' = streamed /\ (told => text = <<>> /\ b \in Range(taken.items))) \/ (told /\ piece(b, text))
  BY DEF completed
<1> HIDE DEF text
<1>11. told => Len(taken.items) = Len(taken.messages)
  BY DEF StreamInv, ItemsTrue
<1>12. CASE taken' = taken /\ streamed' = streamed /\ (told => text = <<>> /\ b \in Range(taken.items))
  <2>1. StreamTyped' /\ Fresh' /\ ItemsTrue'
    BY <1>0, <1>1, <1>4, <1>12 DEF StreamInv, StreamTyped, Fresh, ItemsTrue, n
  <2>2. OneByOne' /\ EndsWhole'
    BY <1>1, <1>4, <1>5, <1>12 DEF StreamInv, OneByOne, EndsWhole, Uncut, Announced, Finished, n
  <2>3. Heard' /\ TextTaken'
    BY <1>1, <1>4, <1>7, <1>12 DEF StreamInv, Heard, TextTaken, n
  <2>4. MessagesTrue'
    <3> SUFFICES ASSUME protocol = "codex", flaw # "disorder" PROVE MessagesTrue'
      BY <1>1 DEF MessagesTrue
    <3>1. b = n
      BY <1>1 DEF StreamInv, OneByOne, n
    <3>2. ~Unfinished'
      BY <1>3, <1>4, <3>1 DEF Unfinished, Finished
    <3>3. FlattenSeq(taken.messages) = UpTo(model, n)
      <4>1. CASE ~IsText(b)
        BY <3>1, <4>1 DEF StreamInv, MessagesTrue, Unfinished, n
      <4>2. CASE IsText(b)
        <5>1. Had \o <<>> = Pieces(b) /\ FlattenSeq(taken.messages) = UpTo(model, n - 1) \o Had
          BY <1>1, <1>12, <4>2, RestOfLast DEF text, n
        <5>2. Had \o <<>> = Had
          BY HadTyped, ConcatEmptySeq
        <5>3. UpTo(model, n) = UpTo(model, n - 1) \o Pieces(b)
          BY <1>0, <1>8, <3>1, <4>2, UpToLast DEF IsText, n, p
        <5> QED
          BY <5>1, <5>2, <5>3
      <4> QED
        BY <4>1, <4>2
    <3> QED
      BY <1>4, <1>7, <1>12, <3>2, <3>3 DEF MessagesTrue
  <2>5. CallsTaken'
    <3>1. CallsTaken
      BY DEF StreamInv
    <3>2. \A c \in DOMAIN taken'.calls : c \in DOMAIN model' /\ model'[c].kind = "call"
      BY <1>4, <1>5, <1>12, <3>1 DEF CallsTaken
    <3>3. ASSUME protocol # "responses", NEW c \in DOMAIN model', model'[c].kind = "call"
          PROVE  IF c \in DOMAIN taken'.calls THEN taken'.calls[c] = PiecesOf(c, model'[c].pieces)
                 ELSE protocol # "anthropic" /\ model'[c].pieces = 0 /\ ~model'[c].done
      <4>1. c \in DOMAIN model /\ model[c].kind = "call" /\ model'[c].pieces = model[c].pieces
        BY <1>4, <1>5, <3>3
      <4>2. IF c \in DOMAIN taken.calls THEN taken.calls[c] = PiecesOf(c, model[c].pieces)
            ELSE protocol # "anthropic" /\ model[c].pieces = 0 /\ ~model[c].done
        BY <3>1, <3>3, <4>1 DEF CallsTaken, Finished
      <4>3. c \notin DOMAIN taken.calls => c # b
        BY <1>0, <1>1, <4>1, <4>2 DEF p
      <4> QED
        BY <1>4, <1>12, <4>1, <4>2, <4>3
    <3> QED
      BY <1>1, <3>2, <3>3 DEF CallsTaken, Finished
  <2> QED
    BY <2>1, <2>2, <2>3, <2>4, <2>5 DEF StreamInv
<1>13. CASE told /\ piece(b, text)
  <2>1. PieceTaken(b, text)
    BY <1>0, <1>9, <1>11, <1>13, PieceIs
  <2>2. flaw # "disorder" => b = n
    BY <1>1, <1>13 DEF StreamInv, OneByOne, n
  <2>3. StreamTyped' /\ Fresh' /\ TextTaken'
    BY <1>0, <1>1, <1>4, <1>13, <2>1 DEF StreamTyped, Fresh, TextTaken, PieceTaken
  <2>4. OneByOne' /\ EndsWhole'
    BY <1>1, <1>4, <1>5, <2>1 DEF StreamInv, OneByOne, EndsWhole, Uncut, Announced, Finished, PieceTaken, n
  <2>5. Heard'
    BY <1>1, <1>13, <2>1 DEF StreamInv, Heard, PieceTaken
  <2>6. ItemsTrue'
    BY <1>1, <1>4, <1>13, <2>1, <2>2, ItemsKept DEF n
  <2>7. CallsTaken'
    <3>1. \A c \in DOMAIN model : model'[c].kind = model[c].kind /\ (model[c].kind = "call" => model'[c] = model[c])
      BY <1>4, <1>5, <1>13 DEF IsText
    <3> QED
      BY <1>1, <1>4, <2>1, <3>1, CallsSame DEF PieceTaken, n
  <2>8. MessagesTrue'
    <3> SUFFICES ASSUME flaw # "disorder" PROVE MessagesTrue'
      BY <1>1 DEF MessagesTrue
    <3> DEFINE u == UpTo(model, n - 1)
    <3>1. b = n
      BY <2>2
    <3>2. ~Unfinished'
      BY <1>3, <1>4, <3>1 DEF Unfinished, Finished
    <3>3. FlattenSeq(taken.messages) = u \o Had /\ Had \o text = Pieces(b)
      <4>1. /\ FlattenSeq(taken.messages) = u \o Had
            /\ b \notin Range(taken.items) => Had = <<>>
            /\ b \in Range(taken.items) => Had \o rest_of(b) = Pieces(b)
        BY <1>1, <1>13, RestOfLast DEF n
      <4>2. <<>> \o Pieces(b) = Pieces(b)
        BY <1>8, ConcatEmptySeq
      <4> QED
        BY <4>1, <4>2 DEF text
    <3>4. FlattenSeq(taken'.messages) = FlattenSeq(taken.messages) \o text
      BY <2>1 DEF PieceTaken
    <3>5. u \in Seq(Token) /\ UpTo(model, n) = u \o Pieces(b)
      BY <1>0, <1>8, <1>13, <3>1, UpToLast DEF IsText, n, p
    <3>6. (u \o Had) \o text = u \o (Had \o text)
      <4>1. u \in Seq(Token) /\ Had \in Seq(Token) /\ text \in Seq(Token)
        BY <1>9, <1>13, <3>5, HadTyped
      <4> HIDE DEF u
      <4> QED
        BY ONLY <4>1, ConcatAssociative
    <3>7. FlattenSeq(taken'.messages) = UpTo(model', n)
      BY <1>7, <3>3, <3>4, <3>5, <3>6
    <3> QED
      BY <1>4, <3>2, <3>7 DEF MessagesTrue
  <2> QED
    BY <2>3, <2>4, <2>5, <2>6, <2>7, <2>8 DEF StreamInv
<1> QED
  BY <1>10, <1>12, <1>13

\* Nothing of the text or the calls changes.
LEMMA RestKept ==
  ASSUME StreamInv, Running, UNCHANGED <<protocol, live, model, streamed>>, EndsWhole',
         taken' \in Takings,
         taken'.messages = taken.messages, taken'.items = taken.items, taken'.calls = taken.calls,
         protocol = "codex" /\ flaw' # "disorder" => flaw # "disorder"
  PROVE  StreamInv'
<1>1. StreamTyped' /\ Fresh'
  BY DEF StreamInv, StreamTyped, Running, Fresh
<1>2. OneByOne' /\ Heard' /\ TextTaken'
  BY DEF StreamInv, OneByOne, Heard, TextTaken, Finished
<1>3. ItemsTrue' /\ CallsTaken'
  BY DEF StreamInv, ItemsTrue, CallsTaken, Finished
<1>4. Had' = Had /\ Unfinished' = Unfinished
  BY DEF Had, Unfinished, IsText, Finished
<1>5. MessagesTrue'
  BY <1>4 DEF StreamInv, MessagesTrue
<1> QED
  BY <1>1, <1>2, <1>3, <1>5 DEF StreamInv

LEMMA FlagsSet ==
  ASSUME NEW M, NEW I, NEW C, NEW x \in [messages : M, items : I, calls : C, usage : BOOLEAN, stopping : BOOLEAN],
         NEW u \in BOOLEAN, NEW v \in BOOLEAN
  PROVE  /\ [x EXCEPT !.usage = u, !.stopping = v] =
              [messages |-> x.messages, items |-> x.items, calls |-> x.calls, usage |-> u, stopping |-> v]
         /\ [x EXCEPT !.stopping = v] =
              [messages |-> x.messages, items |-> x.items, calls |-> x.calls, usage |-> x.usage, stopping |-> v]
<1>1. [x EXCEPT !.stopping = v] =
        [messages |-> x.messages, items |-> x.items, calls |-> x.calls, usage |-> x.usage, stopping |-> v]
  OBVIOUS
<1>2. [x EXCEPT !.usage = u] =
        [messages |-> x.messages, items |-> x.items, calls |-> x.calls, usage |-> u, stopping |-> x.stopping]
  OBVIOUS
<1>3. [[messages |-> x.messages, items |-> x.items, calls |-> x.calls, usage |-> u, stopping |-> x.stopping]
         EXCEPT !.stopping = v] =
        [messages |-> x.messages, items |-> x.items, calls |-> x.calls, usage |-> u, stopping |-> v]
  OBVIOUS
<1> QED
  BY <1>1, <1>2, <1>3

LEMMA UsageKeeps == ASSUME StreamInv, usage PROVE StreamInv'
<1> DEFINE v == taken.calls # <<>>
<1>1. /\ Running /\ UNCHANGED <<protocol, live, model, streamed, outcome, flaw>> /\ \A b \in DOMAIN model : Finished(b)
      /\ taken' = [taken EXCEPT !.usage = TRUE, !.stopping = v]
  BY DEF usage
<1>2. StreamTyped /\ v \in BOOLEAN /\ TRUE \in BOOLEAN
  BY DEF StreamInv
<1> HIDE DEF v
<1>3. taken' = [messages |-> taken.messages, items |-> taken.items, calls |-> taken.calls, usage |-> TRUE, stopping |-> v]
  BY <1>1, <1>2, FlagsSet DEF StreamTyped
<1>4. /\ taken' \in Takings
      /\ taken'.messages = taken.messages /\ taken'.items = taken.items /\ taken'.calls = taken.calls
  BY <1>2, <1>3 DEF StreamTyped
<1>5. EndsWhole'
  BY <1>1 DEF EndsWhole, Uncut, Announced, Finished
<1> QED
  BY <1>1, <1>4, <1>5, RestKept

LEMMA StopKeeps == ASSUME StreamInv, stop PROVE StreamInv'
<1> DEFINE v == TRUE
<1>1. /\ Running /\ UNCHANGED <<protocol, live, model, streamed, outcome>>
      /\ flaw' = IF flaw = "none" /\ \E b \in DOMAIN model : ~Finished(b) THEN "cut" ELSE flaw
      /\ protocol = "codex"
      /\ taken' = [taken EXCEPT !.stopping = v]
  BY DEF stop
<1>2. StreamTyped /\ v \in BOOLEAN
  BY DEF StreamInv
<1> HIDE DEF v
<1>3. taken' = [messages |-> taken.messages, items |-> taken.items, calls |-> taken.calls, usage |-> taken.usage,
                stopping |-> v]
  BY <1>1, <1>2, FlagsSet DEF StreamTyped
<1>4. /\ taken' \in Takings
      /\ taken'.messages = taken.messages /\ taken'.items = taken.items /\ taken'.calls = taken.calls
  BY <1>2, <1>3 DEF StreamTyped
<1>5. EndsWhole'
  BY <1>1 DEF EndsWhole, Uncut, Announced, Finished
<1> QED
  BY <1>1, <1>4, <1>5, RestKept

\* What was not finished is given up: nothing more comes of it.
LEMMA RetriesKeep == ASSUME StreamInv, retries PROVE StreamInv'
<1> DEFINE n == Len(model)
           kind(b) == IF model[b].kind = "call" /\ b \notin DOMAIN taken.calls THEN "thought" ELSE model[b].kind
           x(b) == [kind |-> kind(b), pieces |-> model[b].pieces, done |-> TRUE, lost |-> model[b].lost]
<1>0. StreamTyped /\ n \in Nat /\ DOMAIN model = 1 .. n /\ model \in Seq(Block) /\ (model = <<>> <=> n = 0)
      /\ \A b \in DOMAIN model : b \in Nat \ {0} /\ model[b] \in Block
  <2>1. StreamTyped
    BY DEF StreamInv
  <2> QED
    BY <2>1, Shape DEF StreamTyped
<1>1. /\ protocol = "codex" /\ outcome = "none" /\ UNCHANGED <<protocol, live, taken, streamed, outcome>>
      /\ flaw' = IF \E b \in DOMAIN model : ~Finished(b) /\ model[b].lost THEN "disorder" ELSE flaw
      /\ model' = [b \in DOMAIN model |-> IF Finished(b) THEN model[b] ELSE GivenUp(b)]
  BY DEF retries, Running
<1>2. ASSUME NEW b \in DOMAIN model PROVE GivenUp(b) = x(b) /\ x(b) \in Block
  <2>1. PICK old \in Block : old = model[b]
    BY <1>0
  <2>2. PICK k \in {"text", "call", "thought"} : k = kind(b)
    BY <2>1 DEF Block
  <2>3. GivenUp(b) = [old EXCEPT !.done = TRUE, !.kind = k]
    BY <2>1, <2>2 DEF GivenUp
  <2>4. [old EXCEPT !.done = TRUE, !.kind = k] = [kind |-> k, pieces |-> old.pieces, done |-> TRUE, lost |-> old.lost]
    <3> DEFINE set == [old EXCEPT !.done = TRUE]
    <3>1. set = [kind |-> old.kind, pieces |-> old.pieces, done |-> TRUE, lost |-> old.lost]
      BY FieldSet
    <3>2. /\ set \in Block /\ [old EXCEPT !.done = TRUE, !.kind = k] = [set EXCEPT !.kind = k]
          /\ set.pieces = old.pieces /\ set.done /\ set.lost = old.lost
      BY <3>1 DEF Block
    <3> HIDE DEF set
    <3>3. [set EXCEPT !.kind = k] = [kind |-> k, pieces |-> set.pieces, done |-> set.done, lost |-> set.lost]
      BY <3>2, KindSet
    <3> QED
      BY <3>2, <3>3
  <2>5. [kind |-> k, pieces |-> old.pieces, done |-> TRUE, lost |-> old.lost] \in Block
    BY DEF Block
  <2> QED
    BY <2>1, <2>2, <2>3, <2>4, <2>5
<1>3. ASSUME NEW b \in DOMAIN model
      PROVE  /\ model'[b] \in Block /\ model'[b].done /\ model'[b].pieces = model[b].pieces
             /\ model'[b].kind = IF Finished(b) THEN model[b].kind ELSE kind(b)
  <2>1. CASE Finished(b)
    BY <1>0, <1>1, <2>1 DEF Finished
  <2>2. CASE ~Finished(b)
    <3>1. model'[b] = x(b)
      BY <1>1, <1>2, <2>2
    <3> QED
      BY <1>2, <2>2, <3>1
  <2> QED
    BY <2>1, <2>2
<1> HIDE DEF n, x
<1>4. model' \in Seq(Block) /\ Len(model') = n /\ DOMAIN model' = DOMAIN model
  <2>1. model' = [b \in 1 .. n |-> model'[b]]
    BY <1>0, <1>1
  <2>2. model' \in [1 .. n -> Block]
    BY <1>0, <1>3, <2>1
  <2>3. model' \in Seq(Block)
    BY <1>0, <2>2, SeqDef
  <2> QED
    BY <1>0, <2>2, <2>3, LenProperties
<1>5. \A b \in DOMAIN model : SaidBy(b, model'[b]) = SaidBy(b, model[b])
  <2>1. \A b \in DOMAIN model : model'[b].kind = "text" <=> model[b].kind = "text"
    BY <1>3
  <2> QED
    BY <1>3, <2>1 DEF SaidBy
<1>6. UpTo(model', n) = UpTo(model, n)
  BY <1>0, <1>4, <1>5, TextSame DEF n
<1>7. StreamTyped' /\ Fresh' /\ TextTaken'
  BY <1>0, <1>1, <1>4 DEF StreamTyped, Fresh, TextTaken
<1>8. OneByOne' /\ EndsWhole'
  BY <1>3, <1>4 DEF OneByOne, EndsWhole, Finished
<1>9. Heard'
  BY <1>1 DEF StreamInv, Heard
<1>10. ItemsTrue'
  BY <1>1, <1>4 DEF StreamInv, ItemsTrue, n
<1>11. MessagesTrue'
  <2> SUFFICES ASSUME flaw' # "disorder" PROVE MessagesTrue'
    BY DEF MessagesTrue
  <2>1. flaw # "disorder" /\ \A b \in DOMAIN model : ~Finished(b) => ~model[b].lost
    BY <1>1
  <2>2. ~Unfinished'
    <3>1. n # 0 => n \in DOMAIN model
      BY <1>0
    <3>2. model' # <<>> => n # 0
      BY <1>0, <1>4, EmptySeq
    <3> QED
      BY <1>3, <1>4, <3>1, <3>2 DEF Unfinished, Finished
  <2>3. FlattenSeq(taken.messages) = UpTo(model, n)
    <3>1. CASE ~Unfinished
      BY <1>1, <2>1, <3>1 DEF StreamInv, MessagesTrue, n
    <3>2. CASE Unfinished
      <4>1. n \in DOMAIN model /\ n \in Nat \ {0} /\ model[n].kind = "text" /\ ~model[n].lost
        BY <1>0, <2>1, <3>2 DEF Unfinished, IsText, n
      <4>2. /\ Had = PiecesOf(n, model[n].pieces)
            /\ FlattenSeq(taken.messages) = UpTo(model, n - 1) \o Had
        BY <1>1, <2>1, <3>2, <4>1 DEF StreamInv, MessagesTrue, n
      <4>3. UpTo(model, n) = UpTo(model, n - 1) \o PiecesOf(n, model[n].pieces)
        BY <1>0, <4>1, UpToLast DEF n
      <4> QED
        BY <4>2, <4>3
    <3> QED
      BY <3>1, <3>2
  <2> QED
    BY <1>1, <1>4, <1>6, <2>2, <2>3 DEF MessagesTrue
<1>12. CallsTaken'
  <2>1. CallsTaken
    BY DEF StreamInv
  <2>2. ASSUME NEW b \in DOMAIN taken.calls PROVE b \in DOMAIN model /\ model'[b].kind = "call"
    BY <1>3, <2>1 DEF CallsTaken
  <2>3. ASSUME NEW b \in DOMAIN model, model'[b].kind = "call"
        PROVE  b \in DOMAIN taken.calls /\ taken.calls[b] = PiecesOf(b, model'[b].pieces)
    <3>1. model[b].kind = "call" /\ model'[b].pieces = model[b].pieces
      BY <1>3, <2>3
    <3>2. IF b \in DOMAIN taken.calls THEN taken.calls[b] = PiecesOf(b, model[b].pieces)
          ELSE protocol # "anthropic" /\ model[b].pieces = 0 /\ ~Finished(b)
      BY <1>1, <2>1, <3>1 DEF CallsTaken
    <3>3. b \notin DOMAIN taken.calls => FALSE
      BY <1>3, <2>3, <3>1, <3>2
    <3> QED
      BY <3>1, <3>2, <3>3
  <2> QED
    BY <1>1, <1>4, <2>2, <2>3 DEF CallsTaken
<1> QED
  BY <1>7, <1>8, <1>9, <1>10, <1>11, <1>12 DEF StreamInv

LEMMA EndKeeps == ASSUME StreamInv, turn_ends \/ fails \/ reports_error \/ cut PROVE StreamInv'
<1>1. /\ Running /\ UNCHANGED <<protocol, live, model, taken, streamed>>
      /\ (flaw' = flaw) \/ (flaw' = "cut" /\ ~Announced)
      /\ outcome' = "answer" => \/ (\A b \in DOMAIN model : Finished(b)) \/ taken.stopping
                               \/ (flaw' = "cut" /\ ~Announced)
  BY DEF turn_ends, fails, reports_error, cut, Ends, Announced
<1>2. EndsWhole'
  BY <1>1 DEF StreamInv, EndsWhole, Uncut, Announced, Finished
<1>3. protocol = "codex" /\ flaw' # "disorder" => flaw # "disorder"
  BY <1>1 DEF Announced
<1>4. taken' \in Takings
  BY <1>1 DEF StreamInv, StreamTyped
<1> QED
  BY <1>1, <1>2, <1>3, <1>4, RestKept

\* A stream that has not begun.
LEMMA EmptyIs ==
  FlattenSeq(<<>>) = <<>> /\ Joined(<<>>) = <<>> /\ UpTo(<<>>, 0) = <<>> /\ Len(<<>>) = 0 /\ DOMAIN <<>> = {}
<1>1. [i \in 1 .. 0 |-> SaidBy(i, <<>>[i])] = <<>>
  OBVIOUS
<1> QED
  BY <1>1, FlattenEmpty, JoinedEmpty DEF UpTo

LEMMA NothingTyped ==
  /\ Nothing \in Takings
  /\ Nothing.messages = <<>> /\ Nothing.items = <<>> /\ Nothing.calls = <<>> /\ ~Nothing.stopping
<1>1. <<>> \in [{} -> Seq(Token)] /\ {} \in SUBSET Nat
  OBVIOUS
<1>2. <<>> \in CallTexts
  BY <1>1 DEF CallTexts
<1> QED
  BY <1>2 DEF Nothing

LEMMA EmptyHolds == ASSUME model = <<>>, taken = Nothing, streamed = <<>>, live \in BOOLEAN PROVE StreamInv
<1>1. StreamTyped /\ Fresh
  BY NothingTyped DEF StreamTyped, Fresh
<1>2. OneByOne /\ EndsWhole
  BY EmptyIs DEF OneByOne, EndsWhole, Uncut, Announced
<1>3. Heard /\ TextTaken
  BY EmptyIs, NothingTyped DEF Heard, TextTaken
<1>4. ItemsTrue /\ CallsTaken
  BY EmptyIs, NothingTyped DEF ItemsTrue, CallsTaken
<1>5. MessagesTrue
  BY EmptyIs, NothingTyped DEF MessagesTrue, Unfinished
<1> QED
  BY <1>1, <1>2, <1>3, <1>4, <1>5 DEF StreamInv

LEMMA SendKeeps == ASSUME StreamInv, NEW backend, send_to(backend) PROVE StreamInv'
<1>1. model' = <<>> /\ taken' = Nothing /\ streamed' = <<>> /\ live' \in BOOLEAN
  BY DEF StreamInv, Fresh, send_to
<1>2. StreamTyped' /\ Fresh'
  BY <1>1, NothingTyped DEF StreamTyped, Fresh
<1>3. OneByOne' /\ EndsWhole'
  BY <1>1, EmptyIs DEF OneByOne, EndsWhole, Uncut, Announced
<1>4. Heard' /\ TextTaken'
  BY <1>1, EmptyIs, NothingTyped DEF Heard, TextTaken
<1>5. ItemsTrue' /\ CallsTaken'
  BY <1>1, EmptyIs, NothingTyped DEF ItemsTrue, CallsTaken
<1>6. MessagesTrue'
  BY <1>1, EmptyIs, NothingTyped DEF MessagesTrue, Unfinished
<1> QED
  BY <1>2, <1>3, <1>4, <1>5, <1>6 DEF StreamInv

LEMMA StreamSame == ASSUME StreamInv, UNCHANGED streamVars PROVE StreamInv'
<1>1. StreamTyped' /\ Fresh' /\ OneByOne' /\ Heard' /\ TextTaken' /\ ItemsTrue' /\ CallsTaken' /\ EndsWhole'
  BY DEF StreamInv, streamVars, StreamTyped, Fresh, OneByOne, Heard, TextTaken, ItemsTrue, CallsTaken, EndsWhole, Uncut, Announced, Finished
<1>2. Had' = Had /\ Unfinished' = Unfinished
  BY DEF streamVars, Had, Unfinished, IsText, Finished
<1>3. MessagesTrue'
  BY <1>2 DEF streamVars, StreamInv, MessagesTrue
<1> QED
  BY <1>1, <1>3 DEF StreamInv

LEMMA StreamKeeps == StreamInv /\ [BackendNext]_backendVars => StreamInv'
<1> SUFFICES ASSUME StreamInv, [BackendNext]_backendVars PROVE StreamInv'
  OBVIOUS
<1>1. CASE Streaming
  <2>1. CASE \E kind \in {"text", "call", "thought"} : begins(kind)
    BY <2>1, BeginsKeeps
  <2>2. CASE \E b \in DOMAIN model : text_piece(b) \/ lost_piece(b) \/ call_piece(b) \/ completed(b)
    BY <2>2, TextPieceKeeps, LostPieceKeeps, CallPieceKeeps, CompletedKeeps
  <2>3. CASE usage \/ stop \/ retries \/ turn_ends \/ fails \/ reports_error \/ cut
    BY <2>3, UsageKeeps, StopKeeps, RetriesKeep, EndKeeps
  <2> QED
    BY <1>1, <2>1, <2>2, <2>3 DEF Streaming
<1>2. CASE \E backend \in Protocols : send_to(backend)
  BY <1>2, SendKeeps
<1>3. CASE Asked \/ UNCHANGED backendVars
  <2>1. UNCHANGED streamVars
    BY <1>3 DEF Asked, backendVars, streamVars
  <2> QED
    BY <2>1, StreamSame
<1> QED
  BY <1>1, <1>2, <1>3 DEF BackendNext, Answered

LEMMA StreamAlways == BackendSpec => []StreamInv
<1>1. BackendInit => StreamInv
  BY EmptyHolds DEF BackendInit
<1> QED
  BY <1>1, StreamKeeps, PTL DEF BackendSpec

LEMMA WholeIs == ASSUME StreamTyped PROVE Whole_text = UpTo(model, Len(model)) /\ Whole_text \in Seq(Token)
<1>1. DOMAIN model = 1 .. Len(model) /\ model \in Seq(Block)
  BY Shape DEF StreamTyped
<1>2. Whole_text = UpTo(model, Len(model))
  BY <1>1 DEF Whole_text, UpTo, SaidBy, IsText, Pieces, PiecesOf
<1> QED
  BY <1>1, <1>2, UpToSeq

LEMMA OutputIs ==
  ASSUME StreamInv
  PROVE  output_text = IF protocol = "codex" THEN Joined(taken.messages) ELSE Whole_text
<1>1. StreamTyped /\ TextTaken
  BY DEF StreamInv
<1>2. CASE protocol = "codex"
  BY <1>2 DEF output_text, Joined, MessageAt
<1>3. CASE protocol \in {"responses", "exec"}
  BY <1>3 DEF output_text
<1>4. CASE protocol \notin {"codex", "responses", "exec"}
  BY <1>1, <1>4, WholeIs DEF output_text, TextTaken
<1> QED
  BY <1>2, <1>3, <1>4

\* What was streamed is the text of the answer, whichever backend answers and whatever goes wrong in its stream
\* (consumer.py:133, codex.py:532).
THEOREM StreamedTrue == BackendSpec => []StreamedIsAnswer
<1>1. StreamInv => StreamedIsAnswer
  <2> SUFFICES ASSUME StreamInv, streamed # <<>> PROVE streamed = output_text
    BY DEF StreamedIsAnswer
  <2>1. StreamTyped /\ Heard
    BY DEF StreamInv
  <2>2. streamed = IF protocol = "codex" THEN Joined(taken.messages) ELSE UpTo(model, Len(model))
    BY <2>1 DEF Heard, StreamTyped
  <2> QED
    BY <2>1, <2>2, OutputIs, WholeIs
<1> QED
  BY <1>1, StreamAlways, PTL

\* An answer is what the model said, each text once and in order and each call as it was made, whatever went wrong but
\* Codex messages out of order; it is whole unless its stream was cut, and never cut if the protocol has a last event
\* (codex.py:529-585, backends.py:221-252, 333-345, plugins.py:354-363).
THEOREM AnswersWhole == BackendSpec => []AnswerWhole
<1>1. StreamInv => AnswerWhole
  <2> SUFFICES ASSUME StreamInv, outcome = "answer"
               PROVE  /\ flaw # "disorder" /\ (\A b \in DOMAIN model : model[b].lost => Finished(b)) =>
                           Words(output_text) = Whole_text
                      /\ \A b \in DOMAIN output_calls : b \in DOMAIN Whole_calls /\ output_calls[b] = Whole_calls[b]
                      /\ \A b \in DOMAIN Whole_calls : Finished(b) => b \in DOMAIN output_calls
                      /\ Uncut => \A b \in DOMAIN model : Finished(b)
    BY DEF AnswerWhole, Uncut, Announced
  <2>1. StreamTyped /\ CallsTaken
    BY DEF StreamInv
  <2>2. Uncut => \A b \in DOMAIN model : Finished(b)
    BY DEF StreamInv, EndsWhole
  <2>3. Blank \notin Token
    BY DEF Blank, Token
  <2>4. ASSUME flaw # "disorder", \A b \in DOMAIN model : model[b].lost => Finished(b)
        PROVE  Words(output_text) = Whole_text
    <3>1. CASE protocol = "codex"
      <4>1. FlattenSeq(taken.messages) = UpTo(model, Len(model))
        <5>1. CASE ~Unfinished
          BY <2>4, <3>1, <5>1 DEF StreamInv, MessagesTrue
        <5>2. CASE Unfinished
          <6> DEFINE n == Len(model)
          <6>1. n \in DOMAIN model /\ n \in Nat \ {0} /\ model[n].kind = "text" /\ model \in Seq(Block)
            BY <2>1, <5>2, Shape DEF Unfinished, IsText, StreamTyped
          <6>2. ~model[n].lost
            BY <2>4, <5>2, <6>1 DEF Unfinished
          <6>3. /\ Had = PiecesOf(n, model[n].pieces)
                /\ FlattenSeq(taken.messages) = UpTo(model, n - 1) \o Had
            BY <2>4, <3>1, <5>2, <6>2 DEF StreamInv, MessagesTrue
          <6>4. UpTo(model, n) = UpTo(model, n - 1) \o PiecesOf(n, model[n].pieces)
            BY <6>1, UpToLast
          <6> QED
            BY <6>3, <6>4
        <5> QED
          BY <5>1, <5>2
      <4>2. Words(Joined(taken.messages)) = FlattenSeq(taken.messages)
        BY <2>1, <2>3, Shape, WordsJoined
      <4> QED
        BY <2>1, <3>1, <4>1, <4>2, OutputIs, WholeIs
    <3>2. CASE protocol # "codex"
      BY <2>1, <2>3, <3>2, OutputIs, WholeIs, WordsSame
    <3> QED
      BY <3>1, <3>2
  <2>5. DOMAIN Whole_calls = {b \in DOMAIN model : model[b].kind = "call"}
        /\ \A b \in DOMAIN Whole_calls : Whole_calls[b] = Pieces(b)
    BY DEF Whole_calls
  <2>6. ASSUME NEW b \in DOMAIN output_calls PROVE b \in DOMAIN Whole_calls /\ output_calls[b] = Whole_calls[b]
    <3>1. CASE protocol = "responses"
      BY <2>6, <3>1 DEF output_calls
    <3>2. CASE protocol # "responses"
      BY <2>1, <2>5, <2>6, <3>2, PiecesIs DEF CallsTaken, output_calls
    <3> QED
      BY <3>1, <3>2
  <2>7. ASSUME NEW b \in DOMAIN Whole_calls, Finished(b) PROVE b \in DOMAIN output_calls
    BY <2>1, <2>5, <2>7 DEF CallsTaken, output_calls
  <2> QED
    BY <2>2, <2>4, <2>6, <2>7
<1> QED
  BY <1>1, StreamAlways, PTL

-----------------------------------------------------------------------------
(* What each element of a sequence stands for, one after the other *)

Gives(f, S, T) == f \in [S -> Seq(T)]
Mapped(s, f) == FlattenSeq([i \in DOMAIN s |-> f[s[i]]])

LEMMA MappedEmpty == ASSUME NEW f PROVE Mapped(<<>>, f) = <<>>
<1>1. [i \in DOMAIN <<>> |-> f[<<>>[i]]] = <<>>
  OBVIOUS
<1> QED
  BY <1>1, FlattenEmpty DEF Mapped

LEMMA MappedAppend ==
  ASSUME NEW S, NEW T, NEW f, Gives(f, S, T), NEW s \in Seq(S), NEW e \in S
  PROVE  Mapped(s, f) \in Seq(T) /\ f[e] \in Seq(T) /\ Mapped(Append(s, e), f) = Mapped(s, f) \o f[e]
<1> DEFINE n == Len(s)
           a == Append(s, e)
           T2 == Seq(T)
           g == [i \in DOMAIN s |-> f[s[i]]]
           h == [i \in DOMAIN a |-> f[a[i]]]
<1>1. n \in Nat /\ DOMAIN s = 1 .. n /\ \A i \in 1 .. n : s[i] \in S
  BY LenProperties, ElementOfSeq
<1>2. DOMAIN a = 1 .. n + 1 /\ a[n + 1] = e /\ \A i \in 1 .. n : a[i] = s[i]
  BY AppendProperties, LenProperties
<1> HIDE DEF n, a
<1>3. \A i \in 1 .. n + 1 : a[i] \in S
  <2> SUFFICES ASSUME NEW i \in 1 .. n + 1 PROVE a[i] \in S
    OBVIOUS
  <2>1. i \in 1 .. n \/ i = n + 1
    BY <1>1
  <2> QED
    BY <1>1, <1>2, <2>1
<1>4. \A x \in S : f[x] \in T2
  BY DEF Gives
<1> HIDE DEF T2
<1>5. g \in [1 .. n -> T2] /\ h \in [1 .. n + 1 -> T2] /\ (\A i \in 1 .. n : h[i] = g[i]) /\ h[n + 1] = f[e]
  <2>1. g = [i \in 1 .. n |-> f[s[i]]] /\ h = [i \in 1 .. n + 1 |-> f[a[i]]]
    BY <1>1, <1>2
  <2> HIDE DEF g, h
  <2>2. g \in [1 .. n -> T2]
    BY <1>1, <1>4, <2>1
  <2>3. h \in [1 .. n + 1 -> T2]
    BY <1>3, <1>4, <2>1
  <2>4. ASSUME NEW i \in 1 .. n PROVE h[i] = g[i]
    <3>1. i \in 1 .. n + 1
      BY <1>1
    <3> QED
      BY <1>2, <2>1, <3>1
  <2>5. n + 1 \in 1 .. n + 1
    BY <1>1
  <2> QED
    BY <1>2, <2>1, <2>2, <2>3, <2>4, <2>5
<1> HIDE DEF g, h
<1>6. g \in Seq(T2) /\ h = Append(g, h[n + 1])
  BY <1>1, <1>5, OneLonger
<1>7. f[e] \in T2
  BY <1>4
<1>8. FlattenSeq(g) \in Seq(T) /\ FlattenSeq(h) = FlattenSeq(g) \o f[e]
  BY <1>5, <1>6, <1>7, FlattenSeqs, FlattenAppend DEF T2
<1>9. Mapped(s, f) = FlattenSeq(g) /\ Mapped(a, f) = FlattenSeq(h)
  BY DEF Mapped, g, h
<1> QED
  BY <1>7, <1>8, <1>9 DEF a, T2

LEMMA MappedSeq ==
  ASSUME NEW S, NEW T, NEW f, Gives(f, S, T), NEW s \in Seq(S)
  PROVE  Mapped(s, f) \in Seq(T)
<1> DEFINE Good == {r \in Seq(S) : Mapped(r, f) \in Seq(T)}
<1>1. <<>> \in Good
  BY EmptySeq, MappedEmpty
<1>2. ASSUME NEW r \in Seq(S), r \in Good, NEW e \in S PROVE Append(r, e) \in Good
  <2>1. Append(r, e) \in Seq(S) /\ Mapped(r, f) \o f[e] \in Seq(T)
    BY AppendProperties, MappedAppend, ConcatProperties
  <2> QED
    BY <2>1, MappedAppend
<1> HIDE DEF Good
<1>3. s \in Good
  BY <1>1, <1>2, SeqInduction
<1> QED
  BY <1>3 DEF Good

LEMMA MappedConcat ==
  ASSUME NEW S, NEW T, NEW f, Gives(f, S, T), NEW s \in Seq(S), NEW t \in Seq(S)
  PROVE  Mapped(s \o t, f) = Mapped(s, f) \o Mapped(t, f)
<1> DEFINE Good == {r \in Seq(S) : Mapped(s \o r, f) = Mapped(s, f) \o Mapped(r, f)}
<1>0. Mapped(s, f) \in Seq(T)
  BY MappedSeq
<1>1. <<>> \in Good
  BY <1>0, EmptySeq, ConcatEmptySeq, MappedEmpty
<1>2. ASSUME NEW r \in Seq(S), r \in Good, NEW e \in S PROVE Append(r, e) \in Good
  <2> DEFINE both == s \o r
  <2>1. both \in Seq(S) /\ Append(r, e) \in Seq(S) /\ s \o Append(r, e) = Append(both, e)
    <3>1. <<e>> \in Seq(S) /\ both \in Seq(S) /\ Append(r, e) = r \o <<e>> /\ Append(both, e) = both \o <<e>>
      BY ConcatProperties, AppendIsConcat
    <3>2. Append(r, e) \in Seq(S)
      BY AppendProperties
    <3> QED
      BY <3>1, <3>2, ConcatAssociative
  <2>2. Mapped(both, f) = Mapped(s, f) \o Mapped(r, f)
    BY <1>2
  <2> HIDE DEF both
  <2>3. Mapped(Append(both, e), f) = Mapped(both, f) \o f[e] /\ Mapped(Append(r, e), f) = Mapped(r, f) \o f[e]
        /\ f[e] \in Seq(T) /\ Mapped(r, f) \in Seq(T)
    <3>1. ASSUME NEW x \in Seq(S)
          PROVE  Mapped(x, f) \in Seq(T) /\ f[e] \in Seq(T) /\ Mapped(Append(x, e), f) = Mapped(x, f) \o f[e]
      BY MappedAppend
    <3>2. both \in Seq(S) /\ r \in Seq(S)
      BY <2>1
    <3> QED
      BY ONLY <3>1, <3>2
  <2> DEFINE a == Mapped(s, f)
             b == Mapped(r, f)
             c == f[e]
  <2>4. (a \o b) \o c = a \o (b \o c)
    <3>1. a \in Seq(T) /\ b \in Seq(T) /\ c \in Seq(T)
      BY <1>0, <2>3
    <3> HIDE DEF a, b, c
    <3> QED
      BY ONLY <3>1, ConcatAssociative, SMTT(30)
  <2>5. Mapped(s \o Append(r, e), f) = Mapped(s, f) \o Mapped(Append(r, e), f)
    BY <2>1, <2>2, <2>3, <2>4
  <2> QED
    BY <2>1, <2>5
<1> HIDE DEF Good
<1>3. t \in Good
  BY <1>1, <1>2, SeqInduction
<1> QED
  BY <1>3 DEF Good

-----------------------------------------------------------------------------
(* Folds: what a function of the elements so far comes to *)

Steps(g, s, base, step) == g[0] = base /\ \A n \in 1 .. Len(s) : g[n] = step[g[n - 1]][s[n]]

LEMMA StepsExist ==
  ASSUME NEW A, NEW S, NEW base \in A, NEW step \in [A -> [S -> A]], NEW s \in Seq(S)
  PROVE  \E g \in [0 .. Len(s) -> A] : Steps(g, s, base, step)
<1> DEFINE Runs(g, r) == Steps(g, r, base, step)
           Good == {r \in Seq(S) : \E g \in [0 .. Len(r) -> A] : Runs(g, r)}
<1>1. <<>> \in Good
  <2>1. [n \in 0 .. 0 |-> base] \in [0 .. Len(<<>>) -> A] /\ Runs([n \in 0 .. 0 |-> base], <<>>)
    BY DEF Steps
  <2> QED
    BY <2>1, EmptySeq
<1>2. ASSUME NEW r \in Seq(S), r \in Good, NEW e \in S PROVE Append(r, e) \in Good
  <2> DEFINE n == Len(r)
             a == Append(r, e)
  <2>1. PICK g \in [0 .. n -> A] : Runs(g, r)
    BY <1>2
  <2>2. n \in Nat /\ a \in Seq(S) /\ Len(a) = n + 1 /\ a[n + 1] = e /\ \A i \in 1 .. n : a[i] = r[i]
    BY AppendProperties, LenProperties
  <2> HIDE DEF a
  <2> DEFINE h == [i \in 0 .. n + 1 |-> IF i = n + 1 THEN step[g[n]][e] ELSE g[i]]
  <2>3. step[g[n]][e] \in A
    <3>1. n \in 0 .. n
      BY <2>2
    <3>2. g[n] \in A
      BY <3>1
    <3>3. step[g[n]] \in [S -> A]
      BY <3>2
    <3> QED
      BY <3>3
  <2> HIDE DEF n
  <2>4. h \in [0 .. n + 1 -> A]
    BY <2>1, <2>2, <2>3
  <2>5. h[0] = base /\ h[n + 1] = step[g[n]][e] /\ \A i \in 0 .. n : h[i] = g[i]
    BY <2>1, <2>2 DEF Steps
  <2> HIDE DEF h
  <2>6. ASSUME NEW i \in 1 .. n + 1 PROVE h[i] = step[h[i - 1]][a[i]]
    <3>1. CASE i = n + 1
      <4>1. n \in Nat
        BY <2>2
      <4>2. i - 1 = n /\ n \in 0 .. n
        BY ONLY <3>1, <4>1
      <4> QED
        BY <2>2, <2>5, <3>1, <4>2
    <3>2. CASE i # n + 1
      <4>1. i \in 1 .. n /\ i \in 0 .. n /\ i - 1 \in 0 .. n
        BY <2>2, <3>2
      <4>2. g[i] = step[g[i - 1]][r[i]]
        BY <2>1, <4>1 DEF n, Steps
      <4> QED
        BY <2>2, <2>5, <4>1, <4>2
    <3> QED
      BY <3>1, <3>2
  <2>7. Runs(h, a)
    BY <2>2, <2>5, <2>6 DEF Steps
  <2> HIDE DEF Runs
  <2>8. \E x \in [0 .. Len(a) -> A] : Runs(x, a)
    BY <2>2, <2>4, <2>7
  <2> QED
    BY <2>2, <2>8 DEF a
<1> HIDE DEF Good
<1>3. s \in Good
  BY <1>1, <1>2, SeqInduction
<1> QED
  BY <1>3 DEF Good

LEMMA StepsAgree ==
  ASSUME NEW s, Len(s) \in Nat, NEW base, NEW step, NEW g, NEW h, Steps(g, s, base, step), Steps(h, s, base, step)
  PROVE  g[Len(s)] = h[Len(s)]
<1> DEFINE n == Len(s)
           Good == {i \in Nat : i <= n => g[i] = h[i]}
<1>1. 0 \in Good
  BY DEF Steps
<1>2. ASSUME NEW i \in Nat, i \in Good PROVE i + 1 \in Good
  <2> SUFFICES ASSUME i + 1 <= n PROVE g[i + 1] = h[i + 1]
    OBVIOUS
  <2>1. i + 1 \in 1 .. n /\ (i + 1) - 1 = i /\ i <= n
    OBVIOUS
  <2>2. g[i] = h[i]
    BY <1>2, <2>1
  <2> QED
    BY <2>1, <2>2 DEF Steps
<1> HIDE DEF Good
<1>3. \A i \in Nat : i \in Good
  <2>1. \A i \in Nat : i \in Good => i + 1 \in Good
    BY <1>2
  <2> QED
    BY <1>1, <2>1, NatSetInduction
<1> QED
  BY <1>3 DEF Good

\* One more element is one more step.
Stepping(step, A, S) == step \in [A -> [S -> A]]

LEMMA StepsMore ==
  ASSUME NEW A, NEW S, NEW base \in A, NEW step, Stepping(step, A, S), NEW s \in Seq(S), NEW e \in S,
         NEW g, NEW h, Steps(g, s, base, step), Steps(h, Append(s, e), base, step)
  PROVE  g[Len(s)] \in A /\ h[Len(s) + 1] = step[g[Len(s)]][e]
<1> DEFINE n == Len(s)
           a == Append(s, e)
<1>1. n \in Nat /\ Len(a) = n + 1 /\ a[n + 1] = e /\ \A i \in 1 .. n : a[i] = s[i]
  BY AppendProperties, LenProperties
<1>2. PICK f \in [0 .. n -> A] : Steps(f, s, base, step)
  BY StepsExist DEF Stepping
<1> HIDE DEF a
<1>3. Steps(h, s, base, step)
  <2>1. \A i \in 1 .. n : i \in 1 .. n + 1
    BY <1>1
  <2> QED
    BY <1>1, <2>1 DEF Steps, a
<1>4. g[n] = f[n] /\ h[n] = g[n]
  BY <1>1, <1>2, <1>3, StepsAgree
<1> HIDE DEF n
<1>5. n + 1 \in 1 .. n + 1 /\ (n + 1) - 1 = n /\ n \in 0 .. n
  BY <1>1
<1>6. h[n + 1] = step[h[n]][a[n + 1]]
  BY <1>1, <1>5 DEF Steps, a
<1>7. f[n] \in A
  BY <1>2, <1>5
<1> QED
  BY <1>1, <1>4, <1>6, <1>7 DEF n

-----------------------------------------------------------------------------
(* Messages, the blocks that carry them, and the turns that hold the blocks *)

PartKinds == {"text", "image", "link", "file", "inlineData", "input_image", "input_text"}
CallKinds == {"tool_use", "functionCall", "call"}
Place == Nat \X Nat

Part == [kind : PartKinds, at : Place]
CallBlock == [kind : CallKinds, id : Ids, name : Names, at : Place]
IdBlock == [kind : {"tool_result", "result"}, id : Ids, at : Place]
NameBlock == [kind : {"functionResponse"}, name : Names \cup {"tool"}, at : Place]
AnyBlock == Part \cup CallBlock \cup IdBlock \cup NameBlock

Roles == {"system", "developer", "user", "assistant", "tool"}

\* Only an assistant calls, and a tool returns one text.
ChatMessage == {m \in [role : Roles, parts : Seq(Part), calls : Seq(Call), of : Ids \cup {"none"}] :
  /\ m.calls # <<>> => m.role = "assistant"
  /\ m.role = "tool" => m.of \in Ids /\ Len(m.parts) = 1}

ApiTurn == [role : {"system", "developer", "user", "assistant", "model"}, blocks : Seq(AnyBlock)]
CodexItem == [type : {"user", "assistant", "function_call", "function_call_output"}, blocks : Seq(AnyBlock)]
Holder == ApiTurn \cup CodexItem

LEMMA MessageIs ==
  ASSUME NEW m \in ChatMessage
  PROVE  /\ m.role \in Roles /\ m.parts \in Seq(Part) /\ m.calls \in Seq(Call) /\ m.of \in Ids \cup {"none"}
         /\ m.calls # <<>> => m.role = "assistant"
         /\ m.role = "tool" => m.of \in Ids /\ Len(m.parts) = 1 /\ m.parts[1] \in Part /\ m.parts[1].at \in Place /\ m.calls = <<>>
<1>1. m \in [role : Roles, parts : Seq(Part), calls : Seq(Call), of : Ids \cup {"none"}]
  BY DEF ChatMessage
<1>2. /\ m.calls # <<>> => m.role = "assistant"
      /\ m.role = "tool" => m.of \in Ids /\ Len(m.parts) = 1
  BY DEF ChatMessage
<1>3. m.role \in Roles /\ m.parts \in Seq(Part) /\ m.calls \in Seq(Call) /\ m.of \in Ids \cup {"none"}
  BY <1>1
<1>4. ASSUME Len(m.parts) = 1 PROVE m.parts[1] \in Part /\ m.parts[1].at \in Place
  <2>1. m.parts[1] \in Part
    BY <1>3, <1>4, ElementOfSeq
  <2> QED
    BY <2>1 DEF Part
<1> QED
  BY <1>2, <1>3, <1>4

-----------------------------------------------------------------------------
(* Turns *)

Merges(turns, block) ==
  turns # <<>> /\ Last(turns).role = "user" /\ \A b \in Range(Last(turns).blocks) : b.kind = block.kind

LEMMA TurnIs ==
  ASSUME NEW u \in ApiTurn
  PROVE  u.blocks \in Seq(AnyBlock) /\ u = [role |-> u.role, blocks |-> u.blocks]
BY DEF ApiTurn

LEMMA LastIs == ASSUME NEW S, NEW r \in Seq(S), NEW e \in S PROVE Last(Append(r, e)) = e /\ Append(r, e) # <<>> /\ Append(r, e) \in Seq(S)
BY AppendProperties, EmptySeq DEF Last

\* A result that does not join the turn before is a turn of its own.
LEMMA AnswerAdds ==
  ASSUME NEW t \in Seq(ApiTurn), NEW b \in AnyBlock, ~Merges(t, b)
  PROVE  answer_turn(t, b) = Append(t, [role |-> "user", blocks |-> <<b>>])
BY DEF answer_turn, Merges

\* One that joins it is its last block.
LEMMA AnswerJoins ==
  ASSUME NEW r \in Seq(ApiTurn), NEW e \in ApiTurn, NEW b \in AnyBlock, Merges(Append(r, e), b)
  PROVE  /\ e.role = "user" /\ \A x \in Range(e.blocks) : x.kind = b.kind
         /\ answer_turn(Append(r, e), b) = Append(r, [role |-> "user", blocks |-> Append(e.blocks, b)])
<1> DEFINE t == Append(r, e)
           u == [role |-> "user", blocks |-> Append(e.blocks, b)]
<1>1. Last(t) = e /\ t # <<>> /\ t[Len(t)] = e
  BY LastIs DEF Last
<1>2. e.role = "user" /\ \A x \in Range(e.blocks) : x.kind = b.kind
  BY <1>1 DEF Merges
<1>3. e.blocks \in Seq(AnyBlock) /\ e = [role |-> e.role, blocks |-> e.blocks] /\ Append(e.blocks, b) \in Seq(AnyBlock)
  BY TurnIs, AppendProperties
<1>4. u = [e EXCEPT !.blocks = Append(e.blocks, b)] /\ u \in ApiTurn
  <2>1. \A x, w, v : [[role |-> x, blocks |-> w] EXCEPT !.blocks = v] = [role |-> x, blocks |-> v]
    OBVIOUS
  <2>2. u = [e EXCEPT !.blocks = Append(e.blocks, b)]
    <3> DEFINE x == e.role
               w == e.blocks
               v == Append(w, b)
    <3>1. e = [role |-> x, blocks |-> w] /\ x = "user"
      BY <1>2, <1>3
    <3> HIDE DEF x, w, v
    <3>2. [e EXCEPT !.blocks = v] = [role |-> x, blocks |-> v]
      BY ONLY <2>1, <3>1
    <3> QED
      BY <3>1, <3>2 DEF v, w
  <2>3. \A w \in Seq(AnyBlock) : [role |-> "user", blocks |-> w] \in ApiTurn
    BY DEF ApiTurn
  <2> QED
    BY <1>3, <2>2, <2>3
<1>5. answer_turn(t, b) = [t EXCEPT ![Len(t)].blocks = Append(@, b)]
  <2> HIDE DEF t
  <2> QED
    BY DEF answer_turn, Merges, t
<1> HIDE DEF u
<1>6. answer_turn(t, b) = [t EXCEPT ![Len(t)] = u]
  <2> HIDE DEF t
  <2> QED
    BY <1>1, <1>4, <1>5
<1>7. [Append(r, e) EXCEPT ![Len(Append(r, e))] = u] = Append(r, u)
  <2>1. r \in Seq(ApiTurn) /\ e \in ApiTurn /\ u \in ApiTurn
    BY <1>4
  <2> QED
    BY ONLY <2>1, LastChanged
<1> QED
  BY <1>2, <1>6, <1>7 DEF u, t

LEMMA AnswerTyped ==
  ASSUME NEW t \in Seq(ApiTurn), NEW b \in AnyBlock
  PROVE  answer_turn(t, b) \in Seq(ApiTurn)
<1>0. ASSUME NEW w \in Seq(AnyBlock), NEW r \in Seq(ApiTurn)
      PROVE  [role |-> "user", blocks |-> w] \in ApiTurn /\ Append(r, [role |-> "user", blocks |-> w]) \in Seq(ApiTurn)
  <2>1. [role |-> "user", blocks |-> w] \in ApiTurn
    BY DEF ApiTurn
  <2> QED
    BY <2>1, AppendProperties
<1>1. CASE ~Merges(t, b)
  <2>1. <<b>> \in Seq(AnyBlock)
    OBVIOUS
  <2> QED
    BY <1>0, <1>1, <2>1, AnswerAdds
<1>2. CASE Merges(t, b)
  <2>1. t # <<>>
    BY <1>2 DEF Merges
  <2>2. PICK r \in Seq(ApiTurn), e \in ApiTurn : t = Append(r, e)
    BY <2>1, SequenceEmptyOrAppend
  <2>3. Append(e.blocks, b) \in Seq(AnyBlock)
    BY TurnIs, AppendProperties
  <2>4. answer_turn(Append(r, e), b) = Append(r, [role |-> "user", blocks |-> Append(e.blocks, b)])
    BY <1>2, <2>2, AnswerJoins
  <2> QED
    BY <1>0, <2>2, <2>3, <2>4
<1> QED
  BY <1>1, <1>2

\* The blocks of turns, or of items, one after the other.
BlocksOf == [h \in Holder |-> h.blocks]

LEMMA HolderIs == ASSUME NEW h \in Holder PROVE h.blocks \in Seq(AnyBlock)
BY DEF Holder, ApiTurn, CodexItem

LEMMA BlocksAre == ASSUME NEW t \in Seq(Holder) PROVE Gives(BlocksOf, Holder, AnyBlock) /\ Blocks(t) = Mapped(t, BlocksOf)
<1>1. Gives(BlocksOf, Holder, AnyBlock)
  BY HolderIs DEF Gives, BlocksOf
<1>2. \A i \in DOMAIN t : t[i] \in Holder
  BY ElementOfSeq
<1>3. [i \in DOMAIN t |-> t[i].blocks] = [i \in DOMAIN t |-> BlocksOf[t[i]]]
  BY <1>2 DEF BlocksOf
<1> QED
  BY <1>1, <1>3 DEF Blocks, Mapped

LEMMA BlocksEmpty == Blocks(<<>>) = <<>>
<1>1. <<>> \in Seq(Holder)
  BY EmptySeq
<1> QED
  BY <1>1, BlocksAre, MappedEmpty

LEMMA BlocksAppend ==
  ASSUME NEW t \in Seq(Holder), NEW h \in Holder
  PROVE  Blocks(t) \in Seq(AnyBlock) /\ Blocks(Append(t, h)) = Blocks(t) \o h.blocks
<1>1. Append(t, h) \in Seq(Holder) /\ BlocksOf[h] = h.blocks
  BY AppendProperties DEF BlocksOf
<1>2. Mapped(t, BlocksOf) \in Seq(AnyBlock) /\ Mapped(Append(t, h), BlocksOf) = Mapped(t, BlocksOf) \o BlocksOf[h]
  BY BlocksAre, MappedAppend
<1> QED
  BY <1>1, <1>2, BlocksAre

LEMMA BlocksConcat ==
  ASSUME NEW t \in Seq(Holder), NEW w \in Seq(Holder)
  PROVE  Blocks(t \o w) = Blocks(t) \o Blocks(w)
<1>1. t \o w \in Seq(Holder)
  BY ConcatProperties
<1>2. Mapped(t \o w, BlocksOf) = Mapped(t, BlocksOf) \o Mapped(w, BlocksOf)
  BY BlocksAre, MappedConcat
<1> QED
  BY <1>1, <1>2, BlocksAre

LEMMA TurnsHold == ASSUME NEW t \in Seq(ApiTurn) PROVE t \in Seq(Holder) /\ \A u \in ApiTurn : u \in Holder
<1>1. ApiTurn \subseteq Holder
  BY DEF Holder
<1> HIDE DEF Holder
<1> QED
  BY <1>1

LEMMA BlocksAnswer ==
  ASSUME NEW t \in Seq(ApiTurn), NEW b \in AnyBlock
  PROVE  Blocks(answer_turn(t, b)) = Blocks(t) \o <<b>>
<1>0. ASSUME NEW w \in Seq(AnyBlock), NEW r \in Seq(ApiTurn)
      PROVE  Blocks(Append(r, [role |-> "user", blocks |-> w])) = Blocks(r) \o w
  <2>1. [role |-> "user", blocks |-> w] \in ApiTurn
    BY DEF ApiTurn
  <2> QED
    BY <2>1, TurnsHold, BlocksAppend
<1>1. CASE ~Merges(t, b)
  <2>1. <<b>> \in Seq(AnyBlock)
    OBVIOUS
  <2> QED
    BY <1>0, <1>1, <2>1, AnswerAdds
<1>2. CASE Merges(t, b)
  <2>1. t # <<>>
    BY <1>2 DEF Merges
  <2>2. PICK r \in Seq(ApiTurn), e \in ApiTurn : t = Append(r, e)
    BY <2>1, SequenceEmptyOrAppend
  <2> DEFINE w == e.blocks
             x == Blocks(r)
  <2>3. w \in Seq(AnyBlock) /\ Append(w, b) \in Seq(AnyBlock) /\ x \in Seq(AnyBlock) /\ Blocks(t) = x \o w
    BY <2>2, TurnIs, AppendProperties, TurnsHold, BlocksAppend
  <2>4. answer_turn(t, b) = Append(r, [role |-> "user", blocks |-> Append(w, b)])
    BY <1>2, <2>2, AnswerJoins
  <2>5. Blocks(answer_turn(t, b)) = x \o Append(w, b)
    BY <1>0, <2>3, <2>4
  <2> HIDE DEF w, x
  <2>6. x \o Append(w, b) = (x \o w) \o <<b>>
    <3>1. <<b>> \in Seq(AnyBlock) /\ Append(w, b) = w \o <<b>>
      BY <2>3, AppendIsConcat
    <3> QED
      BY <2>3, <3>1, ConcatAssociative
  <2> QED
    BY <2>3, <2>5, <2>6
<1> QED
  BY <1>1, <1>2

LEMMA CallBlocksAre ==
  ASSUME NEW m \in ChatMessage, NEW n \in Nat, NEW kind \in CallKinds
  PROVE  /\ CallBlocks(m, n, kind) \in Seq(CallBlock) /\ Len(CallBlocks(m, n, kind)) = Len(m.calls)
         /\ \A i \in 1 .. Len(m.calls) :
              CallBlocks(m, n, kind)[i].id = m.calls[i].id /\ CallBlocks(m, n, kind)[i].name = m.calls[i].name
<1>1. m.calls \in Seq(Call) /\ Len(m.calls) \in Nat /\ DOMAIN m.calls = 1 .. Len(m.calls)
  BY MessageIs, LenProperties
<1>2. ASSUME NEW i \in 1 .. Len(m.calls)
      PROVE  [kind |-> kind, id |-> m.calls[i].id, name |-> m.calls[i].name, at |-> <<n, i>>] \in CallBlock
  <2>1. m.calls[i] \in Call
    BY <1>1, ElementOfSeq
  <2>2. m.calls[i].id \in Ids /\ m.calls[i].name \in Names /\ <<n, i>> \in Place
    BY <1>1, <2>1 DEF Call, Place
  <2> QED
    BY <2>2 DEF CallBlock
<1>3. CallBlocks(m, n, kind) = [i \in 1 .. Len(m.calls) |->
        [kind |-> kind, id |-> m.calls[i].id, name |-> m.calls[i].name, at |-> <<n, i>>]]
  BY <1>1 DEF CallBlocks
<1>4. CallBlocks(m, n, kind) \in [1 .. Len(m.calls) -> CallBlock]
  BY <1>2, <1>3
<1> QED
  BY <1>1, <1>3, <1>4

-----------------------------------------------------------------------------
(* What blocks tell of messages *)

LEMMA CallIs == ASSUME NEW b \in AnyBlock PROVE IsCall(b) <=> b \in CallBlock
<1>1. CASE b \in Part
  BY <1>1 DEF IsCall, Part, PartKinds, CallBlock, CallKinds
<1>2. CASE b \in CallBlock
  BY <1>2 DEF IsCall, CallBlock, CallKinds
<1>3. CASE b \in IdBlock
  BY <1>3 DEF IsCall, IdBlock, CallBlock, CallKinds
<1>4. CASE b \in NameBlock
  BY <1>4 DEF IsCall, NameBlock, CallBlock, CallKinds
<1> QED
  BY <1>1, <1>2, <1>3, <1>4 DEF AnyBlock

LEMMA SplitIs ==
  ASSUME NEW s \in Seq(AnyBlock)
  PROVE  Called(s) = Those(s, CallBlock) /\ Spoken(s) = Those(s, AnyBlock \ CallBlock)
<1>1. \A i \in DOMAIN s : s[i] \in AnyBlock /\ s[i] \in Range(s)
  BY ElementOfSeq DEF Range
<1>2. \A i \in DOMAIN s : s[i] \in {b \in Range(s) : IsCall(b)} <=> s[i] \in CallBlock
  BY <1>1, CallIs
<1>3. \A i \in DOMAIN s : s[i] \in {b \in Range(s) : ~IsCall(b)} <=> s[i] \in AnyBlock \ CallBlock
  BY <1>1, CallIs
<1>4. Called(s) = Those(s, CallBlock)
  BY <1>2, ThoseSame DEF Called
<1>5. Spoken(s) = Those(s, AnyBlock \ CallBlock)
  BY <1>3, ThoseSame DEF Spoken
<1> QED
  BY <1>4, <1>5

LEMMA SplitSeq ==
  ASSUME NEW s \in Seq(AnyBlock)
  PROVE  Called(s) \in Seq(AnyBlock) /\ Spoken(s) \in Seq(AnyBlock)
BY SplitIs, ThoseSeq

LEMMA SplitConcat ==
  ASSUME NEW s \in Seq(AnyBlock), NEW t \in Seq(AnyBlock)
  PROVE  Called(s \o t) = Called(s) \o Called(t) /\ Spoken(s \o t) = Spoken(s) \o Spoken(t)
<1>1. s \o t \in Seq(AnyBlock)
  BY ConcatProperties
<1>2. Those(s \o t, CallBlock) = Those(s, CallBlock) \o Those(t, CallBlock)
  BY ThoseConcat
<1>3. Those(s \o t, AnyBlock \ CallBlock) = Those(s, AnyBlock \ CallBlock) \o Those(t, AnyBlock \ CallBlock)
  BY ThoseConcat
<1> QED
  BY <1>1, <1>2, <1>3, SplitIs

\* Calls alone, and blocks without a call.
LEMMA SplitCalls == ASSUME NEW s \in Seq(CallBlock) PROVE s \in Seq(AnyBlock) /\ Called(s) = s /\ Spoken(s) = <<>>
<1>1. s \in Seq(AnyBlock)
  BY DEF AnyBlock
<1>2. Those(s, CallBlock) = s
  BY ThoseAll
<1>3. Those(s, AnyBlock \ CallBlock) = <<>>
  BY ThoseNone
<1> QED
  BY <1>1, <1>2, <1>3, SplitIs

LEMMA SplitPlain ==
  ASSUME NEW s \in Seq(Part \cup IdBlock \cup NameBlock)
  PROVE  s \in Seq(AnyBlock) /\ Called(s) = <<>> /\ Spoken(s) = s
<1> DEFINE P == Part \cup IdBlock \cup NameBlock
<1>1. P \cap CallBlock = {} /\ P \subseteq AnyBlock
  BY DEF Part, IdBlock, NameBlock, CallBlock, CallKinds, PartKinds, AnyBlock
<1>2. P \subseteq AnyBlock \ CallBlock
  BY <1>1
<1> HIDE DEF P
<1>3. s \in Seq(P)
  BY DEF P
<1>4. s \in Seq(AnyBlock)
  BY <1>1, <1>3
<1>5. Those(s, CallBlock) = <<>>
  BY <1>1, <1>3, ThoseNone
<1>6. Those(s, AnyBlock \ CallBlock) = s
  BY <1>2, <1>3, ThoseAll
<1> QED
  BY <1>4, <1>5, <1>6, SplitIs

\* Each element of a concatenation is the other's element at the same place.
Paired(a, b, x, y, p, q) ==
  /\ Len(a) = Len(b)
  /\ \A i \in DOMAIN b : \/ \E j \in DOMAIN p : a[i] = x[j] /\ b[i] = p[j]
                         \/ \E j \in DOMAIN q : a[i] = y[j] /\ b[i] = q[j]

LEMMA ConcatPairs ==
  ASSUME NEW S, NEW T, NEW x \in Seq(S), NEW y \in Seq(S), NEW p \in Seq(T), NEW q \in Seq(T),
         Len(x) = Len(p), Len(y) = Len(q)
  PROVE  Paired(x \o y, p \o q, x, y, p, q)
<1> DEFINE a == x \o y
           b == p \o q
           n == Len(p)
           k == Len(q)
<1>1. n \in Nat /\ k \in Nat /\ DOMAIN p = 1 .. n /\ DOMAIN q = 1 .. k
  BY LenProperties
<1>2. Len(a) = Len(x) + Len(y) /\ \A i \in 1 .. Len(x) + Len(y) : a[i] = IF i <= Len(x) THEN x[i] ELSE y[i - Len(x)]
  BY ConcatProperties
<1>3. b \in Seq(T) /\ Len(b) = n + k /\ \A i \in 1 .. n + k : b[i] = IF i <= n THEN p[i] ELSE q[i - n]
  BY ConcatProperties
<1>4. DOMAIN b = 1 .. n + k
  BY <1>3, LenProperties
<1> HIDE DEF a, b, n, k
<1>5. Len(x) = n /\ Len(y) = k
  BY DEF n, k
<1>6. ASSUME NEW i \in 1 .. n + k
      PROVE  (\E j \in DOMAIN p : a[i] = x[j] /\ b[i] = p[j]) \/ (\E j \in DOMAIN q : a[i] = y[j] /\ b[i] = q[j])
  <2>1. CASE i <= n
    <3>1. i \in 1 .. n
      BY <1>1, <2>1
    <3> QED
      BY <1>1, <1>2, <1>3, <1>5, <2>1, <3>1
  <2>2. CASE ~(i <= n)
    <3>1. i - n \in 1 .. k
      BY <1>1, <2>2
    <3> QED
      BY <1>1, <1>2, <1>3, <1>5, <2>2, <3>1
  <2> QED
    BY <2>1, <2>2
<1> QED
  BY <1>2, <1>3, <1>4, <1>5, <1>6 DEF a, b, Paired

LEMMA SameConcat ==
  ASSUME NEW x \in Seq(AnyBlock), NEW y \in Seq(AnyBlock), NEW p \in Seq(Part), NEW q \in Seq(Part),
         SameParts(x, p), SameParts(y, q)
  PROVE  SameParts(x \o y, p \o q)
<1> DEFINE a == x \o y
           b == p \o q
<1>1. Len(x) = Len(p) /\ Len(y) = Len(q)
  BY DEF SameParts
<1>2. Paired(a, b, x, y, p, q)
  BY <1>1, ConcatPairs
<1> HIDE DEF a, b
<1>3. SameParts(a, b)
  BY <1>2 DEF Paired, SameParts
<1> QED
  BY <1>3 DEF a, b

LEMMA SameCallsConcat ==
  ASSUME NEW x \in Seq(AnyBlock), NEW y \in Seq(AnyBlock), NEW p \in Seq(Call), NEW q \in Seq(Call),
         SameCalls(x, p), SameCalls(y, q)
  PROVE  SameCalls(x \o y, p \o q)
<1> DEFINE a == x \o y
           b == p \o q
<1>1. Len(x) = Len(p) /\ Len(y) = Len(q)
  BY DEF SameCalls
<1>2. Paired(a, b, x, y, p, q)
  BY <1>1, ConcatPairs
<1> HIDE DEF a, b
<1>3. SameCalls(a, b)
  BY <1>2 DEF Paired, SameCalls
<1> QED
  BY <1>3 DEF a, b

CallsOf(messages) == FlattenSeq([i \in DOMAIN messages |-> messages[i].calls])

\* That the blocks tell of the messages, and of one message.
Tells(blocks, messages) == SameParts(Spoken(blocks), Parts(messages)) /\ SameCalls(Called(blocks), CallsOf(messages))
TellsOne(blocks, m) == SameParts(Spoken(blocks), m.parts) /\ SameCalls(Called(blocks), m.calls)

PartsIn == [m \in ChatMessage |-> m.parts]
CallsIn == [m \in ChatMessage |-> m.calls]

LEMMA ListedAre ==
  ASSUME NEW s \in Seq(ChatMessage)
  PROVE  /\ Gives(PartsIn, ChatMessage, Part) /\ Parts(s) = Mapped(s, PartsIn)
         /\ Gives(CallsIn, ChatMessage, Call) /\ CallsOf(s) = Mapped(s, CallsIn)
<1>1. Gives(PartsIn, ChatMessage, Part) /\ Gives(CallsIn, ChatMessage, Call)
  BY MessageIs DEF Gives, PartsIn, CallsIn
<1>2. \A i \in DOMAIN s : s[i] \in ChatMessage
  BY ElementOfSeq
<1>3. /\ [i \in DOMAIN s |-> s[i].parts] = [i \in DOMAIN s |-> PartsIn[s[i]]]
      /\ [i \in DOMAIN s |-> s[i].calls] = [i \in DOMAIN s |-> CallsIn[s[i]]]
  BY <1>2 DEF PartsIn, CallsIn
<1> QED
  BY <1>1, <1>3 DEF Parts, CallsOf, Mapped

LEMMA ListedEmpty == Parts(<<>>) = <<>> /\ CallsOf(<<>>) = <<>>
<1>1. <<>> \in Seq(ChatMessage)
  BY EmptySeq
<1> QED
  BY <1>1, ListedAre, MappedEmpty

LEMMA ListedAppend ==
  ASSUME NEW s \in Seq(ChatMessage), NEW m \in ChatMessage
  PROVE  /\ Parts(s) \in Seq(Part) /\ Parts(Append(s, m)) = Parts(s) \o m.parts
         /\ CallsOf(s) \in Seq(Call) /\ CallsOf(Append(s, m)) = CallsOf(s) \o m.calls
<1>1. Append(s, m) \in Seq(ChatMessage) /\ PartsIn[m] = m.parts /\ CallsIn[m] = m.calls
  BY AppendProperties DEF PartsIn, CallsIn
<1>2. Mapped(s, PartsIn) \in Seq(Part) /\ Mapped(Append(s, m), PartsIn) = Mapped(s, PartsIn) \o PartsIn[m]
  BY ListedAre, MappedAppend
<1>3. Mapped(s, CallsIn) \in Seq(Call) /\ Mapped(Append(s, m), CallsIn) = Mapped(s, CallsIn) \o CallsIn[m]
  BY ListedAre, MappedAppend
<1> QED
  BY <1>1, <1>2, <1>3, ListedAre

LEMMA ListedSeq == ASSUME NEW s \in Seq(ChatMessage) PROVE Parts(s) \in Seq(Part) /\ CallsOf(s) \in Seq(Call)
BY ListedAre, MappedSeq

LEMMA TellsNone == Tells(<<>>, <<>>)
<1>1. <<>> \in Seq(CallBlock) /\ <<>> \in Seq(AnyBlock)
  BY EmptySeq
<1>2. Called(<<>>) = <<>> /\ Spoken(<<>>) = <<>>
  BY <1>1, SplitCalls
<1> QED
  BY <1>2, ListedEmpty DEF Tells, SameParts, SameCalls

\* One message more, told by what goes after the blocks.
LEMMA TellsMore ==
  ASSUME NEW s \in Seq(ChatMessage), NEW m \in ChatMessage, NEW x \in Seq(AnyBlock), NEW y \in Seq(AnyBlock),
         Tells(x, s), TellsOne(y, m)
  PROVE  Tells(x \o y, Append(s, m))
<1>1. m.parts \in Seq(Part) /\ m.calls \in Seq(Call)
  BY MessageIs
<1>2. SameParts(Spoken(x) \o Spoken(y), Parts(s) \o m.parts)
  BY <1>1, SplitSeq, ListedAppend, SameConcat DEF Tells, TellsOne
<1>3. SameCalls(Called(x) \o Called(y), CallsOf(s) \o m.calls)
  BY <1>1, SplitSeq, ListedAppend, SameCallsConcat DEF Tells, TellsOne
<1> QED
  BY <1>2, <1>3, ListedAppend, SplitConcat DEF Tells

\* A tool's result is one block, and an assistant's calls go after what it says.
LEMMA TellsResult ==
  ASSUME NEW m \in ChatMessage, m.role = "tool", NEW b \in IdBlock \cup NameBlock, b.at = m.parts[1].at
  PROVE  <<b>> \in Seq(AnyBlock) /\ TellsOne(<<b>>, m)
<1>1. <<b>> \in Seq(Part \cup IdBlock \cup NameBlock) /\ b.kind \notin TextKinds
  BY DEF IdBlock, NameBlock, TextKinds
<1>2. <<b>> \in Seq(AnyBlock) /\ Called(<<b>>) = <<>> /\ Spoken(<<b>>) = <<b>>
  BY <1>1, SplitPlain
<1>3. m.parts \in Seq(Part) /\ Len(m.parts) = 1 /\ m.calls = <<>> /\ DOMAIN m.parts = 1 .. 1
  BY MessageIs, LenProperties
<1>4. SameParts(<<b>>, m.parts)
  BY <1>1, <1>3 DEF SameParts
<1>5. SameCalls(<<>>, m.calls)
  BY <1>3 DEF SameCalls
<1> QED
  BY <1>2, <1>4, <1>5 DEF TellsOne

LEMMA TellsSaid ==
  ASSUME NEW m \in ChatMessage, NEW x \in Seq(Part), SameParts(x, m.parts), NEW n \in Nat, NEW kind \in CallKinds
  PROVE  /\ x \o CallBlocks(m, n, kind) \in Seq(AnyBlock) /\ TellsOne(x \o CallBlocks(m, n, kind), m)
         /\ Called(x \o CallBlocks(m, n, kind)) = CallBlocks(m, n, kind)
<1> DEFINE c == CallBlocks(m, n, kind)
<1>1. c \in Seq(CallBlock) /\ SameCalls(c, m.calls)
  <2>1. DOMAIN m.calls = 1 .. Len(m.calls)
    BY MessageIs, LenProperties
  <2> QED
    BY <2>1, CallBlocksAre DEF SameCalls
<1> HIDE DEF c
<1>2. c \in Seq(AnyBlock) /\ Called(c) = c /\ Spoken(c) = <<>>
  BY <1>1, SplitCalls
<1>3. x \in Seq(AnyBlock) /\ Called(x) = <<>> /\ Spoken(x) = x
  <2>1. x \in Seq(Part \cup IdBlock \cup NameBlock)
    OBVIOUS
  <2> QED
    BY <2>1, SplitPlain
<1>4. x \o c \in Seq(AnyBlock) /\ Called(x \o c) = <<>> \o c /\ Spoken(x \o c) = x \o <<>>
  BY <1>2, <1>3, SplitConcat, ConcatProperties
<1>5. <<>> \o c = c /\ x \o <<>> = x
  BY <1>1, ConcatEmptySeq
<1> QED
  BY <1>1, <1>4, <1>5 DEF TellsOne, c

-----------------------------------------------------------------------------
(* The Messages API *)

LEMMA AnthropicTurn ==
  ASSUME NEW t \in Seq(ApiTurn), NEW m \in ChatMessage
  PROVE  /\ anthropic_turn(t, m) \in Seq(ApiTurn)
         /\ \E y \in Seq(AnyBlock) : TellsOne(y, m) /\ Blocks(anthropic_turn(t, m)) = Blocks(t) \o y
<1>1. CASE m.role = "tool"
  <2> DEFINE b == [kind |-> "tool_result", id |-> m.of, at |-> m.parts[1].at]
  <2>1. b \in IdBlock /\ b.at = m.parts[1].at
    BY <1>1, MessageIs DEF IdBlock
  <2>2. anthropic_turn(t, m) = answer_turn(t, b)
    BY <1>1 DEF anthropic_turn
  <2> HIDE DEF b
  <2>3. b \in AnyBlock
    BY <2>1 DEF AnyBlock
  <2>4. <<b>> \in Seq(AnyBlock) /\ TellsOne(<<b>>, m)
    BY <1>1, <2>1, TellsResult
  <2>5. Blocks(answer_turn(t, b)) = Blocks(t) \o <<b>>
    BY <2>3, BlocksAnswer
  <2>6. answer_turn(t, b) \in Seq(ApiTurn)
    BY <2>3, AnswerTyped
  <2> QED
    BY <2>2, <2>4, <2>5, <2>6
<1>2. CASE m.role # "tool"
  <2> DEFINE y == m.parts \o CallBlocks(m, Len(t), "tool_use")
             u == [role |-> m.role, blocks |-> y]
  <2>1. anthropic_turn(t, m) = Append(t, u)
    BY <1>2 DEF anthropic_turn
  <2>2. m.parts \in Seq(Part) /\ SameParts(m.parts, m.parts) /\ Len(t) \in Nat /\ "tool_use" \in CallKinds
    BY MessageIs, LenProperties DEF SameParts, TextKinds, CallKinds
  <2>3. y \in Seq(AnyBlock) /\ TellsOne(y, m)
    BY <2>2, TellsSaid
  <2> HIDE DEF y
  <2>4. u \in ApiTurn /\ u.blocks = y
    BY <1>2, <2>3, MessageIs DEF ApiTurn, Roles
  <2> HIDE DEF u
  <2>5. Append(t, u) \in Seq(ApiTurn) /\ Blocks(Append(t, u)) = Blocks(t) \o y
    BY <2>4, AppendProperties, TurnsHold, BlocksAppend
  <2> QED
    BY <2>1, <2>3, <2>5
<1> QED
  BY <1>1, <1>2

AnthropicStep == [t \in Seq(ApiTurn) |-> [m \in ChatMessage |-> anthropic_turn(t, m)]]
AnthropicRun(g, s) == g = [n \in 0 .. Len(s) |-> IF n = 0 THEN <<>> ELSE anthropic_turn(g[n - 1], s[n])]

LEMMA AnthropicIs ==
  ASSUME NEW s \in Seq(ChatMessage)
  PROVE  /\ AnthropicStep \in [Seq(ApiTurn) -> [ChatMessage -> Seq(ApiTurn)]]
         /\ \E g : Steps(g, s, <<>>, AnthropicStep) /\ anthropic_messages(s) = g[Len(s)]
<1>1. AnthropicStep \in [Seq(ApiTurn) -> [ChatMessage -> Seq(ApiTurn)]]
  BY AnthropicTurn DEF AnthropicStep
<1>2. <<>> \in Seq(ApiTurn) /\ Len(s) \in Nat
  BY EmptySeq, LenProperties
<1> DEFINE n == Len(s)
           g == CHOOSE f : AnthropicRun(f, s)
<1>3. \E f : AnthropicRun(f, s)
  <2>1. PICK f \in [0 .. n -> Seq(ApiTurn)] : Steps(f, s, <<>>, AnthropicStep)
    BY <1>1, <1>2, StepsExist
  <2>2. ASSUME NEW i \in 0 .. n PROVE f[i] = IF i = 0 THEN <<>> ELSE anthropic_turn(f[i - 1], s[i])
    <3>1. CASE i = 0
      BY <2>1, <3>1 DEF Steps
    <3>2. CASE i # 0
      <4>1. i \in 1 .. n /\ i - 1 \in 0 .. n
        BY <1>2, <3>2
      <4>2. f[i - 1] \in Seq(ApiTurn) /\ s[i] \in ChatMessage
        BY <4>1, ElementOfSeq
      <4>3. f[i] = AnthropicStep[f[i - 1]][s[i]]
        BY <2>1, <4>1 DEF Steps
      <4> QED
        BY <3>2, <4>2, <4>3 DEF AnthropicStep
    <3> QED
      BY <3>1, <3>2
  <2>3. f = [i \in 0 .. n |-> IF i = 0 THEN <<>> ELSE anthropic_turn(f[i - 1], s[i])]
    BY <2>1, <2>2
  <2> QED
    BY <2>3 DEF AnthropicRun
<1>4. AnthropicRun(g, s)
  BY <1>3
<1>5. anthropic_messages(s) = g[n]
  BY DEF anthropic_messages, AnthropicRun
<1> HIDE DEF g
<1>6. /\ g[0] = <<>>
      /\ \A i \in 1 .. n : g[i] = anthropic_turn(g[i - 1], s[i])
  BY <1>2, <1>4 DEF AnthropicRun
<1>7. \A i \in Nat : i <= n => g[i] \in Seq(ApiTurn)
  <2> DEFINE Good == {i \in Nat : i <= n => g[i] \in Seq(ApiTurn)}
  <2>1. 0 \in Good
    BY <1>2, <1>6
  <2>2. ASSUME NEW i \in Nat, i \in Good PROVE i + 1 \in Good
    <3> SUFFICES ASSUME i + 1 <= n PROVE g[i + 1] \in Seq(ApiTurn)
      OBVIOUS
    <3>1. i + 1 \in 1 .. n /\ (i + 1) - 1 = i /\ i <= n
      BY <1>2
    <3>2. g[i] \in Seq(ApiTurn) /\ s[i + 1] \in ChatMessage
      BY <2>2, <3>1, ElementOfSeq
    <3>3. anthropic_turn(g[i], s[i + 1]) \in Seq(ApiTurn)
      BY <3>2, AnthropicTurn
    <3> QED
      BY <1>6, <3>1, <3>3
  <2> HIDE DEF Good
  <2>3. \A i \in Nat : i \in Good
    <3>1. \A i \in Nat : i \in Good => i + 1 \in Good
      BY <2>2
    <3> QED
      BY <2>1, <3>1, NatSetInduction
  <2> QED
    BY <2>3 DEF Good
<1>8. Steps(g, s, <<>>, AnthropicStep)
  <2> SUFFICES ASSUME NEW i \in 1 .. n PROVE g[i] = AnthropicStep[g[i - 1]][s[i]]
    BY <1>6 DEF Steps
  <2>1. i - 1 \in Nat /\ i - 1 <= n
    BY <1>2
  <2>2. g[i - 1] \in Seq(ApiTurn) /\ s[i] \in ChatMessage
    BY <1>7, <2>1, ElementOfSeq
  <2> QED
    BY <1>6, <2>2 DEF AnthropicStep
<1> QED
  BY <1>1, <1>5, <1>8

LEMMA AnthropicMore ==
  ASSUME NEW s \in Seq(ChatMessage), NEW m \in ChatMessage
  PROVE  /\ anthropic_messages(s) \in Seq(ApiTurn)
         /\ anthropic_messages(Append(s, m)) = anthropic_turn(anthropic_messages(s), m)
<1>1. Append(s, m) \in Seq(ChatMessage) /\ Len(Append(s, m)) = Len(s) + 1 /\ <<>> \in Seq(ApiTurn)
  BY AppendProperties, EmptySeq
<1>2. Stepping(AnthropicStep, Seq(ApiTurn), ChatMessage)
  BY <1>1, AnthropicIs DEF Stepping
<1>3. PICK g : Steps(g, s, <<>>, AnthropicStep) /\ anthropic_messages(s) = g[Len(s)]
  BY AnthropicIs
<1>4. PICK h : Steps(h, Append(s, m), <<>>, AnthropicStep) /\ anthropic_messages(Append(s, m)) = h[Len(s) + 1]
  BY <1>1, AnthropicIs
<1> DEFINE T == Seq(ApiTurn)
           none == <<>>
<1>5. g[Len(s)] \in T /\ h[Len(s) + 1] = AnthropicStep[g[Len(s)]][m]
  <2>1. none \in T /\ Stepping(AnthropicStep, T, ChatMessage)
    BY <1>1, <1>2
  <2>2. Steps(g, s, none, AnthropicStep) /\ Steps(h, Append(s, m), none, AnthropicStep)
    BY <1>3, <1>4
  <2> HIDE DEF T, none
  <2> QED
    BY <2>1, <2>2, StepsMore
<1> QED
  BY <1>3, <1>4, <1>5 DEF AnthropicStep

LEMMA AnthropicNone == anthropic_messages(<<>>) = <<>>
<1>1. <<>> \in Seq(ChatMessage) /\ Len(<<>>) = 0
  BY EmptySeq
<1>2. PICK g : Steps(g, <<>>, <<>>, AnthropicStep) /\ anthropic_messages(<<>>) = g[0]
  BY <1>1, AnthropicIs
<1> QED
  BY <1>2 DEF Steps

LEMMA AnthropicTells ==
  ASSUME NEW s \in Seq(ChatMessage)
  PROVE  Blocks(anthropic_messages(s)) \in Seq(AnyBlock) /\ Tells(Blocks(anthropic_messages(s)), s)
<1> DEFINE Good == {r \in Seq(ChatMessage) : Blocks(anthropic_messages(r)) \in Seq(AnyBlock) /\ Tells(Blocks(anthropic_messages(r)), r)}
<1>1. <<>> \in Good
  <2>1. <<>> \in Seq(ChatMessage) /\ <<>> \in Seq(AnyBlock)
    BY EmptySeq
  <2> QED
    BY <2>1, AnthropicNone, BlocksEmpty, TellsNone
<1>2. ASSUME NEW r \in Seq(ChatMessage), r \in Good, NEW m \in ChatMessage PROVE Append(r, m) \in Good
  <2> DEFINE t == anthropic_messages(r)
             x == Blocks(t)
  <2>1. t \in Seq(ApiTurn) /\ anthropic_messages(Append(r, m)) = anthropic_turn(t, m)
    BY AnthropicMore
  <2>2. x \in Seq(AnyBlock) /\ Tells(x, r)
    BY <1>2
  <2> HIDE DEF t
  <2>3. PICK y \in Seq(AnyBlock) : TellsOne(y, m) /\ Blocks(anthropic_turn(t, m)) = x \o y
    BY <2>1, AnthropicTurn
  <2> HIDE DEF x
  <2>4. x \o y \in Seq(AnyBlock) /\ Tells(x \o y, Append(r, m)) /\ Append(r, m) \in Seq(ChatMessage)
    BY <2>2, <2>3, TellsMore, ConcatProperties, AppendProperties
  <2> QED
    BY <2>1, <2>3, <2>4
<1> HIDE DEF Good
<1>3. s \in Good
  BY <1>1, <1>2, SeqInduction
<1> QED
  BY <1>3 DEF Good

-----------------------------------------------------------------------------
(* Gemini *)

GeminiRequest == [turns : Seq(ApiTurn), names : [Ids -> Names \cup {"tool"}]]
Unasked == [turns |-> <<>>, names |-> [id \in Ids |-> "tool"]]

\* The name each id stands for after a message.
NamesAfter(names, m) ==
  [id \in Ids |-> IF \E c \in Range(m.calls) : c.id = id THEN (CHOOSE c \in Range(m.calls) : c.id = id).name ELSE names[id]]

LEMMA NamesTyped ==
  ASSUME NEW names \in [Ids -> Names \cup {"tool"}], NEW m \in ChatMessage
  PROVE  NamesAfter(names, m) \in [Ids -> Names \cup {"tool"}]
<1> SUFFICES ASSUME NEW id \in Ids, \E c \in Range(m.calls) : c.id = id
             PROVE  (CHOOSE c \in Range(m.calls) : c.id = id).name \in Names
  BY DEF NamesAfter
<1> DEFINE d == CHOOSE c \in Range(m.calls) : c.id = id
<1>1. d \in Range(m.calls)
  OBVIOUS
<1> HIDE DEF d
<1>2. d \in Call
  BY <1>1, MessageIs, ElementOfSeq DEF Range
<1> QED
  BY <1>2 DEF Call, d

LEMMA GeminiParts == ASSUME NEW p \in Seq(Part) PROVE gemini_parts(p) \in Seq(Part) /\ SameParts(gemini_parts(p), p)
<1>1. Len(p) \in Nat /\ DOMAIN p = 1 .. Len(p) /\ \A i \in 1 .. Len(p) : p[i] \in Part
  BY LenProperties, ElementOfSeq
<1> DEFINE SentAs(x) == [x EXCEPT !.kind = IF @ \in {"image", "file"} THEN "inlineData" ELSE "text"]
<1>2. ASSUME NEW x \in Part PROVE SentAs(x) \in Part /\ SentAs(x).at = x.at /\ (x.kind = "image" => SentAs(x).kind \notin TextKinds)
  BY DEF Part, PartKinds, TextKinds
<1>3. gemini_parts(p) = [i \in 1 .. Len(p) |-> SentAs(p[i])]
  BY <1>1 DEF gemini_parts
<1> HIDE DEF SentAs
<1>4. gemini_parts(p) \in [1 .. Len(p) -> Part]
  BY <1>1, <1>2, <1>3
<1>5. gemini_parts(p) \in Seq(Part) /\ Len(gemini_parts(p)) = Len(p)
  BY <1>1, <1>4
<1> QED
  BY <1>1, <1>2, <1>3, <1>5 DEF SameParts, TextKinds

LEMMA GeminiTurn ==
  ASSUME NEW q \in GeminiRequest, NEW m \in ChatMessage
  PROVE  /\ gemini_turn(q, m) \in GeminiRequest
         /\ \E y \in Seq(AnyBlock) : TellsOne(y, m) /\ Blocks(gemini_turn(q, m).turns) = Blocks(q.turns) \o y
<1> DEFINE t == q.turns
<1>0. t \in Seq(ApiTurn) /\ q.names \in [Ids -> Names \cup {"tool"}] /\ q = [turns |-> t, names |-> q.names]
  BY DEF GeminiRequest
<1> HIDE DEF t
<1>1. CASE m.role = "tool"
  <2> DEFINE b == [kind |-> "functionResponse", name |-> q.names[m.of], at |-> m.parts[1].at]
             w == answer_turn(t, b)
  <2>1. b \in NameBlock /\ b.at = m.parts[1].at
    BY <1>0, <1>1, MessageIs DEF NameBlock
  <2>2. gemini_turn(q, m) = [q EXCEPT !.turns = w]
    BY <1>1 DEF gemini_turn, t
  <2> HIDE DEF b
  <2>3. b \in AnyBlock
    BY <2>1 DEF AnyBlock
  <2>4. <<b>> \in Seq(AnyBlock) /\ TellsOne(<<b>>, m)
    BY <1>1, <2>1, TellsResult
  <2>5. Blocks(w) = Blocks(t) \o <<b>> /\ w \in Seq(ApiTurn)
    BY <1>0, <2>3, BlocksAnswer, AnswerTyped
  <2> HIDE DEF w
  <2>6. gemini_turn(q, m).turns = w /\ gemini_turn(q, m) \in GeminiRequest
    BY <2>2, <2>5 DEF GeminiRequest
  <2> QED
    BY <2>4, <2>5, <2>6 DEF t
<1>2. CASE m.role # "tool"
  <2> DEFINE y == gemini_parts(m.parts) \o CallBlocks(m, Len(t), "functionCall")
             u == [role |-> IF m.role = "assistant" THEN "model" ELSE "user", blocks |-> y]
  <2>1. gemini_turn(q, m) = [turns |-> Append(t, u), names |-> NamesAfter(q.names, m)]
    BY <1>2 DEF gemini_turn, NamesAfter, t
  <2>2. gemini_parts(m.parts) \in Seq(Part) /\ SameParts(gemini_parts(m.parts), m.parts) /\ Len(t) \in Nat
        /\ "functionCall" \in CallKinds
    BY <1>0, MessageIs, GeminiParts, LenProperties DEF CallKinds
  <2>3. y \in Seq(AnyBlock) /\ TellsOne(y, m)
    BY <2>2, TellsSaid
  <2> HIDE DEF y
  <2>4. u \in ApiTurn /\ u.blocks = y
    BY <2>3 DEF ApiTurn
  <2> HIDE DEF u
  <2>5. Append(t, u) \in Seq(ApiTurn) /\ Blocks(Append(t, u)) = Blocks(t) \o y
    BY <1>0, <2>4, AppendProperties, TurnsHold, BlocksAppend
  <2>6. NamesAfter(q.names, m) \in [Ids -> Names \cup {"tool"}]
    BY <1>0, NamesTyped
  <2>7. gemini_turn(q, m) \in GeminiRequest /\ gemini_turn(q, m).turns = Append(t, u)
    BY <2>1, <2>5, <2>6 DEF GeminiRequest
  <2> QED
    BY <2>3, <2>5, <2>7 DEF t
<1> QED
  BY <1>1, <1>2

GeminiStep == [q \in GeminiRequest |-> [m \in ChatMessage |-> gemini_turn(q, m)]]
GeminiRun(g, s) == g = [n \in 0 .. Len(s) |-> IF n = 0 THEN Unasked ELSE gemini_turn(g[n - 1], s[n])]

LEMMA GeminiIs ==
  ASSUME NEW s \in Seq(ChatMessage)
  PROVE  /\ GeminiStep \in [GeminiRequest -> [ChatMessage -> GeminiRequest]]
         /\ \E g : Steps(g, s, Unasked, GeminiStep) /\ gemini_messages(s) = g[Len(s)]
<1>1. GeminiStep \in [GeminiRequest -> [ChatMessage -> GeminiRequest]]
  BY GeminiTurn DEF GeminiStep
<1>2. Unasked \in GeminiRequest /\ Len(s) \in Nat
  BY EmptySeq, LenProperties DEF Unasked, GeminiRequest
<1> DEFINE n == Len(s)
           g == CHOOSE f : GeminiRun(f, s)
<1>3. \E f : GeminiRun(f, s)
  <2>1. PICK f \in [0 .. n -> GeminiRequest] : Steps(f, s, Unasked, GeminiStep)
    BY <1>1, <1>2, StepsExist
  <2>2. ASSUME NEW i \in 0 .. n PROVE f[i] = IF i = 0 THEN Unasked ELSE gemini_turn(f[i - 1], s[i])
    <3>1. CASE i = 0
      BY <2>1, <3>1 DEF Steps
    <3>2. CASE i # 0
      <4>1. i \in 1 .. n /\ i - 1 \in 0 .. n
        BY <1>2, <3>2
      <4>2. f[i - 1] \in GeminiRequest /\ s[i] \in ChatMessage
        BY <4>1, ElementOfSeq
      <4>3. f[i] = GeminiStep[f[i - 1]][s[i]]
        BY <2>1, <4>1 DEF Steps
      <4> QED
        BY <3>2, <4>2, <4>3 DEF GeminiStep
    <3> QED
      BY <3>1, <3>2
  <2>3. f = [i \in 0 .. n |-> IF i = 0 THEN Unasked ELSE gemini_turn(f[i - 1], s[i])]
    BY <2>1, <2>2
  <2> QED
    BY <2>3 DEF GeminiRun
<1>4. GeminiRun(g, s)
  BY <1>3
<1>5. gemini_messages(s) = g[n]
  BY DEF gemini_messages, GeminiRun, Unasked
<1> HIDE DEF g
<1>6. /\ g[0] = Unasked
      /\ \A i \in 1 .. n : g[i] = gemini_turn(g[i - 1], s[i])
  BY <1>2, <1>4 DEF GeminiRun
<1>7. \A i \in Nat : i <= n => g[i] \in GeminiRequest
  <2> DEFINE Good == {i \in Nat : i <= n => g[i] \in GeminiRequest}
  <2>1. 0 \in Good
    BY <1>2, <1>6
  <2>2. ASSUME NEW i \in Nat, i \in Good PROVE i + 1 \in Good
    <3> SUFFICES ASSUME i + 1 <= n PROVE g[i + 1] \in GeminiRequest
      OBVIOUS
    <3>1. i + 1 \in 1 .. n /\ (i + 1) - 1 = i /\ i <= n
      BY <1>2
    <3>2. g[i] \in GeminiRequest /\ s[i + 1] \in ChatMessage
      BY <2>2, <3>1, ElementOfSeq
    <3>3. gemini_turn(g[i], s[i + 1]) \in GeminiRequest
      BY <3>2, GeminiTurn
    <3> QED
      BY <1>6, <3>1, <3>3
  <2> HIDE DEF Good
  <2>3. \A i \in Nat : i \in Good
    <3>1. \A i \in Nat : i \in Good => i + 1 \in Good
      BY <2>2
    <3> QED
      BY <2>1, <3>1, NatSetInduction
  <2> QED
    BY <2>3 DEF Good
<1>8. Steps(g, s, Unasked, GeminiStep)
  <2> SUFFICES ASSUME NEW i \in 1 .. n PROVE g[i] = GeminiStep[g[i - 1]][s[i]]
    BY <1>6 DEF Steps
  <2>1. i - 1 \in Nat /\ i - 1 <= n
    BY <1>2
  <2>2. g[i - 1] \in GeminiRequest /\ s[i] \in ChatMessage
    BY <1>7, <2>1, ElementOfSeq
  <2> QED
    BY <1>6, <2>2 DEF GeminiStep
<1> QED
  BY <1>1, <1>5, <1>8

LEMMA GeminiMore ==
  ASSUME NEW s \in Seq(ChatMessage), NEW m \in ChatMessage
  PROVE  /\ gemini_messages(s) \in GeminiRequest
         /\ gemini_messages(Append(s, m)) = gemini_turn(gemini_messages(s), m)
<1>1. Append(s, m) \in Seq(ChatMessage) /\ Len(Append(s, m)) = Len(s) + 1 /\ Unasked \in GeminiRequest
  BY AppendProperties, EmptySeq DEF Unasked, GeminiRequest
<1>2. Stepping(GeminiStep, GeminiRequest, ChatMessage)
  BY <1>1, GeminiIs DEF Stepping
<1>3. PICK g : Steps(g, s, Unasked, GeminiStep) /\ gemini_messages(s) = g[Len(s)]
  BY GeminiIs
<1>4. PICK h : Steps(h, Append(s, m), Unasked, GeminiStep) /\ gemini_messages(Append(s, m)) = h[Len(s) + 1]
  BY <1>1, GeminiIs
<1>5. g[Len(s)] \in GeminiRequest /\ h[Len(s) + 1] = GeminiStep[g[Len(s)]][m]
  BY <1>1, <1>2, <1>3, <1>4, StepsMore
<1> QED
  BY <1>3, <1>4, <1>5 DEF GeminiStep

LEMMA GeminiNone == gemini_messages(<<>>) = Unasked
<1>1. <<>> \in Seq(ChatMessage) /\ Len(<<>>) = 0
  BY EmptySeq
<1>2. PICK g : Steps(g, <<>>, Unasked, GeminiStep) /\ gemini_messages(<<>>) = g[0]
  BY <1>1, GeminiIs
<1> QED
  BY <1>2 DEF Steps

LEMMA GeminiTells ==
  ASSUME NEW s \in Seq(ChatMessage)
  PROVE  Blocks(gemini_messages(s).turns) \in Seq(AnyBlock) /\ Tells(Blocks(gemini_messages(s).turns), s)
<1> DEFINE Good == {r \in Seq(ChatMessage) : Blocks(gemini_messages(r).turns) \in Seq(AnyBlock) /\ Tells(Blocks(gemini_messages(r).turns), r)}
<1>1. <<>> \in Good
  <2>1. <<>> \in Seq(ChatMessage) /\ <<>> \in Seq(AnyBlock)
    BY EmptySeq
  <2>2. Unasked.turns = <<>>
    BY DEF Unasked
  <2> QED
    BY <2>1, <2>2, GeminiNone, BlocksEmpty, TellsNone
<1>2. ASSUME NEW r \in Seq(ChatMessage), r \in Good, NEW m \in ChatMessage PROVE Append(r, m) \in Good
  <2> DEFINE t == gemini_messages(r)
             x == Blocks(t.turns)
  <2>1. t \in GeminiRequest /\ gemini_messages(Append(r, m)) = gemini_turn(t, m)
    BY GeminiMore
  <2>2. x \in Seq(AnyBlock) /\ Tells(x, r)
    BY <1>2
  <2> HIDE DEF t
  <2>3. PICK y \in Seq(AnyBlock) : TellsOne(y, m) /\ Blocks(gemini_turn(t, m).turns) = x \o y
    BY <2>1, GeminiTurn
  <2> HIDE DEF x
  <2>4. x \o y \in Seq(AnyBlock) /\ Tells(x \o y, Append(r, m)) /\ Append(r, m) \in Seq(ChatMessage)
    BY <2>2, <2>3, TellsMore, ConcatProperties, AppendProperties
  <2> QED
    BY <2>1, <2>3, <2>4
<1> HIDE DEF Good
<1>3. s \in Good
  BY <1>1, <1>2, SeqInduction
<1> QED
  BY <1>3 DEF Good

-----------------------------------------------------------------------------
(* Codex *)

\* What is not an instruction.
Ordinary == {m \in ChatMessage : m.role \notin Instructing}

LEMMA OneHolds == ASSUME NEW h \in Holder PROVE <<h>> \in Seq(Holder) /\ Blocks(<<h>>) = h.blocks
<1>1. <<>> \in Seq(Holder) /\ <<h>> = Append(<<>>, h) /\ <<h>> \in Seq(Holder)
  BY EmptySeq
<1>2. Blocks(<<h>>) = <<>> \o h.blocks
  BY <1>1, BlocksAppend, BlocksEmpty
<1>3. <<>> \o h.blocks = h.blocks
  BY HolderIs, ConcatEmptySeq
<1> QED
  BY <1>1, <1>2, <1>3

\* Items of one block each are those blocks.
LEMMA SinglesHold ==
  ASSUME NEW c \in Seq(CallBlock), NEW t, DOMAIN t = DOMAIN c, \A i \in DOMAIN c : t[i].blocks = <<c[i]>>
  PROVE  Blocks(t) = c
<1>1. [i \in DOMAIN t |-> t[i].blocks] = [i \in DOMAIN c |-> <<c[i]>>]
  OBVIOUS
<1>2. \A i \in DOMAIN c : c[i] \in CallBlock
  BY ElementOfSeq
<1>3. [i \in DOMAIN c |-> IF c[i] \in CallBlock THEN <<c[i]>> ELSE <<>>] = [i \in DOMAIN c |-> <<c[i]>>]
  BY <1>2
<1>4. Those(c, CallBlock) = c
  BY ThoseAll
<1> QED
  BY <1>1, <1>3, <1>4 DEF Blocks, Those

LEMMA UserItem ==
  ASSUME NEW m \in ChatMessage
  PROVE  user_item(m) \in CodexItem /\ user_item(m).type = "user" /\ user_item(m).blocks \in Seq(Part)
         /\ SameParts(user_item(m).blocks, m.parts)
<1> DEFINE p == m.parts
           SentAs(x) == [x EXCEPT !.kind = IF @ \in {"image", "link"} THEN "input_image" ELSE "input_text"]
           b == [i \in 1 .. Len(p) |-> SentAs(p[i])]
<1>1. p \in Seq(Part) /\ Len(p) \in Nat /\ DOMAIN p = 1 .. Len(p) /\ \A i \in 1 .. Len(p) : p[i] \in Part
  BY MessageIs, LenProperties, ElementOfSeq
<1>2. ASSUME NEW x \in Part PROVE SentAs(x) \in Part /\ SentAs(x).at = x.at /\ (x.kind = "image" => SentAs(x).kind \notin TextKinds)
  BY DEF Part, PartKinds, TextKinds
<1>3. user_item(m) = [type |-> "user", blocks |-> b]
  BY <1>1 DEF user_item
<1> HIDE DEF SentAs
<1>4. b \in [1 .. Len(p) -> Part]
  BY <1>1, <1>2
<1>5. b \in Seq(Part) /\ Len(b) = Len(p)
  BY <1>1, <1>4
<1>6. SameParts(b, p)
  BY <1>1, <1>2, <1>5 DEF SameParts, TextKinds
<1> HIDE DEF b
<1>7. b \in Seq(AnyBlock)
  BY <1>5 DEF AnyBlock
<1>8. user_item(m) \in CodexItem
  BY <1>3, <1>7 DEF CodexItem
<1> QED
  BY <1>3, <1>5, <1>6, <1>8

LEMMA ItemsOne ==
  ASSUME NEW m \in Ordinary
  PROVE  /\ items_of(m) \in Seq(CodexItem) /\ Blocks(items_of(m)) \in Seq(AnyBlock) /\ TellsOne(Blocks(items_of(m)), m)
         /\ m.role \in {"user", "tool"} => /\ items_of(m) = <<items_of(m)[1]>> /\ items_of(m)[1] \in CodexItem
                                           /\ items_of(m)[1].type = IF m.role = "user" THEN "user" ELSE "function_call_output"
<1>0. m \in ChatMessage /\ m.role \in {"user", "assistant", "tool"}
  BY MessageIs DEF Ordinary, Instructing, Roles
<1>h. ASSUME NEW h \in CodexItem, TellsOne(h.blocks, m)
      PROVE  /\ <<h>> \in Seq(CodexItem) /\ Blocks(<<h>>) \in Seq(AnyBlock) /\ TellsOne(Blocks(<<h>>), m)
             /\ <<h>> = <<<<h>>[1]>> /\ <<h>>[1] = h
  <2>1. h \in Holder
    BY DEF Holder
  <2> QED
    BY <1>h, <2>1, OneHolds, HolderIs
<1>1. CASE m.role = "tool"
  <2> DEFINE b == [kind |-> "result", id |-> m.of, at |-> m.parts[1].at]
             h == [type |-> "function_call_output", blocks |-> <<b>>]
  <2>1. b \in IdBlock /\ b.at = m.parts[1].at
    BY <1>0, <1>1, MessageIs DEF IdBlock
  <2>2. items_of(m) = <<h>>
    BY <1>1 DEF items_of
  <2> HIDE DEF b
  <2>3. <<b>> \in Seq(AnyBlock) /\ TellsOne(<<b>>, m)
    BY <1>0, <1>1, <2>1, TellsResult
  <2>4. h \in CodexItem /\ h.blocks = <<b>> /\ h.type = "function_call_output"
    BY <2>3 DEF CodexItem
  <2> HIDE DEF h
  <2> QED
    BY <1>h, <1>1, <2>2, <2>3, <2>4
<1>2. CASE m.role = "user"
  <2> DEFINE h == user_item(m)
  <2>1. items_of(m) = <<h>>
    BY <1>2 DEF items_of
  <2>2. h \in CodexItem /\ h.type = "user" /\ h.blocks \in Seq(Part) /\ SameParts(h.blocks, m.parts)
    BY <1>0, UserItem
  <2> HIDE DEF h
  <2>3. m.calls = <<>>
    BY <1>0, <1>2, MessageIs
  <2>4. h.blocks \in Seq(Part \cup IdBlock \cup NameBlock)
    BY <2>2
  <2>5. Called(h.blocks) = <<>> /\ Spoken(h.blocks) = h.blocks
    BY <2>4, SplitPlain
  <2>6. TellsOne(h.blocks, m)
    BY <2>2, <2>3, <2>5 DEF TellsOne, SameCalls
  <2> QED
    BY <1>h, <1>2, <2>1, <2>2, <2>6
<1>3. CASE m.role = "assistant"
  <2> DEFINE c == CallBlocks(m, 0, "call")
             t == [i \in DOMAIN m.calls |-> [type |-> "function_call", blocks |-> <<c[i]>>]]
             h == [type |-> "assistant", blocks |-> m.parts]
             w == IF m.parts = <<>> THEN <<>> ELSE <<h>>
  <2>1. items_of(m) = w \o t
    BY <1>3 DEF items_of
  <2>2. c \in Seq(CallBlock) /\ Len(c) = Len(m.calls) /\ m.parts \in Seq(Part) /\ DOMAIN m.calls = 1 .. Len(m.calls)
        /\ Len(m.calls) \in Nat
    BY <1>0, CallBlocksAre, MessageIs, LenProperties DEF CallKinds
  <2>3. m.parts \o c \in Seq(AnyBlock) /\ TellsOne(m.parts \o c, m)
    <3>1. SameParts(m.parts, m.parts)
      BY DEF SameParts, TextKinds
    <3> QED
      BY <1>0, <2>2, <3>1, TellsSaid DEF CallKinds
  <2> HIDE DEF c
  <2>4. DOMAIN c = DOMAIN m.calls /\ \A i \in DOMAIN c : c[i] \in CallBlock
    BY <2>2, LenProperties, ElementOfSeq
  <2>5. t \in Seq(CodexItem) /\ DOMAIN t = DOMAIN c /\ \A i \in DOMAIN c : t[i].blocks = <<c[i]>>
    <3>1. \A i \in DOMAIN c : <<c[i]>> \in Seq(AnyBlock)
      BY <2>4 DEF AnyBlock
    <3>2. \A i \in DOMAIN c : [type |-> "function_call", blocks |-> <<c[i]>>] \in CodexItem
      BY <3>1 DEF CodexItem
    <3>3. t \in [1 .. Len(m.calls) -> CodexItem]
      BY <2>2, <2>4, <3>2
    <3> QED
      BY <2>2, <2>4, <3>3
  <2> HIDE DEF t
  <2>6. Blocks(t) = c
    BY <2>2, <2>5, SinglesHold
  <2>7. w \in Seq(CodexItem) /\ Blocks(w) = m.parts
    <3>1. CASE m.parts = <<>>
      BY <3>1, EmptySeq, BlocksEmpty
    <3>2. CASE m.parts # <<>>
      <4>1. m.parts \in Seq(AnyBlock)
        BY <2>2 DEF AnyBlock
      <4>2. h \in CodexItem /\ h.blocks = m.parts
        BY <4>1 DEF CodexItem
      <4> HIDE DEF h
      <4>3. h \in Holder /\ <<h>> \in Seq(CodexItem)
        BY <4>2 DEF Holder
      <4> QED
        BY <3>2, <4>2, <4>3, OneHolds
    <3> QED
      BY <3>1, <3>2
  <2> HIDE DEF w
  <2>8. w \in Seq(Holder) /\ t \in Seq(Holder)
    BY <2>5, <2>7 DEF Holder
  <2>9. Blocks(w \o t) = m.parts \o c /\ w \o t \in Seq(CodexItem)
    BY <2>5, <2>6, <2>7, <2>8, BlocksConcat, ConcatProperties
  <2> QED
    BY <1>3, <2>1, <2>3, <2>9
<1> QED
  BY <1>0, <1>1, <1>2, <1>3

ItemsIn == [m \in Ordinary |-> items_of(m)]

LEMMA ItemsAre ==
  ASSUME NEW s \in Seq(Ordinary)
  PROVE  Gives(ItemsIn, Ordinary, CodexItem) /\ Items(s) = Mapped(s, ItemsIn)
<1>1. Gives(ItemsIn, Ordinary, CodexItem)
  BY ItemsOne DEF Gives, ItemsIn
<1>2. \A i \in DOMAIN s : s[i] \in Ordinary
  BY ElementOfSeq
<1>3. [i \in DOMAIN s |-> items_of(s[i])] = [i \in DOMAIN s |-> ItemsIn[s[i]]]
  BY <1>2 DEF ItemsIn
<1> QED
  BY <1>1, <1>3 DEF Items, Mapped

LEMMA ItemsAppend ==
  ASSUME NEW s \in Seq(Ordinary), NEW m \in Ordinary
  PROVE  Items(s) \in Seq(CodexItem) /\ Items(Append(s, m)) = Items(s) \o items_of(m)
<1>1. Append(s, m) \in Seq(Ordinary) /\ ItemsIn[m] = items_of(m)
  BY AppendProperties DEF ItemsIn
<1>2. Mapped(s, ItemsIn) \in Seq(CodexItem) /\ Mapped(Append(s, m), ItemsIn) = Mapped(s, ItemsIn) \o ItemsIn[m]
  BY ItemsAre, MappedAppend
<1> QED
  BY <1>1, <1>2, ItemsAre

LEMMA ItemsHold == ASSUME NEW t \in Seq(CodexItem) PROVE t \in Seq(Holder)
BY DEF Holder

LEMMA ItemsTell ==
  ASSUME NEW s \in Seq(Ordinary)
  PROVE  Blocks(Items(s)) \in Seq(AnyBlock) /\ Tells(Blocks(Items(s)), s)
<1> DEFINE Good == {r \in Seq(Ordinary) : Blocks(Items(r)) \in Seq(AnyBlock) /\ Tells(Blocks(Items(r)), r)}
<1>1. <<>> \in Good
  <2>1. <<>> \in Seq(Ordinary) /\ <<>> \in Seq(AnyBlock)
    BY EmptySeq
  <2>2. Items(<<>>) = <<>>
    BY <2>1, ItemsAre, MappedEmpty
  <2> QED
    BY <2>1, <2>2, BlocksEmpty, TellsNone
<1>2. ASSUME NEW r \in Seq(Ordinary), r \in Good, NEW m \in Ordinary PROVE Append(r, m) \in Good
  <2> DEFINE t == Items(r)
             w == items_of(m)
             x == Blocks(t)
             y == Blocks(w)
  <2>1. t \in Seq(CodexItem) /\ w \in Seq(CodexItem) /\ Items(Append(r, m)) = t \o w
    BY ItemsAppend, ItemsOne
  <2>2. x \in Seq(AnyBlock) /\ Tells(x, r) /\ y \in Seq(AnyBlock) /\ TellsOne(y, m)
    BY <1>2, ItemsOne
  <2> HIDE DEF t, w
  <2>3. Blocks(t \o w) = x \o y
    BY <2>1, ItemsHold, BlocksConcat
  <2> HIDE DEF x, y
  <2>4. r \in Seq(ChatMessage) /\ m \in ChatMessage /\ Append(r, m) \in Seq(Ordinary)
    BY AppendProperties DEF Ordinary
  <2>5. x \o y \in Seq(AnyBlock) /\ Tells(x \o y, Append(r, m))
    BY <2>2, <2>4, TellsMore, ConcatProperties
  <2> QED
    BY <2>1, <2>3, <2>4, <2>5
<1> HIDE DEF Good
<1>3. s \in Good
  BY <1>1, <1>2, SeqInduction
<1> QED
  BY <1>3 DEF Good

LEMMA FrontIs == ASSUME NEW S, NEW r \in Seq(S), NEW e \in S PROVE Front(Append(r, e)) = r
<1> DEFINE a == Append(r, e)
           n == Len(r)
           f == SubSeq(a, 1, n)
<1>1. n \in Nat /\ a \in Seq(S) /\ Len(a) = n + 1 /\ \A i \in 1 .. n : a[i] = r[i]
  BY AppendProperties, LenProperties
<1>2. Front(a) = f
  <2>1. Len(a) - 1 = n
    BY <1>1
  <2> HIDE DEF a, n
  <2> QED
    BY <2>1 DEF Front
<1> HIDE DEF a
<1>3. f \in Seq(S) /\ Len(f) = n /\ \A i \in 1 .. n : f[i] = a[i]
  <2>1. \A i \in 1 .. n : i \in 1 .. Len(a)
    BY <1>1
  <2>2. \A i \in 1 .. n : a[i] \in S
    BY <1>1, <2>1, ElementOfSeq
  <2> HIDE DEF n
  <2> QED
    BY <1>1, <2>2
<1> HIDE DEF f
<1>4. f = r
  BY <1>1, <1>3, SeqEqual
<1> QED
  BY <1>2, <1>4 DEF a

\* The last message is the turn's input, and all before it the history.
LEMMA ConversationOf ==
  ASSUME NEW r \in Seq(Ordinary), NEW m \in Ordinary, m.role \in {"user", "tool"}, Without(Instructing) = Append(r, m)
  PROVE  /\ conversation_of.system = Hoisted(Instructing)
         /\ Blocks(conversation_of.history) \in Seq(AnyBlock) /\ conversation_of.prompt \in Seq(AnyBlock)
         /\ Blocks(conversation_of.history) \o conversation_of.prompt = Blocks(Items(Append(r, m)))
<1> DEFINE items == Items(Append(r, m))
           h == items_of(m)[1]
           t == Items(r)
<1>1. /\ t \in Seq(CodexItem) /\ items = t \o items_of(m) /\ items_of(m) = <<h>> /\ h \in CodexItem
      /\ h.type = IF m.role = "user" THEN "user" ELSE "function_call_output"
  BY ItemsAppend, ItemsOne
<1>2. items = Append(t, h)
  BY <1>1, AppendIsConcat
<1>3. conversation_of =
        IF items = <<>> \/ Last(items).type \notin {"user", "function_call_output"} THEN prompt_of
        ELSE [system |-> Hoisted(Instructing), history |-> history_of(items),
              prompt |-> IF Last(items).type = "user" THEN Last(items).blocks ELSE <<>>]
  BY DEF conversation_of
<1>4. Blocks(items) \in Seq(AnyBlock)
  <2>1. Append(r, m) \in Seq(Ordinary)
    BY AppendProperties
  <2> QED
    BY <2>1, ItemsTell
<1> HIDE DEF items, h, t
<1>5. items # <<>> /\ Last(items) = h /\ h.type \in {"user", "function_call_output"} /\ Front(items) = t
  <2>1. Last(Append(t, h)) = h /\ Append(t, h) # <<>>
    BY <1>1, LastIs
  <2>2. Front(Append(t, h)) = t
    BY <1>1, FrontIs
  <2>3. h.type \in {"user", "function_call_output"}
    BY <1>1
  <2> QED
    BY ONLY <1>2, <2>1, <2>2, <2>3
<1>6. conversation_of = [system |-> Hoisted(Instructing), history |-> history_of(items),
                         prompt |-> IF h.type = "user" THEN h.blocks ELSE <<>>]
  BY <1>3, <1>5
<1>7. Blocks(t) \in Seq(AnyBlock) /\ Blocks(items) = Blocks(t) \o h.blocks /\ h.blocks \in Seq(AnyBlock)
  <2>1. h \in Holder
    BY <1>1 DEF Holder
  <2> QED
    BY <1>1, <1>2, <2>1, ItemsHold, BlocksAppend, HolderIs
<1>8. CASE h.type = "user"
  <2>1. history_of(items) = t
    BY <1>5, <1>8 DEF history_of
  <2> QED
    BY <1>6, <1>7, <1>8, <2>1 DEF items
<1>9. CASE h.type # "user"
  <2>1. history_of(items) = items
    BY <1>5, <1>9 DEF history_of
  <2>2. Blocks(items) \o <<>> = Blocks(items) /\ <<>> \in Seq(AnyBlock)
    BY <1>4, ConcatEmptySeq, EmptySeq
  <2> QED
    BY <1>4, <1>6, <1>9, <2>1, <2>2 DEF items
<1> QED
  BY <1>8, <1>9

-----------------------------------------------------------------------------
(* The conversation *)

LEMMA ThoseIn == ASSUME NEW S, NEW T, NEW s \in Seq(S) PROVE Those(s, T) \in Seq(S \cap T)
<1> DEFINE U == S \cap T
           Good == {r \in Seq(S) : Those(r, T) \in Seq(U)}
<1>1. <<>> \in Good
  BY EmptySeq, ThoseEmpty
<1>2. ASSUME NEW r \in Seq(S), r \in Good, NEW e \in S PROVE Append(r, e) \in Good
  <2>1. Only(e, T) \in Seq(U)
    <3>1. \A x \in U : <<x>> \in Seq(U)
      OBVIOUS
    <3>2. <<>> \in Seq(U)
      BY EmptySeq
    <3>3. e \in T => e \in U
      OBVIOUS
    <3> HIDE DEF U
    <3> QED
      BY <3>1, <3>2, <3>3 DEF Only
  <2>2. Append(r, e) \in Seq(S) /\ Those(Append(r, e), T) = Those(r, T) \o Only(e, T)
    BY AppendProperties, ThoseAppend
  <2> HIDE DEF U
  <2>3. Those(r, T) \o Only(e, T) \in Seq(U)
    BY <1>2, <2>1, ConcatProperties
  <2> QED
    BY <2>2, <2>3
<1> HIDE DEF Good
<1>3. s \in Good
  BY <1>1, <1>2, SeqInduction
<1> QED
  BY <1>3 DEF Good

\* Without a message that called nothing the calls are the same.
LEMMA CallsKept ==
  ASSUME NEW s \in Seq(ChatMessage), NEW T, \A m \in ChatMessage : m \notin T => m.calls = <<>>
  PROVE  CallsOf(Those(s, T)) = CallsOf(s)
<1> DEFINE Good == {r \in Seq(ChatMessage) : CallsOf(Those(r, T)) = CallsOf(r)}
<1>1. <<>> \in Good
  BY EmptySeq, ThoseEmpty
<1>2. ASSUME NEW r \in Seq(ChatMessage), r \in Good, NEW m \in ChatMessage PROVE Append(r, m) \in Good
  <2> DEFINE w == Those(r, T)
             a == Append(r, m)
  <2>1. w \in Seq(ChatMessage) /\ a \in Seq(ChatMessage) /\ Those(a, T) = w \o Only(m, T)
    BY ThoseSeq, ThoseAppend, AppendProperties
  <2>2. CallsOf(a) = CallsOf(r) \o m.calls /\ CallsOf(w) = CallsOf(r) /\ CallsOf(r) \in Seq(Call)
    BY <1>2, ListedAppend
  <2> HIDE DEF w, a
  <2>3. CallsOf(Those(a, T)) = CallsOf(a)
    <3>1. CASE m \in T
      <4>1. Those(a, T) = Append(w, m)
        BY <2>1, <3>1, AppendIsConcat DEF Only
      <4> QED
        BY <2>1, <2>2, <4>1, ListedAppend
    <3>2. CASE m \notin T
      <4>1. Those(a, T) = w /\ m.calls = <<>>
        BY <2>1, <3>2, ConcatEmptySeq DEF Only
      <4>2. CallsOf(r) \o <<>> = CallsOf(r)
        BY <2>2, ConcatEmptySeq
      <4> QED
        BY <2>2, <4>1, <4>2
    <3> QED
      BY <3>1, <3>2
  <2> QED
    BY <2>1, <2>3 DEF a
<1> HIDE DEF Good
<1>3. s \in Good
  BY <1>1, <1>2, SeqInduction
<1> QED
  BY <1>3 DEF Good

Otherwise(roles) == {m \in ChatMessage : m.role \notin roles}

LEMMA WithoutIs ==
  ASSUME conversation \in Seq(ChatMessage), NEW roles
  PROVE  /\ Without(roles) = Those(conversation, Otherwise(roles)) /\ Without(roles) \in Seq(Otherwise(roles))
         /\ Without(roles) \in Seq(ChatMessage) /\ Hoisted(roles) \in Seq(Part)
<1>1. \A i \in DOMAIN conversation : conversation[i] \in ChatMessage /\ conversation[i] \in Range(conversation)
  BY ElementOfSeq DEF Range
<1>2. Without(roles) = Those(conversation, Otherwise(roles))
  <2>1. \A i \in DOMAIN conversation :
          conversation[i] \in {m \in Range(conversation) : m.role \notin roles} <=> conversation[i] \in Otherwise(roles)
    BY <1>1 DEF Otherwise
  <2> QED
    BY <2>1, ThoseSame DEF Without
<1>3. Hoisted(roles) \in Seq(Part)
  <2>1. Those(conversation, {m \in Range(conversation) : m.role \in roles}) \in Seq(ChatMessage)
    BY ThoseSeq
  <2> QED
    BY <2>1, ListedSeq DEF Hoisted
<1>4. Without(roles) \in Seq(ChatMessage \cap Otherwise(roles)) /\ Without(roles) \in Seq(ChatMessage)
  BY <1>2, ThoseIn, ThoseSeq
<1>5. ChatMessage \cap Otherwise(roles) = Otherwise(roles)
  BY DEF Otherwise
<1> QED
  BY <1>2, <1>3, <1>4, <1>5

\* Blocks that tell of all but the instructions, after the instructions, are the whole conversation.
LEMMA WholeTold ==
  ASSUME conversation \in Seq(ChatMessage), NEW first \in SUBSET Instructing, NEW x \in Seq(AnyBlock), Tells(x, Without(first))
  PROVE  Whole(Hoisted(first) \o x, first)
<1> DEFINE p == Hoisted(first)
           w == Without(first)
<1>1. p \in Seq(Part) /\ w \in Seq(ChatMessage) /\ w = Those(conversation, Otherwise(first))
  BY WithoutIs
<1>2. CallsOf(w) = CallsOf(conversation) /\ CallsOf(w) \in Seq(Call)
  <2>1. \A m \in ChatMessage : m \notin Otherwise(first) => m.calls = <<>>
    BY MessageIs DEF Otherwise, Instructing
  <2> QED
    BY <1>1, <2>1, CallsKept, ListedSeq
<1>3. p \in Seq(AnyBlock) /\ Called(p) = <<>> /\ Spoken(p) = p
  <2>1. p \in Seq(Part \cup IdBlock \cup NameBlock)
    BY <1>1
  <2> HIDE DEF p
  <2> QED
    BY <2>1, SplitPlain
<1>4. Called(p \o x) = <<>> \o Called(x) /\ Spoken(p \o x) = p \o Spoken(x) /\ Called(x) \in Seq(AnyBlock) /\ Spoken(x) \in Seq(AnyBlock)
  BY <1>3, SplitConcat, SplitSeq
<1>5. Called(p \o x) = Called(x)
  BY <1>4, ConcatEmptySeq
<1>6. SameParts(p \o Spoken(x), p \o Parts(w))
  <2>1. SameParts(p, p) /\ Parts(w) \in Seq(Part) /\ SameParts(Spoken(x), Parts(w))
    BY <1>1, ListedSeq DEF SameParts, TextKinds, Tells
  <2> HIDE DEF p, w
  <2> QED
    BY <1>1, <1>3, <1>4, <2>1, SameConcat
<1>7. SameCalls(Called(x), FlattenSeq([i \in DOMAIN conversation |-> conversation[i].calls]))
  BY <1>2 DEF Tells, CallsOf
<1> QED
  BY <1>4, <1>5, <1>6, <1>7 DEF Whole

ConversationTyped == conversation \in Seq(ChatMessage) /\ open \subseteq Ids

LEMMA WholeRequest == ASSUME ConversationTyped PROVE RequestWhole
<1> SUFFICES ASSUME Ready
             PROVE  /\ Whole(Said(Anthropic), {"system"}) /\ Whole(Said(Gemini), Instructing)
                    /\ Whole(SaidToCodex(conversation_of), Instructing)
  BY DEF RequestWhole
<1>0. conversation \in Seq(ChatMessage) /\ {"system"} \in SUBSET Instructing /\ Instructing \in SUBSET Instructing
  BY DEF ConversationTyped, Instructing
<1>1. Whole(Said(Anthropic), {"system"})
  <2> DEFINE x == Blocks(anthropic_messages(Without({"system"})))
  <2>1. x \in Seq(AnyBlock) /\ Tells(x, Without({"system"}))
    BY <1>0, WithoutIs, AnthropicTells
  <2>2. Said(Anthropic) = Hoisted({"system"}) \o x
    BY DEF Said, Anthropic
  <2> HIDE DEF x
  <2> QED
    BY <1>0, <2>1, <2>2, WholeTold
<1>2. Whole(Said(Gemini), Instructing)
  <2> DEFINE x == Blocks(gemini_messages(Without(Instructing)).turns)
  <2>1. x \in Seq(AnyBlock) /\ Tells(x, Without(Instructing))
    BY <1>0, WithoutIs, GeminiTells
  <2>2. Said(Gemini) = Hoisted(Instructing) \o x
    BY DEF Said, Gemini
  <2> HIDE DEF x
  <2> QED
    BY <1>0, <2>1, <2>2, WholeTold
<1>3. Whole(SaidToCodex(conversation_of), Instructing)
  <2>1. PICK s \in Seq(ChatMessage), m \in ChatMessage : conversation = Append(s, m)
    <3>1. conversation # <<>>
      BY DEF Ready
    <3> QED
      BY <1>0, <3>1, SequenceEmptyOrAppend
  <2>2. m.role \in {"user", "tool"} /\ m \in Ordinary
    <3>1. Last(conversation) = m
      BY <2>1, LastIs
    <3> QED
      BY <3>1 DEF Ready, Ordinary, Instructing
  <2>3. Otherwise(Instructing) = Ordinary
    BY DEF Otherwise, Ordinary
  <2> DEFINE r == Those(s, Ordinary)
  <2>4. Without(Instructing) = Append(r, m) /\ r \in Seq(Ordinary) /\ Append(r, m) \in Seq(Ordinary)
    <3>1. Without(Instructing) = r \o Only(m, Ordinary)
      BY <1>0, <2>1, <2>3, WithoutIs, ThoseAppend
    <3>2. r \in Seq(ChatMessage \cap Ordinary)
      BY ThoseIn
    <3>3. ChatMessage \cap Ordinary = Ordinary
      BY DEF Ordinary
    <3>4. r \in Seq(Ordinary)
      BY <3>2, <3>3
    <3> HIDE DEF r
    <3>5. Append(r, m) = r \o <<m>> /\ Append(r, m) \in Seq(Ordinary)
      BY <2>2, <3>4, AppendIsConcat, AppendProperties
    <3> QED
      BY <2>2, <3>1, <3>4, <3>5 DEF Only
  <2> HIDE DEF r
  <2> DEFINE x == Blocks(conversation_of.history)
             y == conversation_of.prompt
             p == Hoisted(Instructing)
  <2>5. conversation_of.system = p /\ x \in Seq(AnyBlock) /\ y \in Seq(AnyBlock) /\ x \o y = Blocks(Items(Append(r, m)))
    BY <2>2, <2>4, ConversationOf
  <2>6. x \o y \in Seq(AnyBlock) /\ Tells(x \o y, Without(Instructing))
    BY <2>4, <2>5, ItemsTell
  <2>7. SaidToCodex(conversation_of) = (p \o x) \o y
    BY <2>5 DEF SaidToCodex
  <2> HIDE DEF x, y
  <2>8. (p \o x) \o y = p \o (x \o y)
    <3>1. p \in Seq(Part)
      BY <1>0, WithoutIs
    <3>2. p \in Seq(AnyBlock)
      BY <3>1 DEF AnyBlock
    <3> HIDE DEF p
    <3>3. p \in Seq(AnyBlock) /\ x \in Seq(AnyBlock) /\ y \in Seq(AnyBlock)
      BY <2>5, <3>2
    <3> QED
      BY ONLY <3>3, ConcatAssociative
  <2> QED
    BY <1>0, <2>6, <2>7, <2>8, WholeTold
<1> QED
  BY <1>1, <1>2, <1>3

LEMMA PartsTyped ==
  ASSUME NEW kinds \in Seq({"text", "image", "link", "file"}), Here \in Nat
  PROVE  PartsOf(kinds) \in Seq(Part) /\ Len(PartsOf(kinds)) = Len(kinds)
<1>1. Len(kinds) \in Nat /\ DOMAIN kinds = 1 .. Len(kinds) /\ \A i \in 1 .. Len(kinds) : kinds[i] \in {"text", "image", "link", "file"}
  BY LenProperties, ElementOfSeq
<1>2. ASSUME NEW i \in 1 .. Len(kinds) PROVE [kind |-> kinds[i], at |-> <<Here, i>>] \in Part
  <2>1. <<Here, i>> \in Place /\ kinds[i] \in PartKinds
    BY <1>1 DEF Place, PartKinds
  <2> QED
    BY <2>1 DEF Part
<1>3. PartsOf(kinds) = [i \in 1 .. Len(kinds) |-> [kind |-> kinds[i], at |-> <<Here, i>>]]
  BY <1>1 DEF PartsOf
<1>4. PartsOf(kinds) \in [1 .. Len(kinds) -> Part]
  BY <1>2, <1>3
<1> QED
  BY <1>1, <1>4

\* What a client adds to its conversation: a remark, calls, a result, or what a tool attached.
Remark(m) == open = {} /\ open' = {} /\ m.role # "tool" /\ m.calls = <<>>
Calling(m) ==
  /\ open = {} /\ open' = {m.calls[i].id : i \in DOMAIN m.calls}
  /\ m.role = "assistant" /\ m.calls # <<>> /\ \A i, j \in DOMAIN m.calls : m.calls[i].id = m.calls[j].id => i = j
Returning(m) == m.role = "tool" /\ m.of \in open /\ open' = open \ {m.of}
Attaching(m) == Attachments /\ m.role = "user" /\ open' = open

Spoke(m) == conversation' = Append(conversation, m) /\ (Remark(m) \/ Calling(m) \/ Returning(m) \/ Attaching(m))

LEMMA SpeaksAdds ==
  ASSUME ConversationTyped, Speaks
  PROVE  \E m \in ChatMessage : Spoke(m) /\ open' \subseteq Ids
<1> DEFINE Content == {"text", "image", "link", "file"}
<1>0. Here \in Nat
  BY LenProperties DEF ConversationTyped, Here
<1>a. ASSUME NEW role \in Roles, NEW kinds \in Seq(Content), role # "tool"
      PROVE  /\ Message(role, PartsOf(kinds), <<>>, "none") \in ChatMessage
             /\ Message(role, PartsOf(kinds), <<>>, "none").role = role
             /\ Message(role, PartsOf(kinds), <<>>, "none").calls = <<>>
  <2>1. PartsOf(kinds) \in Seq(Part) /\ <<>> \in Seq(Call)
    BY <1>0, PartsTyped, EmptySeq
  <2> QED
    BY <1>a, <2>1 DEF Message, ChatMessage
<1>b. <<"text">> \in Seq(Content) /\ <<>> \in Seq(Content) /\ <<"text", "image">> \in Seq(Content) /\ Len(<<"text">>) = 1
  BY EmptySeq
<1>c. UserContents \subseteq Seq(Content)
  BY ConversationAssumption DEF ConversationAssumption
<1>d. ASSUME NEW kinds \in Seq(Content) PROVE PartsOf(kinds) \in Seq(Part) /\ Len(PartsOf(kinds)) = Len(kinds)
  BY <1>0, PartsTyped
<1> HIDE DEF Content
<1>1. ASSUME NEW role \in {"system", "developer", "user", "assistant"}, says(role)
      PROVE  \E m \in ChatMessage : Spoke(m) /\ open' \subseteq Ids
  <2>1. PICK kinds \in (IF role = "user" THEN UserContents ELSE {<<"text">>}) :
          conversation' = Append(conversation, Message(role, PartsOf(kinds), <<>>, "none"))
    BY <1>1 DEF says, Says
  <2>2. kinds \in Seq(Content)
    <3>1. CASE role = "user"
      BY <1>c, <2>1, <3>1
    <3>2. CASE role # "user"
      <4>1. kinds = <<"text">>
        BY <2>1, <3>2
      <4> QED
        BY <1>b, <4>1
    <3> QED
      BY <3>1, <3>2
  <2> DEFINE m == Message(role, PartsOf(kinds), <<>>, "none")
  <2>3. m \in ChatMessage /\ m.role = role /\ m.calls = <<>>
    BY <1>a, <2>2 DEF Roles
  <2>4. open = {} /\ open' = {} /\ conversation' = Append(conversation, m)
    BY <1>1, <2>1 DEF says
  <2> HIDE DEF m
  <2> QED
    BY <2>3, <2>4 DEF Spoke, Remark
<1>2. ASSUME NEW calls \in Turns, \A i, j \in DOMAIN calls : calls[i].id = calls[j].id => i = j, called(calls)
      PROVE  \E m \in ChatMessage : Spoke(m) /\ open' \subseteq Ids
  <2>1. PICK kinds \in {<<>>, <<"text">>} : conversation' = Append(conversation, Message("assistant", PartsOf(kinds), calls, "none"))
    BY <1>2 DEF called, Says
  <2>2. kinds \in Seq(Content)
    <3>1. kinds = <<>> \/ kinds = <<"text">>
      OBVIOUS
    <3> QED
      BY <1>b, <3>1
  <2>3. calls \in Seq(Call) /\ calls # <<>>
    <3>1. \A c, d \in Call : <<c>> \in Seq(Call) /\ <<c, d>> \in Seq(Call) /\ <<c>> # <<>> /\ <<c, d>> # <<>>
      OBVIOUS
    <3>2. (\E c \in Call : calls = <<c>>) \/ (\E c, d \in Call : calls = <<c, d>>)
      BY DEF Turns
    <3> QED
      BY <3>1, <3>2
  <2> DEFINE m == Message("assistant", PartsOf(kinds), calls, "none")
  <2>4. m \in ChatMessage /\ m.role = "assistant" /\ m.calls = calls
    BY <1>d, <2>2, <2>3 DEF Message, ChatMessage, Roles
  <2>5. open = {} /\ open' = {calls[i].id : i \in DOMAIN calls} /\ conversation' = Append(conversation, m)
    BY <1>2, <2>1 DEF called
  <2> HIDE DEF m
  <2>6. open' \subseteq Ids
    <3>1. \A i \in DOMAIN calls : calls[i] \in Call
      BY <2>3, ElementOfSeq
    <3> QED
      BY <2>5, <3>1 DEF Call
  <2> QED
    BY <1>2, <2>3, <2>4, <2>5, <2>6 DEF Spoke, Calling
<1>3. ASSUME NEW id \in Ids, returned(id) PROVE \E m \in ChatMessage : Spoke(m) /\ open' \subseteq Ids
  <2> DEFINE m == Message("tool", PartsOf(<<"text">>), <<>>, id)
  <2>1. m \in ChatMessage /\ m.role = "tool" /\ m.of = id
    <3>1. PartsOf(<<"text">>) \in Seq(Part) /\ Len(PartsOf(<<"text">>)) = 1 /\ <<>> \in Seq(Call)
      BY <1>b, <1>d, EmptySeq
    <3> QED
      BY <3>1 DEF Message, ChatMessage, Roles
  <2>2. conversation' = Append(conversation, m) /\ id \in open /\ open' = open \ {id}
    BY <1>3 DEF returned, Says
  <2> HIDE DEF m
  <2> QED
    BY <2>1, <2>2 DEF Spoke, Returning, ConversationTyped
<1>4. ASSUME attached PROVE \E m \in ChatMessage : Spoke(m) /\ open' \subseteq Ids
  <2> DEFINE m == Message("user", PartsOf(<<"text", "image">>), <<>>, "none")
  <2>1. m \in ChatMessage /\ m.role = "user"
    BY <1>a, <1>b DEF Roles
  <2>2. conversation' = Append(conversation, m) /\ Attachments /\ open' = open
    BY <1>4 DEF attached, Says
  <2> HIDE DEF m
  <2> QED
    BY <2>1, <2>2 DEF Spoke, Attaching, ConversationTyped
<1> QED
  BY <1>1, <1>2, <1>3, <1>4 DEF Speaks

LEMMA TypedKeeps == ConversationTyped /\ [BackendNext]_backendVars => ConversationTyped'
<1> SUFFICES ASSUME ConversationTyped, [BackendNext]_backendVars PROVE ConversationTyped'
  OBVIOUS
<1>1. CASE Asked
  BY <1>1, SpeaksAdds, AppendProperties DEF Asked, Spoke, ConversationTyped
<1>2. CASE \E backend \in Protocols : send_to(backend)
  BY <1>2, EmptySeq DEF send_to, ConversationTyped
<1>3. CASE Answered \/ UNCHANGED backendVars
  BY <1>3 DEF Answered, backendVars, ConversationTyped
<1> QED
  BY <1>1, <1>2, <1>3 DEF BackendNext

LEMMA TypedAlways == BackendSpec => []ConversationTyped
<1>1. BackendInit => ConversationTyped
  BY EmptySeq DEF BackendInit, ConversationTyped
<1> QED
  BY <1>1, TypedKeeps, PTL DEF BackendSpec

\* Every backend is told the whole conversation, each part, call and result of it once and in order, whatever its
\* client said (backends.py:348, plugins.py:297, codex.py:81).
THEOREM RequestsWhole == BackendSpec => []RequestWhole
BY TypedAlways, WholeRequest, PTL

-----------------------------------------------------------------------------
(* Calls and their results *)

\* How many blocks have a key.
CountOf(blocks, key, k) == Cardinality({j \in DOMAIN blocks : key[blocks[j]] = k})

\* That one turn holds the results of what another called.
MetBy(calls, next, result, key) ==
  /\ next.role = "user" /\ \A b \in Range(next.blocks) : b.kind = result
  /\ Len(next.blocks) = Len(calls)
  /\ \A k : CountOf(next.blocks, key, k) = CountOf(calls, key, k)

MetAt(turns, i, result, key) ==
  Called(turns[i].blocks) # <<>> => i < Len(turns) /\ MetBy(Called(turns[i].blocks), turns[i + 1], result, key)
AllMet(turns, result, key) == \A i \in DOMAIN turns : MetAt(turns, i, result, key)

IdKey == [b \in AnyBlock |-> b.id]
NameKey == [b \in AnyBlock |-> b.name]

IdCount(s, k) == Cardinality({j \in DOMAIN s : s[j].id = k})
NameCount(s, k) == Cardinality({j \in DOMAIN s : s[j].name = k})

LEMMA KeyCounts ==
  ASSUME NEW s \in Seq(AnyBlock), NEW k
  PROVE  CountOf(s, IdKey, k) = IdCount(s, k) /\ CountOf(s, NameKey, k) = NameCount(s, k)
<1>1. \A j \in DOMAIN s : s[j] \in AnyBlock
  BY ElementOfSeq
<1>2. \A j \in DOMAIN s : IdKey[s[j]] = s[j].id /\ NameKey[s[j]] = s[j].name
  BY <1>1 DEF IdKey, NameKey
<1>3. /\ {j \in DOMAIN s : IdKey[s[j]] = k} = {j \in DOMAIN s : s[j].id = k}
      /\ {j \in DOMAIN s : NameKey[s[j]] = k} = {j \in DOMAIN s : s[j].name = k}
  BY <1>2
<1> QED
  BY <1>3 DEF CountOf, IdCount, NameCount

LEMMA MetMatches ==
  ASSUME Anthropic.turns \in Seq(ApiTurn), AllMet(Anthropic.turns, "tool_result", IdKey),
         Gemini.turns \in Seq(ApiTurn), AllMet(Gemini.turns, "functionResponse", NameKey)
  PROVE  ResultsNext
<1> DEFINE ById(b) == b.id
           ByName(b) == b.name
<1>a. ASSUME NEW t \in Seq(ApiTurn), NEW i \in DOMAIN t
      PROVE  /\ t[i].blocks \in Seq(AnyBlock) /\ Called(t[i].blocks) \in Seq(AnyBlock)
             /\ i < Len(t) => t[i + 1].blocks \in Seq(AnyBlock)
  <2>1. Len(t) \in Nat /\ DOMAIN t = 1 .. Len(t)
    BY LenProperties
  <2>2. t[i] \in ApiTurn /\ (i < Len(t) => t[i + 1] \in ApiTurn)
    <3>1. i < Len(t) => i + 1 \in 1 .. Len(t)
      BY <2>1
    <3> QED
      BY <2>1, <3>1, ElementOfSeq
  <2> QED
    BY <2>2, TurnIs, SplitSeq
<1>1. Matches(Anthropic.turns, "tool_result", ById)
  <2> DEFINE t == Anthropic.turns
  <2> SUFFICES ASSUME NEW i \in DOMAIN t, Called(t[i].blocks) # <<>>
               PROVE  /\ i < Len(t) /\ t[i + 1].role = "user" /\ \A b \in Range(t[i + 1].blocks) : b.kind = "tool_result"
                      /\ Len(t[i + 1].blocks) = Len(Called(t[i].blocks))
                      /\ \A b \in Range(Called(t[i].blocks)) :
                           Cardinality({j \in DOMAIN t[i + 1].blocks : t[i + 1].blocks[j].id = b.id})
                           = Cardinality({j \in DOMAIN Called(t[i].blocks) : Called(t[i].blocks)[j].id = b.id})
    BY DEF Matches
  <2> HIDE DEF t
  <2>1. t \in Seq(ApiTurn) /\ i < Len(t) /\ MetBy(Called(t[i].blocks), t[i + 1], "tool_result", IdKey)
    BY DEF AllMet, MetAt, t
  <2> DEFINE c == Called(t[i].blocks)
             w == t[i + 1].blocks
  <2>2. c \in Seq(AnyBlock) /\ w \in Seq(AnyBlock)
    BY <1>a, <2>1
  <2>3. /\ t[i + 1].role = "user" /\ \A b \in Range(w) : b.kind = "tool_result"
        /\ Len(w) = Len(c) /\ \A k : CountOf(w, IdKey, k) = CountOf(c, IdKey, k)
    BY <2>1 DEF MetBy
  <2> HIDE DEF c, w
  <2>4. \A k : IdCount(w, k) = IdCount(c, k)
    BY <2>2, <2>3, KeyCounts
  <2> QED
    BY <2>1, <2>3, <2>4 DEF c, w, IdCount
<1>2. Matches(Gemini.turns, "functionResponse", ByName)
  <2> DEFINE t == Gemini.turns
  <2> SUFFICES ASSUME NEW i \in DOMAIN t, Called(t[i].blocks) # <<>>
               PROVE  /\ i < Len(t) /\ t[i + 1].role = "user" /\ \A b \in Range(t[i + 1].blocks) : b.kind = "functionResponse"
                      /\ Len(t[i + 1].blocks) = Len(Called(t[i].blocks))
                      /\ \A b \in Range(Called(t[i].blocks)) :
                           Cardinality({j \in DOMAIN t[i + 1].blocks : t[i + 1].blocks[j].name = b.name})
                           = Cardinality({j \in DOMAIN Called(t[i].blocks) : Called(t[i].blocks)[j].name = b.name})
    BY DEF Matches
  <2> HIDE DEF t
  <2>1. t \in Seq(ApiTurn) /\ i < Len(t) /\ MetBy(Called(t[i].blocks), t[i + 1], "functionResponse", NameKey)
    BY DEF AllMet, MetAt, t
  <2> DEFINE c == Called(t[i].blocks)
             w == t[i + 1].blocks
  <2>2. c \in Seq(AnyBlock) /\ w \in Seq(AnyBlock)
    BY <1>a, <2>1
  <2>3. /\ t[i + 1].role = "user" /\ \A b \in Range(w) : b.kind = "functionResponse"
        /\ Len(w) = Len(c) /\ \A k : CountOf(w, NameKey, k) = CountOf(c, NameKey, k)
    BY <2>1 DEF MetBy
  <2> HIDE DEF c, w
  <2>4. \A k : NameCount(w, k) = NameCount(c, k)
    BY <2>2, <2>3, KeyCounts
  <2> QED
    BY <2>1, <2>3, <2>4 DEF c, w, NameCount
<1> QED
  BY <1>1, <1>2 DEF ResultsNext

\* The calls that have no result yet, and those of them with a key.
Owed(calls, left) == {j \in DOMAIN calls : calls[j].id \in left}
OwedOf(calls, left, key, k) == {j \in Owed(calls, left) : key[calls[j]] = k}

\* Each of a turn's calls has its result among the blocks, or is still owed it.
Partly(calls, blocks, left, key, names) ==
  /\ \A i, j \in DOMAIN calls : calls[i].id = calls[j].id => i = j
  /\ left \subseteq {calls[j].id : j \in DOMAIN calls}
  /\ \A j \in DOMAIN calls : key[calls[j]] = names[calls[j].id]
  /\ Len(blocks) + Cardinality(Owed(calls, left)) = Len(calls)
  /\ \A k : CountOf(blocks, key, k) + Cardinality(OwedOf(calls, left, key, k)) = CountOf(calls, key, k)

LEMMA CountAppend ==
  ASSUME NEW s \in Seq(AnyBlock), NEW b \in AnyBlock, NEW key, NEW k
  PROVE  CountOf(s, key, k) \in Nat /\ CountOf(Append(s, b), key, k) = CountOf(s, key, k) + IF key[b] = k THEN 1 ELSE 0
<1> DEFINE n == Len(s)
           a == Append(s, b)
           X == {j \in DOMAIN s : key[s[j]] = k}
           Y == {j \in DOMAIN a : key[a[j]] = k}
<1>1. n \in Nat /\ DOMAIN s = 1 .. n /\ DOMAIN a = 1 .. n + 1 /\ a[n + 1] = b /\ \A j \in 1 .. n : a[j] = s[j]
  BY AppendProperties, LenProperties
<1> HIDE DEF n, a
<1>2. IsFiniteSet(X) /\ Cardinality(X) \in Nat
  <2>1. IsFiniteSet(1 .. n) /\ X \subseteq 1 .. n
    BY <1>1, FS_Interval
  <2> QED
    BY <2>1, FS_Subset, FS_CardinalityType
<1>3. \A j \in 1 .. n + 1 : j = n + 1 \/ j \in 1 .. n
  BY <1>1
<1>4. n + 1 \notin X /\ \A j \in 1 .. n : j \in 1 .. n + 1
  BY <1>1
<1>5. Y = IF key[b] = k THEN X \cup {n + 1} ELSE X
  <2>1. \A j : j \in Y => j \in X \/ (j = n + 1 /\ key[b] = k)
    BY <1>1, <1>3
  <2>2. \A j : j \in X => j \in Y
    BY <1>1, <1>4
  <2>3. key[b] = k => n + 1 \in Y
    BY <1>1
  <2> HIDE DEF X, Y
  <2> QED
    BY <2>1, <2>2, <2>3
<1> HIDE DEF X, Y
<1>6. Cardinality(X \cup {n + 1}) = Cardinality(X) + 1
  BY <1>2, <1>4, FS_AddElement
<1>7. CountOf(s, key, k) = Cardinality(X) /\ CountOf(a, key, k) = Cardinality(Y)
  BY DEF CountOf, X, Y
<1> QED
  BY <1>2, <1>5, <1>6, <1>7 DEF a

LEMMA OwedFinite ==
  ASSUME NEW c \in Seq(AnyBlock), NEW left, NEW key, NEW k
  PROVE  /\ IsFiniteSet(Owed(c, left)) /\ Cardinality(Owed(c, left)) \in Nat
         /\ IsFiniteSet(OwedOf(c, left, key, k)) /\ Cardinality(OwedOf(c, left, key, k)) \in Nat
<1>1. IsFiniteSet(DOMAIN c)
  BY FS_Interval, LenProperties
<1>2. Owed(c, left) \subseteq DOMAIN c /\ OwedOf(c, left, key, k) \subseteq DOMAIN c
  BY DEF Owed, OwedOf
<1> QED
  BY <1>1, <1>2, FS_Subset, FS_CardinalityType

LEMMA PartlyStarts ==
  ASSUME NEW c \in Seq(AnyBlock), NEW left, NEW key, NEW names,
         \A i, j \in DOMAIN c : c[i].id = c[j].id => i = j,
         left = {c[j].id : j \in DOMAIN c}, \A j \in DOMAIN c : key[c[j]] = names[c[j].id]
  PROVE  Partly(c, <<>>, left, key, names)
<1>1. Owed(c, left) = DOMAIN c
  BY DEF Owed
<1>2. Len(<<>>) + Cardinality(DOMAIN c) = Len(c)
  <2> DEFINE n == Len(c)
  <2>1. n \in Nat /\ DOMAIN c = 1 .. n /\ Len(<<>>) = 0
    BY LenProperties
  <2> HIDE DEF n
  <2>2. Cardinality(1 .. n) = IF 1 > n THEN 0 ELSE n - 1 + 1
    BY <2>1, FS_Interval
  <2>3. Cardinality(1 .. n) = n
    BY <2>1, <2>2
  <2> QED
    BY <2>1, <2>3 DEF n
<1>3. ASSUME NEW k PROVE CountOf(<<>>, key, k) + Cardinality(OwedOf(c, left, key, k)) = CountOf(c, key, k)
  <2>1. OwedOf(c, left, key, k) = {j \in DOMAIN c : key[c[j]] = k}
    BY <1>1 DEF OwedOf
  <2>2. CountOf(<<>>, key, k) = 0
    <3>1. {j \in DOMAIN <<>> : key[<<>>[j]] = k} = {}
      OBVIOUS
    <3> QED
      BY <3>1, FS_EmptySet DEF CountOf
  <2>3. Cardinality(OwedOf(c, left, key, k)) \in Nat
    BY OwedFinite
  <2>4. CountOf(c, key, k) = Cardinality(OwedOf(c, left, key, k))
    BY <2>1 DEF CountOf
  <2> QED
    BY <2>2, <2>3, <2>4
<1> QED
  BY <1>1, <1>2, <1>3 DEF Partly

LEMMA PartlyGoesOn ==
  ASSUME NEW c \in Seq(AnyBlock), NEW w \in Seq(AnyBlock), NEW b \in AnyBlock, NEW left, NEW id \in left, NEW key, NEW names,
         Partly(c, w, left, key, names), key[b] = names[id]
  PROVE  Partly(c, Append(w, b), left \ {id}, key, names)
<1> DEFINE X == Owed(c, left)
           Y == Owed(c, left \ {id})
<1>1. PICK i \in DOMAIN c : c[i].id = id
  BY DEF Partly
<1>2. i \in X /\ Y = X \ {i}
  <2>1. \A j \in DOMAIN c : c[j].id = id <=> j = i
    BY <1>1 DEF Partly
  <2> QED
    BY <1>1, <2>1 DEF Owed
<1>3. IsFiniteSet(X) /\ Cardinality(X) \in Nat /\ IsFiniteSet(Y) /\ Cardinality(Y) \in Nat
  BY OwedFinite
<1> HIDE DEF X, Y
<1>4. Cardinality(Y) = Cardinality(X) - 1
  BY <1>2, <1>3, FS_RemoveElement
<1>5. Len(Append(w, b)) + Cardinality(Y) = Len(c)
  <2>1. Len(w) \in Nat /\ Len(Append(w, b)) = Len(w) + 1 /\ Len(w) + Cardinality(X) = Len(c)
    BY LenProperties, AppendProperties DEF Partly, X
  <2> QED
    BY <1>3, <1>4, <2>1
<1>6. ASSUME NEW k PROVE CountOf(Append(w, b), key, k) + Cardinality(OwedOf(c, left \ {id}, key, k)) = CountOf(c, key, k)
  <2> DEFINE P == OwedOf(c, left, key, k)
             Q == OwedOf(c, left \ {id}, key, k)
  <2>1. IsFiniteSet(P) /\ Cardinality(P) \in Nat
    BY OwedFinite
  <2>2. CountOf(w, key, k) \in Nat /\ CountOf(Append(w, b), key, k) = CountOf(w, key, k) + IF key[b] = k THEN 1 ELSE 0
    BY CountAppend
  <2>3. CountOf(w, key, k) + Cardinality(P) = CountOf(c, key, k)
    BY DEF Partly
  <2>4. key[c[i]] = key[b]
    BY <1>1 DEF Partly
  <2>5. CASE key[b] = k
    <3>1. i \in P /\ Q = P \ {i}
      BY <1>2, <2>4, <2>5 DEF OwedOf, X, Y
    <3> HIDE DEF P, Q
    <3>2. Cardinality(Q) = Cardinality(P) - 1
      BY <2>1, <3>1, FS_RemoveElement
    <3> QED
      BY <2>1, <2>2, <2>3, <2>5, <3>2 DEF Q
  <2>6. CASE key[b] # k
    <3>1. Q = P
      BY <1>2, <2>4, <2>6 DEF OwedOf, X, Y
    <3> HIDE DEF P, Q
    <3> QED
      BY <2>1, <2>2, <2>3, <2>6, <3>1 DEF Q
  <2> QED
    BY <2>5, <2>6
<1>7. left \ {id} \subseteq {c[j].id : j \in DOMAIN c}
  BY DEF Partly
<1> QED
  BY <1>5, <1>6, <1>7 DEF Partly, Y

LEMMA PartlyEnds ==
  ASSUME NEW c \in Seq(AnyBlock), NEW w \in Seq(AnyBlock), NEW key, NEW names, Partly(c, w, {}, key, names)
  PROVE  Len(w) = Len(c) /\ \A k : CountOf(w, key, k) = CountOf(c, key, k)
<1> DEFINE n == Cardinality(Owed(c, {}))
           q(k) == Cardinality(OwedOf(c, {}, key, k))
<1>1. Len(w) + n = Len(c) /\ \A k : CountOf(w, key, k) + q(k) = CountOf(c, key, k)
  BY DEF Partly
<1>2. Owed(c, {}) = {} /\ \A k : OwedOf(c, {}, key, k) = {}
  BY DEF Owed, OwedOf
<1>3. n = 0 /\ \A k : q(k) = 0
  BY <1>2, FS_EmptySet
<1> HIDE DEF n, q
<1>4. Len(w) \in Nat
  BY LenProperties
<1>5. ASSUME NEW k PROVE CountOf(w, key, k) \in Nat
  <2> DEFINE X == {j \in DOMAIN w : key[w[j]] = k}
  <2>1. X \subseteq DOMAIN w /\ IsFiniteSet(DOMAIN w)
    BY LenProperties, FS_Interval
  <2> HIDE DEF X
  <2>2. Cardinality(X) \in Nat
    BY <2>1, FS_Subset, FS_CardinalityType
  <2> QED
    BY <2>2 DEF CountOf, X
<1>6. Len(w) = Len(c)
  BY <1>1, <1>3, <1>4
<1>7. ASSUME NEW k PROVE CountOf(w, key, k) = CountOf(c, key, k)
  BY <1>1, <1>3, <1>5
<1> QED
  BY <1>6, <1>7

\* The turns that have what they need keep it when others follow.
LEMMA MetPrefix ==
  ASSUME NEW r \in Seq(ApiTurn), NEW t \in Seq(ApiTurn), NEW result, NEW key, AllMet(r, result, key), Len(r) <= Len(t),
         \A i \in 1 .. Len(r) : t[i] = r[i], \A i \in 1 .. Len(t) : i > Len(r) => MetAt(t, i, result, key)
  PROVE  AllMet(t, result, key)
<1>1. Len(r) \in Nat /\ Len(t) \in Nat /\ DOMAIN r = 1 .. Len(r) /\ DOMAIN t = 1 .. Len(t)
  BY LenProperties
<1> SUFFICES ASSUME NEW i \in 1 .. Len(t), i <= Len(r) PROVE MetAt(t, i, result, key)
  BY <1>1 DEF AllMet
<1>2. i \in 1 .. Len(r) /\ MetAt(r, i, result, key)
  BY <1>1 DEF AllMet
<1>3. i < Len(r) => i + 1 \in 1 .. Len(r)
  BY <1>1
<1> QED
  BY <1>1, <1>2, <1>3 DEF MetAt

LEMMA MetMore ==
  ASSUME NEW t \in Seq(ApiTurn), NEW u \in ApiTurn, NEW result, NEW key, AllMet(t, result, key), Called(u.blocks) = <<>>
  PROVE  AllMet(Append(t, u), result, key)
<1> DEFINE a == Append(t, u)
           n == Len(t)
<1>1. n \in Nat /\ a \in Seq(ApiTurn) /\ Len(a) = n + 1 /\ a[n + 1] = u /\ \A i \in 1 .. n : a[i] = t[i]
  BY AppendProperties, LenProperties
<1> HIDE DEF a
<1>2. \A i \in 1 .. Len(a) : i > n => MetAt(a, i, result, key)
  <2>1. MetAt(a, n + 1, result, key)
    BY <1>1 DEF MetAt
  <2> HIDE DEF n
  <2>2. \A i \in 1 .. n + 1 : i > n => i = n + 1
    BY <1>1
  <2> QED
    BY <1>1, <2>1, <2>2
<1>3. n <= Len(a)
  BY <1>1
<1> QED
  BY <1>1, <1>2, <1>3, MetPrefix DEF a

LEMMA MetByNext ==
  ASSUME NEW r \in Seq(ApiTurn), NEW u \in ApiTurn, NEW v \in ApiTurn, NEW result, NEW key, AllMet(r, result, key),
         MetBy(Called(u.blocks), v, result, key), Called(v.blocks) = <<>>
  PROVE  AllMet(Append(Append(r, u), v), result, key)
<1> DEFINE a == Append(r, u)
           t == Append(a, v)
           n == Len(r)
<1>1. n \in Nat /\ a \in Seq(ApiTurn) /\ Len(a) = n + 1 /\ a[n + 1] = u /\ \A i \in 1 .. n : a[i] = r[i]
  BY AppendProperties, LenProperties
<1>2. t \in Seq(ApiTurn) /\ Len(t) = n + 2 /\ t[n + 2] = v /\ \A i \in 1 .. n + 1 : t[i] = a[i]
  <2> HIDE DEF a, n
  <2>1. t \in Seq(ApiTurn) /\ Len(t) = Len(a) + 1 /\ t[Len(a) + 1] = v /\ \A i \in 1 .. Len(a) : t[i] = a[i]
    BY <1>1, AppendProperties
  <2>2. Len(a) + 1 = n + 2
    BY <1>1
  <2> HIDE DEF t
  <2> QED
    BY <1>1, <2>1, <2>2
<1> HIDE DEF a, t, n
<1>3. t[n + 1] = u /\ \A i \in 1 .. n : t[i] = r[i]
  <2>1. n + 1 \in 1 .. n + 1 /\ \A i \in 1 .. n : i \in 1 .. n + 1
    BY <1>1
  <2> QED
    BY <1>1, <1>2, <2>1
<1>4. MetAt(t, n + 2, result, key)
  BY <1>2 DEF MetAt
<1>5. MetAt(t, n + 1, result, key)
  <2>1. (n + 1) + 1 = n + 2 /\ n + 1 < n + 2
    BY <1>1
  <2> QED
    BY <1>2, <1>3, <2>1 DEF MetAt
<1>6. \A i \in 1 .. Len(t) : i > n => MetAt(t, i, result, key)
  <2>1. \A i \in 1 .. n + 2 : i > n => i = n + 1 \/ i = n + 2
    BY <1>1
  <2> QED
    BY <1>2, <1>4, <1>5, <2>1
<1>7. Len(r) <= Len(t)
  BY <1>1, <1>2 DEF n
<1> QED
  BY <1>2, <1>3, <1>6, <1>7, MetPrefix DEF t, a, n

\* A turn that called tools is the last, or the last but the results that came; the turns before it have theirs.
Awaiting(turns, left, result, key, names) ==
  \E r \in Seq(ApiTurn), u \in ApiTurn, w \in Seq(AnyBlock) :
    /\ AllMet(r, result, key) /\ u.role # "user" /\ \A b \in Range(w) : b.kind = result
    /\ Partly(Called(u.blocks), w, left, key, names)
    /\ \/ turns = Append(r, u) /\ w = <<>>
       \/ turns = Append(Append(r, u), [role |-> "user", blocks |-> w])

Settled(turns, left, result, key, names) ==
  IF left = {} THEN AllMet(turns, result, key) ELSE Awaiting(turns, left, result, key, names)

LEMMA KindsSame ==
  ASSUME NEW w \in Seq(AnyBlock), NEW b \in AnyBlock, NEW result, result \notin CallKinds,
         b.kind = result, \A x \in Range(w) : x.kind = result
  PROVE  Append(w, b) \in Seq(AnyBlock) /\ Called(Append(w, b)) = <<>> /\ \A x \in Range(Append(w, b)) : x.kind = result
<1> DEFINE a == Append(w, b)
           n == Len(w)
<1>1. /\ a \in Seq(AnyBlock) /\ n \in Nat /\ DOMAIN a = 1 .. n + 1 /\ DOMAIN w = 1 .. n
      /\ a[n + 1] = b /\ \A i \in 1 .. n : a[i] = w[i]
  BY AppendProperties, LenProperties
<1> HIDE DEF a, n
<1>2. ASSUME NEW i \in DOMAIN a PROVE a[i] \in AnyBlock /\ a[i].kind = result
  <2>1. i = n + 1 \/ i \in 1 .. n
    BY <1>1
  <2> QED
    BY <1>1, <2>1, ElementOfSeq DEF Range
<1>3. Called(a) = <<>>
  <2> DEFINE P == {x \in AnyBlock : x.kind = result}
  <2>1. a \in [1 .. n + 1 -> P]
    BY <1>1, <1>2
  <2>2. P \cap CallBlock = {}
    BY DEF CallBlock
  <2> HIDE DEF P
  <2>3. a \in Seq(P)
    BY <1>1, <2>1
  <2> QED
    BY <1>1, <2>2, <2>3, SplitIs, ThoseNone
<1> QED
  BY <1>1, <1>2, <1>3 DEF a, Range

LEMMA ResultSettles ==
  ASSUME NEW t \in Seq(ApiTurn), NEW left, NEW id \in left, NEW result, result \notin CallKinds, NEW key, NEW names,
         Awaiting(t, left, result, key, names),
         NEW b \in AnyBlock, b.kind = result, key[b] = names[id]
  PROVE  Settled(answer_turn(t, b), left \ {id}, result, key, names)
<1>1. PICK r \in Seq(ApiTurn), u \in ApiTurn, w \in Seq(AnyBlock) :
        /\ AllMet(r, result, key) /\ u.role # "user" /\ \A x \in Range(w) : x.kind = result
        /\ Partly(Called(u.blocks), w, left, key, names)
        /\ \/ t = Append(r, u) /\ w = <<>>
           \/ t = Append(Append(r, u), [role |-> "user", blocks |-> w])
  BY DEF Awaiting
<1> DEFINE a == Append(r, u)
           c == Called(u.blocks)
           w2 == Append(w, b)
           v == [role |-> "user", blocks |-> w2]
           e == [role |-> "user", blocks |-> w]
           rest == left \ {id}
<1>2. w2 \in Seq(AnyBlock) /\ Called(w2) = <<>> /\ \A x \in Range(w2) : x.kind = result
  BY <1>1, KindsSame
<1>3. c \in Seq(AnyBlock) /\ Partly(c, w2, rest, key, names)
  <2>1. c \in Seq(AnyBlock)
    BY TurnIs, SplitSeq
  <2> HIDE DEF c
  <2> QED
    BY <1>1, <2>1, PartlyGoesOn DEF c
<1>4. a \in Seq(ApiTurn) /\ Last(a) = u
  BY LastIs
<1> HIDE DEF a
<1>5. \A x \in Seq(AnyBlock) : [role |-> "user", blocks |-> x] \in ApiTurn
  BY DEF ApiTurn
<1>6. answer_turn(t, b) = Append(a, v)
  <2>1. CASE t = a /\ w = <<>>
    <3>1. ~Merges(a, b)
      BY <1>1, <1>4 DEF Merges
    <3>2. answer_turn(a, b) = Append(a, [role |-> "user", blocks |-> <<b>>])
      BY <1>4, <3>1, AnswerAdds
    <3>3. w2 = <<b>>
      BY <2>1
    <3> QED
      BY <2>1, <3>2, <3>3
  <2>2. CASE t = Append(a, e)
    <3>1. e \in ApiTurn /\ e.role = "user" /\ e.blocks = w
      BY <1>5
    <3> HIDE DEF e
    <3>2. Last(t) = e /\ t # <<>>
      BY <1>4, <2>2, <3>1, LastIs
    <3>3. Merges(t, b)
      BY <1>1, <3>1, <3>2 DEF Merges
    <3>4. answer_turn(Append(a, e), b) = Append(a, [role |-> "user", blocks |-> Append(e.blocks, b)])
      BY <1>4, <2>2, <3>1, <3>3, AnswerJoins
    <3> QED
      BY <2>2, <3>1, <3>4
  <2> QED
    BY <1>1, <2>1, <2>2 DEF a
<1>7. v \in ApiTurn /\ v.role = "user" /\ v.blocks = w2
  BY <1>2, <1>5
<1> HIDE DEF w2
<1>8. CASE rest = {}
  <2>1. Len(w2) = Len(c) /\ \A k : CountOf(w2, key, k) = CountOf(c, key, k)
    <3>1. Partly(c, w2, {}, key, names)
      BY <1>3, <1>8
    <3> HIDE DEF c
    <3> QED
      BY <1>2, <1>3, <3>1, PartlyEnds
  <2>2. MetBy(c, v, result, key)
    BY <1>2, <1>7, <2>1 DEF MetBy
  <2>3. AllMet(Append(Append(r, u), v), result, key)
    <3> HIDE DEF v
    <3> QED
      BY <1>1, <1>2, <1>7, <2>2, MetByNext
  <2> QED
    BY <1>6, <1>8, <2>3 DEF Settled, a
<1>9. CASE rest # {}
  <2>1. Awaiting(Append(a, v), rest, result, key, names)
    BY <1>1, <1>2, <1>3 DEF Awaiting, a
  <2> QED
    BY <1>6, <1>9, <2>1 DEF Settled
<1> QED
  BY <1>8, <1>9

\* That these calls are all that is left.
AllOwed(calls, left, key, names) ==
  /\ left # {} /\ left = {calls[j].id : j \in DOMAIN calls}
  /\ \A i, j \in DOMAIN calls : calls[i].id = calls[j].id => i = j
  /\ \A j \in DOMAIN calls : key[calls[j]] = names[calls[j].id]

LEMMA CallsAwait ==
  ASSUME NEW t \in Seq(ApiTurn), NEW u \in ApiTurn, NEW left, NEW result, NEW key, NEW names,
         AllMet(t, result, key), u.role # "user", AllOwed(Called(u.blocks), left, key, names)
  PROVE  Settled(Append(t, u), left, result, key, names)
<1> DEFINE c == Called(u.blocks)
<1>1. c \in Seq(AnyBlock)
  BY TurnIs, SplitSeq
<1>2. Partly(c, <<>>, left, key, names)
  <2> HIDE DEF c
  <2> QED
    BY <1>1, PartlyStarts DEF c, AllOwed
<1>3. <<>> \in Seq(AnyBlock) /\ \A b \in Range(<<>>) : b.kind = result
  BY EmptySeq DEF Range
<1>4. Awaiting(Append(t, u), left, result, key, names)
  BY <1>2, <1>3 DEF Awaiting
<1> QED
  BY <1>4 DEF Settled, AllOwed

\* What changes neither the turn that waits nor its names.
LEMMA SettledSame ==
  ASSUME NEW t \in Seq(ApiTurn), NEW u \in ApiTurn, NEW result, NEW key, NEW names, NEW others,
         Settled(t, {}, result, key, names), Called(u.blocks) = <<>>
  PROVE  Settled(t, {}, result, key, others) /\ Settled(Append(t, u), {}, result, key, others)
BY MetMore DEF Settled

LEMMA NoneSettled == ASSUME NEW result, NEW key, NEW names PROVE Settled(<<>>, {}, result, key, names)
BY DEF Settled, AllMet

-----------------------------------------------------------------------------
(* A conversation's calls and results, in both APIs *)

\* The messages of s of no role of these.
OthersOf(s, roles) == Those(s, {m \in Range(s) : m.role \notin roles})

LEMMA OthersAre ==
  ASSUME NEW s \in Seq(ChatMessage), NEW roles
  PROVE  OthersOf(s, roles) = Those(s, Otherwise(roles)) /\ OthersOf(s, roles) \in Seq(ChatMessage)
<1>1. \A i \in DOMAIN s : s[i] \in ChatMessage /\ s[i] \in Range(s)
  BY ElementOfSeq DEF Range
<1>2. \A i \in DOMAIN s : s[i] \in {m \in Range(s) : m.role \notin roles} <=> s[i] \in Otherwise(roles)
  BY <1>1 DEF Otherwise
<1>3. OthersOf(s, roles) = Those(s, Otherwise(roles))
  BY <1>2, ThoseSame DEF OthersOf
<1> QED
  BY <1>3, ThoseSeq

LEMMA OthersMore ==
  ASSUME NEW s \in Seq(ChatMessage), NEW m \in ChatMessage, NEW roles
  PROVE  OthersOf(Append(s, m), roles) = IF m.role \in roles THEN OthersOf(s, roles) ELSE Append(OthersOf(s, roles), m)
<1> DEFINE T == Otherwise(roles)
           w == Those(s, T)
           a == Append(s, m)
<1>1. a \in Seq(ChatMessage) /\ w \in Seq(ChatMessage) /\ Those(a, T) = w \o Only(m, T)
  BY AppendProperties, ThoseSeq, ThoseAppend
<1>2. m \in T <=> m.role \notin roles
  BY DEF Otherwise
<1>3. OthersOf(a, roles) = Those(a, T) /\ OthersOf(s, roles) = w
  <2> HIDE DEF a
  <2> QED
    BY <1>1, OthersAre
<1> HIDE DEF T, w, a
<1>4. w \o <<m>> = Append(w, m) /\ w \o <<>> = w
  BY <1>1, AppendIsConcat, ConcatEmptySeq
<1> QED
  BY <1>1, <1>2, <1>3, <1>4 DEF Only, a

Itself == [id \in Ids |-> id]
AnthropicSettled(s, left) ==
  Settled(anthropic_messages(OthersOf(s, {"system"})), left, "tool_result", IdKey, Itself)
GeminiSettled(s, left) ==
  LET asks == gemini_messages(OthersOf(s, Instructing))
  IN  Settled(asks.turns, left, "functionResponse", NameKey, asks.names)

\* The keys of a message's calls.
LEMMA CallKeys ==
  ASSUME NEW m \in ChatMessage, NEW n \in Nat, NEW kind \in CallKinds
  PROVE  LET c == CallBlocks(m, n, kind)
         IN  /\ c \in Seq(AnyBlock) /\ DOMAIN c = DOMAIN m.calls /\ (m.calls = <<>> => c = <<>>)
             /\ \A j \in DOMAIN m.calls : /\ c[j].id = m.calls[j].id /\ m.calls[j].id \in Ids
                                          /\ IdKey[c[j]] = m.calls[j].id /\ NameKey[c[j]] = m.calls[j].name
<1> DEFINE c == CallBlocks(m, n, kind)
<1>1. /\ c \in Seq(CallBlock) /\ Len(c) = Len(m.calls)
      /\ \A i \in 1 .. Len(m.calls) : c[i].id = m.calls[i].id /\ c[i].name = m.calls[i].name
  BY CallBlocksAre
<1>2. m.calls \in Seq(Call) /\ DOMAIN m.calls = 1 .. Len(m.calls)
  BY MessageIs, LenProperties
<1> HIDE DEF c
<1>3. c \in Seq(AnyBlock) /\ DOMAIN c = DOMAIN m.calls
  BY <1>1, <1>2, SplitCalls, LenProperties
<1>4. m.calls = <<>> => c = <<>>
  BY <1>1, EmptySeq
<1>5. ASSUME NEW j \in DOMAIN m.calls
      PROVE  c[j].id = m.calls[j].id /\ m.calls[j].id \in Ids /\ IdKey[c[j]] = m.calls[j].id /\ NameKey[c[j]] = m.calls[j].name
  <2>1. c[j] \in AnyBlock /\ m.calls[j] \in Call
    BY <1>2, <1>3, ElementOfSeq
  <2> QED
    BY <1>1, <1>2, <2>1 DEF IdKey, NameKey, Call
<1> QED
  BY <1>3, <1>4, <1>5 DEF c

LEMMA AnthropicKeeps ==
  ASSUME conversation \in Seq(ChatMessage), AnthropicSettled(conversation, open), NEW m \in ChatMessage, Spoke(m), ~Attachments
  PROVE  AnthropicSettled(conversation', open')
<1> DEFINE s == OthersOf(conversation, {"system"})
           t == anthropic_messages(s)
           t2 == anthropic_messages(OthersOf(conversation', {"system"}))
<1>1. t2 = IF m.role = "system" THEN t ELSE anthropic_turn(t, m)
  <2>1. s \in Seq(ChatMessage)
    BY OthersAre
  <2>2. OthersOf(conversation', {"system"}) = IF m.role \in {"system"} THEN s ELSE Append(s, m)
    BY OthersMore DEF Spoke
  <2> HIDE DEF s
  <2> QED
    BY <2>1, <2>2, AnthropicMore
<1>2. t \in Seq(ApiTurn) /\ Settled(t, open, "tool_result", IdKey, Itself)
  BY OthersAre, AnthropicMore DEF AnthropicSettled
<1>3. "tool_result" \notin CallKinds /\ "tool_use" \in CallKinds
  BY DEF CallKinds
<1> HIDE DEF t, t2
<1> SUFFICES Settled(t2, open', "tool_result", IdKey, Itself)
  BY DEF AnthropicSettled, t2
<1> DEFINE c == CallBlocks(m, Len(t), "tool_use")
           u == [role |-> m.role, blocks |-> m.parts \o c]
<1>4. ASSUME m.role # "tool"
      PROVE  anthropic_turn(t, m) = Append(t, u) /\ u \in ApiTurn /\ u.role = m.role /\ Called(u.blocks) = c
  <2>1. anthropic_turn(t, m) = Append(t, u)
    BY <1>4 DEF anthropic_turn
  <2>2. m.parts \in Seq(Part) /\ SameParts(m.parts, m.parts) /\ Len(t) \in Nat
    BY <1>2, MessageIs, LenProperties DEF SameParts, TextKinds
  <2>3. m.parts \o c \in Seq(AnyBlock) /\ Called(m.parts \o c) = c
    BY <1>3, <2>2, TellsSaid
  <2> HIDE DEF c
  <2>4. u \in ApiTurn
    BY <1>4, <2>3, MessageIs DEF ApiTurn, Roles
  <2> QED
    BY <2>1, <2>3, <2>4
<1>5. /\ c \in Seq(AnyBlock) /\ DOMAIN c = DOMAIN m.calls /\ (m.calls = <<>> => c = <<>>)
      /\ \A j \in DOMAIN m.calls : c[j].id = m.calls[j].id /\ m.calls[j].id \in Ids /\ IdKey[c[j]] = m.calls[j].id
  BY <1>2, <1>3, CallKeys, LenProperties
<1> HIDE DEF c, u
<1>6. CASE Remark(m)
  <2>1. open = {} /\ open' = {} /\ m.role # "tool" /\ c = <<>>
    BY <1>5, <1>6 DEF Remark
  <2>2. CASE m.role = "system"
    BY <1>1, <1>2, <2>1, <2>2
  <2>3. CASE m.role # "system"
    BY <1>1, <1>2, <1>4, <2>1, <2>3, SettledSame
  <2> QED
    BY <2>2, <2>3
<1>7. CASE Calling(m)
  <2>1. /\ open = {} /\ open' = {m.calls[i].id : i \in DOMAIN m.calls} /\ m.role = "assistant" /\ m.calls # <<>>
        /\ \A i, j \in DOMAIN m.calls : m.calls[i].id = m.calls[j].id => i = j
    BY <1>7 DEF Calling
  <2>2. t2 = Append(t, u) /\ u \in ApiTurn /\ u.role # "user" /\ Called(u.blocks) = c
    BY <1>1, <1>4, <2>1
  <2>3. open' # {}
    <3>1. m.calls \in Seq(Call)
      BY MessageIs
    <3>2. DOMAIN m.calls # {}
      BY <2>1, <3>1, EmptySeq, LenProperties
    <3> QED
      BY <2>1, <3>2
  <2>4. open' = {c[j].id : j \in DOMAIN c}
    BY <1>5, <2>1, SMTT(30)
  <2>5. AllOwed(c, open', IdKey, Itself)
    BY <1>5, <2>1, <2>3, <2>4 DEF AllOwed, Itself
  <2>6. AllMet(t, "tool_result", IdKey)
    BY <1>2, <2>1 DEF Settled
  <2> QED
    BY <1>2, <2>2, <2>5, <2>6, CallsAwait
<1>8. CASE Returning(m)
  <2> DEFINE b == [kind |-> "tool_result", id |-> m.of, at |-> m.parts[1].at]
  <2>1. m.role = "tool" /\ m.of \in open /\ open' = open \ {m.of} /\ m.of \in Ids
    BY <1>8, MessageIs DEF Returning
  <2>2. b \in IdBlock /\ b.kind = "tool_result" /\ b.id = m.of
    BY <2>1, MessageIs DEF IdBlock
  <2>3. t2 = answer_turn(t, b)
    BY <1>1, <2>1 DEF anthropic_turn
  <2> HIDE DEF b
  <2>4. b \in AnyBlock /\ IdKey[b] = Itself[m.of]
    <3>1. b \in AnyBlock
      BY <2>2 DEF AnyBlock
    <3> QED
      BY <2>1, <2>2, <3>1 DEF IdKey, Itself
  <2>5. Awaiting(t, open, "tool_result", IdKey, Itself)
    BY <1>2, <2>1 DEF Settled
  <2> QED
    BY <1>2, <1>3, <2>1, <2>2, <2>3, <2>4, <2>5, ResultSettles
<1> QED
  BY <1>6, <1>7, <1>8 DEF Spoke, Attaching

\* After a message an id stands for the tool its call named.
LEMMA NamesOfCalls ==
  ASSUME NEW names, NEW m \in ChatMessage, \A i, j \in DOMAIN m.calls : m.calls[i].id = m.calls[j].id => i = j,
         NEW j \in DOMAIN m.calls
  PROVE  NamesAfter(names, m)[m.calls[j].id] = m.calls[j].name
<1> DEFINE id == m.calls[j].id
           d == CHOOSE c \in Range(m.calls) : c.id = id
<1>1. m.calls \in Seq(Call) /\ m.calls[j] \in Call /\ m.calls[j] \in Range(m.calls)
  BY MessageIs, ElementOfSeq DEF Range
<1>2. id \in Ids /\ \E c \in Range(m.calls) : c.id = id
  BY <1>1 DEF Call
<1>3. d \in Range(m.calls) /\ d.id = id
  BY <1>2
<1>4. NamesAfter(names, m)[id] = d.name
  BY <1>2 DEF NamesAfter
<1> HIDE DEF d
<1>5. d = m.calls[j]
  BY <1>3 DEF Range
<1> QED
  BY <1>4, <1>5

LEMMA GeminiKeeps ==
  ASSUME conversation \in Seq(ChatMessage), GeminiSettled(conversation, open), NEW m \in ChatMessage, Spoke(m), ~Attachments
  PROVE  GeminiSettled(conversation', open')
<1> DEFINE s == OthersOf(conversation, Instructing)
           q == gemini_messages(s)
           q2 == gemini_messages(OthersOf(conversation', Instructing))
           t == q.turns
           names == q.names
<1>1. q2 = IF m.role \in Instructing THEN q ELSE gemini_turn(q, m)
  <2>1. s \in Seq(ChatMessage)
    BY OthersAre
  <2>2. OthersOf(conversation', Instructing) = IF m.role \in Instructing THEN s ELSE Append(s, m)
    BY OthersMore DEF Spoke
  <2> HIDE DEF s
  <2> QED
    BY <2>1, <2>2, GeminiMore
<1>2. q \in GeminiRequest /\ Settled(t, open, "functionResponse", NameKey, names)
  BY OthersAre, GeminiMore DEF GeminiSettled
<1>3. "functionResponse" \notin CallKinds /\ "functionCall" \in CallKinds
  BY DEF CallKinds
<1> HIDE DEF q, q2
<1> SUFFICES Settled(q2.turns, open', "functionResponse", NameKey, q2.names)
  BY DEF GeminiSettled, q2
<1>t. t \in Seq(ApiTurn) /\ names \in [Ids -> Names \cup {"tool"}]
  BY <1>2 DEF GeminiRequest
<1> DEFINE c == CallBlocks(m, Len(t), "functionCall")
           u == [role |-> IF m.role = "assistant" THEN "model" ELSE "user", blocks |-> gemini_parts(m.parts) \o c]
<1>4. ASSUME m.role # "tool"
      PROVE  /\ gemini_turn(q, m).turns = Append(t, u) /\ gemini_turn(q, m).names = NamesAfter(names, m)
             /\ u \in ApiTurn /\ (m.role = "assistant" => u.role = "model") /\ Called(u.blocks) = c
  <2>1. gemini_turn(q, m) = [turns |-> Append(t, u), names |-> NamesAfter(names, m)]
    BY <1>4 DEF gemini_turn, NamesAfter
  <2>2. gemini_parts(m.parts) \in Seq(Part) /\ SameParts(gemini_parts(m.parts), m.parts) /\ Len(t) \in Nat
    BY <1>t, MessageIs, GeminiParts, LenProperties
  <2>3. gemini_parts(m.parts) \o c \in Seq(AnyBlock) /\ Called(gemini_parts(m.parts) \o c) = c
    BY <1>3, <2>2, TellsSaid
  <2> HIDE DEF c
  <2>4. u \in ApiTurn
    BY <2>3 DEF ApiTurn
  <2> QED
    BY <2>1, <2>3, <2>4
<1>5. /\ c \in Seq(AnyBlock) /\ DOMAIN c = DOMAIN m.calls /\ (m.calls = <<>> => c = <<>>)
      /\ \A j \in DOMAIN m.calls : c[j].id = m.calls[j].id /\ m.calls[j].id \in Ids /\ NameKey[c[j]] = m.calls[j].name
  BY <1>t, <1>3, CallKeys, LenProperties
<1> HIDE DEF c, u, t, names
<1>6. CASE Remark(m)
  <2>1. open = {} /\ open' = {} /\ m.role # "tool" /\ c = <<>>
    BY <1>5, <1>6 DEF Remark
  <2>2. CASE m.role \in Instructing
    BY <1>1, <1>2, <2>1, <2>2 DEF t, names
  <2>3. CASE m.role \notin Instructing
    <3>1. q2.turns = Append(t, u) /\ u \in ApiTurn /\ Called(u.blocks) = <<>>
      BY <1>1, <1>4, <2>1, <2>3
    <3>2. Settled(t, {}, "functionResponse", NameKey, names)
      BY <1>2, <2>1
    <3>3. Settled(Append(t, u), {}, "functionResponse", NameKey, q2.names)
      BY <1>t, <3>1, <3>2, SettledSame
    <3> QED
      BY <2>1, <3>1, <3>3
  <2> QED
    BY <2>2, <2>3
<1>7. CASE Calling(m)
  <2>1. /\ open = {} /\ open' = {m.calls[i].id : i \in DOMAIN m.calls} /\ m.role = "assistant" /\ m.calls # <<>>
        /\ \A i, j \in DOMAIN m.calls : m.calls[i].id = m.calls[j].id => i = j
    BY <1>7 DEF Calling
  <2>2. /\ q2.turns = Append(t, u) /\ q2.names = NamesAfter(names, m)
        /\ u \in ApiTurn /\ u.role # "user" /\ Called(u.blocks) = c
    BY <1>1, <1>4, <2>1 DEF Instructing
  <2>3. open' # {}
    <3>1. m.calls \in Seq(Call)
      BY MessageIs
    <3>2. DOMAIN m.calls # {}
      BY <2>1, <3>1, EmptySeq, LenProperties
    <3> QED
      BY <2>1, <3>2
  <2>4. open' = {c[j].id : j \in DOMAIN c}
    <3>1. DOMAIN c = DOMAIN m.calls /\ \A j \in DOMAIN c : c[j].id = m.calls[j].id
      BY <1>5
    <3> HIDE DEF c
    <3>2. {m.calls[i].id : i \in DOMAIN m.calls} = {c[j].id : j \in DOMAIN c}
      BY ONLY <3>1
    <3> QED
      BY <2>1, <3>2
  <2>5. \A j \in DOMAIN m.calls : NamesAfter(names, m)[m.calls[j].id] = m.calls[j].name
    BY <2>1, NamesOfCalls
  <2>6. AllOwed(c, open', NameKey, q2.names)
    <3>1. \A j \in DOMAIN c : NameKey[c[j]] = q2.names[c[j].id]
      BY <1>5, <2>2, <2>5
    <3>2. \A i, j \in DOMAIN c : c[i].id = c[j].id => i = j
      BY <1>5, <2>1
    <3> QED
      BY <2>3, <2>4, <3>1, <3>2 DEF AllOwed
  <2>7. AllMet(t, "functionResponse", NameKey)
    BY <1>2, <2>1 DEF Settled
  <2> QED
    BY <1>t, <2>2, <2>6, <2>7, CallsAwait
<1>8. CASE Returning(m)
  <2> DEFINE b == [kind |-> "functionResponse", name |-> names[m.of], at |-> m.parts[1].at]
             w == answer_turn(t, b)
  <2>1. m.role = "tool" /\ m.of \in open /\ open' = open \ {m.of} /\ m.of \in Ids
    BY <1>8, MessageIs DEF Returning
  <2>2. b \in NameBlock /\ b.kind = "functionResponse" /\ b.name = names[m.of]
    BY <1>t, <2>1, MessageIs DEF NameBlock
  <2>3. q2 = [q EXCEPT !.turns = w]
    <3>1. m.role \notin Instructing
      BY <2>1 DEF Instructing
    <3> QED
      BY <1>1, <2>1, <3>1 DEF gemini_turn, t, names
  <2> HIDE DEF b
  <2>4. b \in AnyBlock /\ NameKey[b] = names[m.of]
    <3>1. b \in AnyBlock
      BY <2>2 DEF AnyBlock
    <3> QED
      BY <2>2, <3>1 DEF NameKey
  <2>5. Awaiting(t, open, "functionResponse", NameKey, names)
    BY <1>2, <2>1 DEF Settled
  <2>6. Settled(w, open', "functionResponse", NameKey, names)
    BY <1>t, <1>3, <2>1, <2>2, <2>4, <2>5, ResultSettles
  <2> HIDE DEF w
  <2>7. q2.turns = w /\ q2.names = names
    BY <1>2, <2>3 DEF GeminiRequest, names
  <2> QED
    BY <2>6, <2>7
<1> QED
  BY <1>6, <1>7, <1>8 DEF Spoke, Attaching

ConversationInv == ConversationTyped /\ AnthropicSettled(conversation, open) /\ GeminiSettled(conversation, open)

LEMMA NothingSaid == AnthropicSettled(<<>>, {}) /\ GeminiSettled(<<>>, {})
<1>1. <<>> \in Seq(ChatMessage)
  BY EmptySeq
<1>2. \A roles : OthersOf(<<>>, roles) = <<>>
  BY <1>1, OthersAre, ThoseEmpty
<1>3. Unasked.turns = <<>>
  BY DEF Unasked
<1> QED
  BY <1>2, <1>3, AnthropicNone, GeminiNone, NoneSettled DEF AnthropicSettled, GeminiSettled

LEMMA ConversationKeeps == ASSUME ~Attachments PROVE ConversationInv /\ [BackendNext]_backendVars => ConversationInv'
<1> SUFFICES ASSUME ConversationInv, [BackendNext]_backendVars PROVE ConversationInv'
  OBVIOUS
<1>0. ConversationTyped'
  BY TypedKeeps DEF ConversationInv
<1>1. CASE Asked
  <2>1. PICK m \in ChatMessage : Spoke(m)
    BY <1>1, SpeaksAdds DEF Asked, ConversationInv
  <2> QED
    BY <1>0, <2>1, AnthropicKeeps, GeminiKeeps DEF ConversationInv, ConversationTyped
<1>2. CASE \E backend \in Protocols : send_to(backend)
  <2>1. conversation' = <<>> /\ open' = {}
    BY <1>2 DEF send_to, Ready
  <2> QED
    BY <1>0, <2>1, NothingSaid DEF ConversationInv
<1>3. CASE Answered \/ UNCHANGED backendVars
  <2>1. conversation' = conversation /\ open' = open
    BY <1>3 DEF Answered, backendVars
  <2> QED
    BY <1>0, <2>1 DEF ConversationInv
<1> QED
  BY <1>1, <1>2, <1>3 DEF BackendNext

\* A turn that called tools is followed by the results of exactly those calls, in both APIs, however many calls it made
\* and in whatever order they ended (backends.py:350, plugins.py:316), as long as a tool returns nothing but its result.
THEOREM ResultsFollow == ASSUME ~Attachments PROVE BackendSpec => []ResultsNext
<1>1. BackendInit => ConversationInv
  <2> SUFFICES ASSUME BackendInit PROVE ConversationInv
    OBVIOUS
  <2>1. conversation = <<>> /\ open = {}
    BY DEF BackendInit
  <2> QED
    BY <2>1, NothingSaid, EmptySeq DEF ConversationInv, ConversationTyped
<1>2. ConversationInv => ResultsNext
  <2> SUFFICES ASSUME ConversationInv, Ready PROVE ResultsNext
    BY DEF ResultsNext
  <2>1. conversation \in Seq(ChatMessage) /\ open = {}
    BY DEF ConversationInv, ConversationTyped, Ready
  <2>2. Anthropic.turns = anthropic_messages(OthersOf(conversation, {"system"}))
    BY DEF Anthropic, Without, OthersOf
  <2>3. Gemini.turns = gemini_messages(OthersOf(conversation, Instructing)).turns
    BY DEF Gemini, Without, OthersOf
  <2>m. PICK m : m \in ChatMessage
    BY <2>1, SequenceEmptyOrAppend DEF Ready
  <2>4. Anthropic.turns \in Seq(ApiTurn) /\ AllMet(Anthropic.turns, "tool_result", IdKey)
    BY <2>1, <2>2, <2>m, OthersAre, AnthropicMore DEF ConversationInv, AnthropicSettled, Settled
  <2>5. Gemini.turns \in Seq(ApiTurn) /\ AllMet(Gemini.turns, "functionResponse", NameKey)
    <3>1. gemini_messages(OthersOf(conversation, Instructing)) \in GeminiRequest
      BY <2>1, <2>m, OthersAre, GeminiMore
    <3> QED
      BY <2>1, <2>3, <3>1 DEF ConversationInv, GeminiSettled, Settled, GeminiRequest
  <2> QED
    BY <2>4, <2>5, MetMatches
<1>3. ConversationInv /\ [BackendNext]_backendVars => ConversationInv'
  BY ConversationKeeps
<1> QED
  BY <1>1, <1>2, <1>3, PTL DEF BackendSpec
=============================================================================
