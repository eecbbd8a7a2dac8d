---------------------------- MODULE RelayHistory ----------------------------
(***************************************************************************)
(* The Relay with what nobody records: the fees that were settled behind   *)
(* the back of a request that had read the chain and not yet decided,      *)
(* the fees that settled after their receipt was given up, and those it    *)
(* admitted without knowing a budget.                                      *)
(***************************************************************************)
EXTENDS RelayCore

VARIABLE slip   \* by key, owner and Provider

\* Requests that will decide on what they read of `value'.
Stale(value) == {t \in InPc({"reading", "granted", "over", "checked"}) : HasRead(t, value)}

\* Requests that are being admitted without their key's budget, because it could not be read.
AdmittedBlind == {t \in InPc({"checked"}) : requests'[t].pc = "admitted" /\ requests[t].reads.limit # Limit[Key(t)]}

SettledNow == {r \in Receipts : chain.status[r] = "none" /\ chain'.status[r] = "pending"}

\* What of S settles now and was not there for those who had read the chain, or not in the queue.
Missed(S, stale) == FeesOf({r \in S \cap SettledNow : stale # {} \/ rows[r].state = "rejected"})

HInit == Init /\ slip = Nothing

HNext ==
  /\ Next
  /\ slip' = [key |-> [k \in Keys |->
                 slip.key[k] + Missed(OfKey(Receipts, k), {t \in Stale("spent") : Key(t) = k})
                             + FeesIn({t \in AdmittedBlind : Key(t) = k})],
              owner |-> [o \in Owners |->
                 slip.owner[o] + Missed(OfOwner(Receipts, o), {t \in Stale("balance") : Owner(t) = o})],
              provider |-> [p \in Providers |->
                 slip.provider[p] + Missed(OfProvider(Receipts, p), {t \in Stale("exposure") : Provider(t) = p})]]

HSpec == HInit /\ [][HNext]_<<vars, slip>>

-----------------------------------------------------------------------------
\* What a set of requests and receipts may still cost.
Open(T, S) == FeesIn(T \cap InPc({"admitted", "sent", "answered"})) + Uncharged(S)

OpenOfKey(k) == Open({t \in Requests : Key(t) = k}, OfKey(Receipts, k))
OpenOfOwner(o) == Open({t \in Requests : Owner(t) = o}, OfOwner(Receipts, o))
OpenOfProvider(p) == Open({t \in Requests : Provider(t) = p}, OfProvider(Receipts, p))

\* Admission decides on reads that may be old, but it counts every request and receipt of its own: what it
\* admits exceeds a budget, a deposit or an exposure cap by no more than was settled behind its back, and a
\* budget by what it admitted when it could not read it.
OverAdmissionBounded ==
  /\ \A k \in Keys : Limit[k] # 0 => chain.spent[k] + OpenOfKey(k) <= Limit[k] + slip.key[k]
  /\ \A o \in Owners : OpenOfOwner(o) <= chain.balance[o] + slip.owner[o]
  /\ \A p \in Providers : chain.exposure[p] + OpenOfProvider(p) <= Cap[p] + slip.provider[p]
=============================================================================
