----------------------------- MODULE MCProvider -----------------------------
(***************************************************************************)
(* Small Providers for TLC: requests made on the chain; the app-servers of *)
(* a Codex backend; and a Consumer's request, what a backend makes of it,  *)
(* and its answer.  The three share no state, so no property of one        *)
(* depends on another, and TLC interleaves none with another: one moves    *)
(* only while the others have not.                                         *)
(***************************************************************************)
EXTENDS OnchainRequests, CodexPool, Backends

CONSTANTS r1, relayA, relayB, providerA, providerB, c1, c2

ProviderInit == Init /\ PoolInit /\ BackendInit
ProviderNext ==
  \/ PoolInit /\ BackendInit /\ Next /\ UNCHANGED <<poolVars, backendVars>>
  \/ Init /\ BackendInit /\ PoolNext /\ UNCHANGED <<vars, backendVars>>
  \/ Init /\ PoolInit /\ BackendNext /\ UNCHANGED <<vars, poolVars>>
ProviderSpec == ProviderInit /\ [][ProviderNext]_<<vars, poolVars, backendVars>>

Contents == {<<"text">>, <<"text", "image">>, <<"link", "file">>}
TwoProviders == <<providerA, providerB>>
Symmetry == Permutations(Callers) \cup Permutations(Relays)
=============================================================================
