---- MODULE MCLink ----
(* Two calls that carry one authorization: the Relay or its Consumer sends it twice. *)
EXTENDS ProviderLink, TLC
CONSTANTS call1, call2, auth1
AuthOf == (call1 :> auth1) @@ (call2 :> auth1)
CallSymmetry == Permutations({call1, call2})
====
