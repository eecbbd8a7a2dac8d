-------------------------- MODULE SecureTransport --------------------------
(***************************************************************************)
(* Signed documents, transport keys, sealed frames and the replay store    *)
(* (mycomesh/identity.py, secure_transport.py, replay.py, protocol.py).    *)
(*                                                                         *)
(* Cryptography is ideal: a record carries the fields that were signed or  *)
(* sealed and nobody else can make it, so what is left of the code is what *)
(* it compares: owners, purposes, key ids, and above all times.  Times are *)
(* those of the caller's clock; every host may have its own.               *)
(***************************************************************************)
EXTENDS Integers

CONSTANTS
  MAX_ENVELOPE_TTL_SECONDS,
  MAX_TRANSPORT_KEY_LIFETIME_SECONDS,
  MAX_CLOCK_SKEW_SECONDS,     \* also the 30 s verify_document and verify_authorization grant
  SIGNATURE_MAX_AGE_SECONDS,
  Nobody                      \* a signature without an audience; also no key, no frame

ASSUME TransportAssumption ==
  /\ MAX_ENVELOPE_TTL_SECONDS \in Nat \ {0} /\ MAX_TRANSPORT_KEY_LIFETIME_SECONDS \in Nat
  /\ MAX_CLOCK_SKEW_SECONDS \in Nat /\ SIGNATURE_MAX_AGE_SECONDS \in Nat

-----------------------------------------------------------------------------
(* Documents *)

sign_document(signer, purpose, audience, now) ==
  [public_key |-> signer, purpose |-> purpose, audience |-> audience, timestamp |-> now]

\* An age limit of 0 is none, and then the future is not refused either.
verify_document(signature, purpose, audience, max_age, now) ==
  /\ signature.purpose = purpose
  /\ audience # Nobody => signature.audience = audience
  /\ max_age > 0 => /\ signature.timestamp <= now + MAX_CLOCK_SKEW_SECONDS
                    /\ now - signature.timestamp <= max_age

-----------------------------------------------------------------------------
(* Transport keys *)

generate_transport_key(peer, id, lifetime, now) ==
  [peer_id |-> peer, key_id |-> id, not_before |-> now, expires_at |-> now + lifetime,
   signature |-> sign_document(peer, "key_binding", Nobody, now)]

verify_transport_key_binding(binding, peer, now) ==
  LET signed == binding.signature IN
  /\ binding.peer_id = peer
  /\ binding.expires_at > binding.not_before
  /\ binding.expires_at - binding.not_before <= MAX_TRANSPORT_KEY_LIFETIME_SECONDS
  /\ signed.timestamp - binding.not_before \in -MAX_CLOCK_SKEW_SECONDS .. MAX_CLOCK_SKEW_SECONDS
  /\ signed.timestamp <= now + MAX_CLOCK_SKEW_SECONDS
  /\ binding.not_before <= now + MAX_CLOCK_SKEW_SECONDS
  /\ binding.expires_at > now
  /\ signed.public_key = binding.peer_id
  /\ verify_document(signed, "key_binding", Nobody, 0, now)

-----------------------------------------------------------------------------
(* Frames *)

\* What seal_frame refuses to seal.
sealable(binding, peer, ttl, now) ==
  /\ ttl \in 1 .. MAX_ENVELOPE_TTL_SECONDS
  /\ verify_transport_key_binding(binding, peer, now)
  /\ now + ttl <= binding.expires_at

seal_frame(message_id, sender, binding, purpose, ttl, now) ==
  [message_id |-> message_id, purpose |-> purpose, sender_peer_id |-> sender,
   recipient_peer_id |-> binding.peer_id, recipient_key_id |-> binding.key_id,
   issued_at |-> now, expires_at |-> now + ttl,
   signature |-> sign_document(sender, "envelope", binding.peer_id, now)]

\* What open_frame checks before it asks the replay store; sender is Nobody when any will do.
opens(frame, key, purpose, sender, now) ==
  /\ verify_transport_key_binding(key, key.peer_id, now)
  /\ frame.purpose = purpose
  /\ sender # Nobody => frame.sender_peer_id = sender
  /\ frame.recipient_peer_id = key.peer_id /\ frame.recipient_key_id = key.key_id
  /\ frame.expires_at > frame.issued_at
  /\ frame.expires_at - frame.issued_at <= MAX_ENVELOPE_TTL_SECONDS
  /\ frame.issued_at <= now + MAX_CLOCK_SKEW_SECONDS
  /\ frame.expires_at > now
  /\ frame.issued_at >= key.not_before - MAX_CLOCK_SKEW_SECONDS
  /\ frame.expires_at <= key.expires_at
  /\ frame.signature.public_key = frame.sender_peer_id
  /\ frame.signature.timestamp = frame.issued_at
  /\ verify_document(frame.signature, "envelope", key.peer_id, 0, now)

-----------------------------------------------------------------------------
(* The replay store: a table of keys, each until it expires *)

ReplayKey(frame) == <<frame.sender_peer_id, frame.recipient_key_id, frame.message_id>>
Unexpired(store, now) == {row \in store : row.expires_at > now}
replayed(store, frame, now) == \E row \in Unexpired(store, now) : row.replay_key = ReplayKey(frame)

\* open_frame asks for what is left of the frame's life, at least 1; a replay changes nothing.
remember(store, frame, now) ==
  LET left == frame.expires_at - now IN
  Unexpired(store, now) \cup {[replay_key |-> ReplayKey(frame), expires_at |-> now + IF left < 1 THEN 1 ELSE left]}
=============================================================================
