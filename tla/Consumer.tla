------------------------------ MODULE Consumer ------------------------------
(***************************************************************************)
(* The Consumer's end of a request (mycomesh/consumer.py): it seals a      *)
(* request to the transport key a Relay published, and reads the stream it *)
(* gets back, checking every delta and the receipted response.             *)
(***************************************************************************)
EXTENDS SecureTransport, Sequences

CONSTANTS
  Calls,            \* HTTP requests to the Relay
  Authorizations,
  AuthorizationOf,  \* the authorization a call carries; a retry carries the same
  ExecutionTime,    \* execute_by - issued_at
  FrameTtl,         \* ttl_seconds of requests, deltas and responses
  ReplyKeyLifetime,
  ClockAhead,       \* the Consumer's clock minus everybody else's
  MaxTime           \* bound of the clock

ASSUME ConsumerAssumption ==
  /\ AuthorizationOf \in [Calls -> Authorizations]
  /\ ExecutionTime \in Nat /\ FrameTtl \in Nat \ {0} /\ ReplyKeyLifetime \in Nat /\ ClockAhead \in Int

VARIABLES
  now,
  payloads,  \* per authorization, what prepare_request made, or Nobody
  clients    \* per call: idle, waiting, and how it ended; how many deltas were shown

consumerVars == <<payloads, clients>>

Auth(c) == AuthorizationOf[c]
ConsumerNow == now + ClockAhead
Payload(c) == payloads[Auth(c)]
ClientIs(c, state) == clients[c].state = state

verify_authorization(authorization, current) ==
  /\ authorization.issued_at <= current + MAX_CLOCK_SKEW_SECONDS
  /\ current <= authorization.execute_by

\* Seals to the published key, with a reply key of its own, if the key lasts as long as the frame.
prepare_request(a, binding) ==
  LET reply == generate_transport_key("consumer", <<"reply", a>>, ReplyKeyLifetime, ConsumerNow) IN
  /\ payloads[a] = Nobody
  /\ ConsumerNow >= 0
  /\ sealable(binding, "provider", FrameTtl, ConsumerNow)
  /\ payloads' = [payloads EXCEPT ![a] =
       [authorization |-> [id |-> a, issued_at |-> ConsumerNow, execute_by |-> ConsumerNow + ExecutionTime],
        sealed_request |-> seal_frame(a, "consumer", binding, "request", FrameTtl, ConsumerNow),
        reply_transport_key |-> reply]]
  /\ UNCHANGED clients

\* What the Provider sealed to the reply key at a time.
sealed_reply(c, purpose, message_id, sealed_at) ==
  seal_frame(message_id, "provider", Payload(c).reply_transport_key, purpose, FrameTtl, sealed_at)
opens_reply(c, purpose, message_id, sealed_at) ==
  opens(sealed_reply(c, purpose, message_id, sealed_at), Payload(c).reply_transport_key, purpose, "provider", ConsumerNow)

\* A delta must be the next one; the Relay may lose the rest but not reorder them.
open_delta(client, c, delta) ==
  IF delta.seq = client.shown /\ opens_reply(c, "delta", delta.seq, delta.sealed_at)
    THEN [client EXCEPT !.shown = @ + 1] ELSE [client EXCEPT !.state = "failed"]

\* The answer must be for this authorization, still open, and add up to what was shown.
open_response(client, c, answer) ==
  LET good == /\ answer.authorization = Auth(c)
              /\ opens_reply(c, "response", answer.receipt, answer.sealed_at)
              /\ client.shown > 0 => client.shown = answer.length
  IN [client EXCEPT !.state = IF good THEN "answered" ELSE "failed"]

\* One line of the Relay's stream; nothing is read after the result or an error.  An error that says the request
\* was not dispatched lets the Consumer take it to another Provider (packages/mycomesh-cli/src/consumer.mjs:365).
stream(client, c, line) ==
  IF client.state # "waiting" THEN client
  ELSE CASE line.type = "delta"  -> open_delta(client, c, line.delta)
         [] line.type = "result" -> open_response(client, c, line.answer)
         [] line.type = "error"  -> [client EXCEPT !.state = IF line.dispatched THEN "failed" ELSE "moved"]
read_stream(c, line) == clients' = [clients EXCEPT ![c] = stream(@, c, line)]

ConsumerInit ==
  /\ payloads = [a \in Authorizations |-> Nobody]
  /\ clients = [c \in Calls |-> [state |-> "idle", shown |-> 0]]
=============================================================================
