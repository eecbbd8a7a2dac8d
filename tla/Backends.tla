------------------------------ MODULE Backends ------------------------------
(* A request of a Consumer, and the answer of the backend it is sent to.  A request the backend cannot read is refused *)
(* by the Provider's worker; once sent, only the answer matters.                                                       *)
EXTENDS Conversation, AnswerStream

backendVars == <<conversation, open, protocol, live, model, taken, streamed, outcome, flaw>>

inputs(backend) ==
  CASE backend = "codex" -> {"image", "link"}
    [] backend = "exec" -> {}
    [] OTHER -> {"image", "link", "file"}

Asked == protocol = "none" /\ Speaks /\ UNCHANGED streamVars

send_to(backend) ==
  /\ protocol = "none" /\ Ready /\ input_kinds \subseteq inputs(backend)
  /\ protocol' = backend /\ live' \in BOOLEAN /\ conversation' = <<>>
  /\ UNCHANGED <<open, model, taken, streamed, outcome, flaw>>

Answered == Streaming /\ UNCHANGED <<conversation, open>>

BackendNext == Asked \/ (\E backend \in Protocols : send_to(backend)) \/ Answered

BackendInit ==
  /\ conversation = <<>> /\ open = {} /\ protocol = "none" /\ live = FALSE /\ model = <<>> /\ taken = Nothing
  /\ streamed = <<>> /\ outcome = "none" /\ flaw = "none"

BackendSpec == BackendInit /\ [][BackendNext]_backendVars
=============================================================================
