---------------------------- MODULE AnswerStream ----------------------------
(***************************************************************************)
(* A backend's answer, put together from what a model's server streams:    *)
(* _stream of the OpenAI and Anthropic backends (provider/backends.py),    *)
(* the Gemini and exec ones (plugins.py) and _collect (codex.py).          *)
(*                                                                         *)
(* The model says blocks: texts, tool calls and thoughts, in pieces.  The  *)
(* backend streams text on as it comes, and its answer must be that text.  *)
(***************************************************************************)
EXTENDS Integers, FiniteSets, Sequences, SequencesExt

CONSTANTS
  Protocols,    \* of "chat", "responses", "anthropic", "gemini", "codex", "exec"
  StreamFaults, \* "cut": the stream ends early; "error": an event of it is an error; "retry": Codex asks its model again;
                \* "lost": a Codex delta is lost; "mixed": Codex messages interleave
  MaxBlocks, MaxPieces \* bounds

VARIABLES
  protocol, \* "none" before the request is sent
  live,     \* on_delta is given
  model,    \* the blocks the model has said
  taken,    \* what the backend has of them
  streamed, \* what it passed to on_delta
  outcome,  \* "none", "answer", "error"
  flaw      \* of the answer: "none"; "cut": it ends early; "disorder": Codex cannot have the text in order, or whole

streamVars == <<protocol, live, model, taken, streamed, outcome, flaw>>

Blank == <<0, 0>> \* the blank line between two messages
Piece(b) == <<b, model[b].pieces + 1>>
Pieces(b) == [i \in 1..model[b].pieces |-> <<b, i>>]
Nothing == [messages |-> <<>>, items |-> <<>>, calls |-> <<>>, usage |-> FALSE, stopping |-> FALSE]

Running == protocol # "none" /\ outcome = "none"
Finished(b) == model[b].done
IsText(b) == model[b].kind = "text"

-----------------------------------------------------------------------------
(* The model: its blocks come one after the other. *)

Kinds == IF protocol = "exec" THEN {"text"} ELSE {"text", "call", "thought"}

CallTaken(b, pieces) ==
  [taken EXCEPT !.calls = [c \in DOMAIN @ \cup {b} |-> (IF c \in DOMAIN @ THEN @[c] ELSE <<>>)
                                                      \o (IF c = b THEN pieces ELSE <<>>)]]

begins(kind) ==
  /\ Running /\ Len(model) < MaxBlocks /\ kind \in Kinds /\ ~taken.stopping
  /\ \/ (\A b \in DOMAIN model : Finished(b)) /\ UNCHANGED flaw
     \/ /\ protocol = "codex" /\ "mixed" \in StreamFaults /\ kind = "text" /\ flaw = "none"
        /\ \E b \in DOMAIN model : ~Finished(b)
        /\ flaw' = "disorder"
  /\ model' = Append(model, [kind |-> kind, pieces |-> 0, done |-> kind = "thought", lost |-> FALSE])
  \* The Messages API says that a call begins before any of its arguments.
  /\ taken' = IF protocol = "anthropic" /\ kind = "call" THEN CallTaken(Len(model) + 1, <<>>) ELSE taken
  /\ UNCHANGED <<protocol, live, streamed, outcome>>

Grows(b) == model[b].pieces < MaxPieces /\ ~Finished(b)
More(b) == [model EXCEPT ![b].pieces = @ + 1]

-----------------------------------------------------------------------------
(* The backend *)

on_delta(text) == streamed' = IF live THEN streamed \o text ELSE streamed

Extended(messages, text) == [messages EXCEPT ![Len(messages)] = @ \o text]

\* Mutant: the blank line between messages is in the answer only.
piece_joined(b, text) ==
  LET new == taken.items = <<>> \/ Last(taken.items) # b IN
  /\ taken' = [taken EXCEPT !.items = IF new THEN Append(@, b) ELSE @,
                            !.messages = IF new THEN Append(@, text) ELSE Extended(@, text)]
  /\ on_delta(text)

\* _collect: a piece of a message, a blank line before the first of a later one.
piece(b, text) ==
  LET new == taken.items = <<>> \/ Last(taken.items) # b IN
  /\ taken' = [taken EXCEPT !.items = IF new THEN Append(@, b) ELSE @,
                            !.messages = IF new THEN Append(@, text) ELSE Extended(@, text)]
  /\ on_delta((IF new /\ taken.items # <<>> THEN <<Blank>> ELSE <<>>) \o text)

\* The others: all text is one.  Of a Responses stream only the last event's text counts.
append_text(text) ==
  /\ taken' = IF protocol = "responses" THEN taken ELSE [taken EXCEPT !.messages = <<FlattenSeq(@) \o text>>]
  /\ on_delta(text)

text_piece(b) ==
  /\ Running /\ IsText(b) /\ Grows(b) /\ model' = More(b) /\ UNCHANGED <<protocol, live, outcome>>
  /\ IF protocol = "codex"
     THEN piece(b, <<Piece(b)>>) /\ flaw' = IF model[b].lost THEN "disorder" ELSE flaw
     ELSE append_text(<<Piece(b)>>) /\ UNCHANGED flaw

lost_piece(b) ==
  /\ Running /\ protocol = "codex" /\ "lost" \in StreamFaults /\ IsText(b) /\ Grows(b)
  /\ model' = [More(b) EXCEPT ![b].lost = TRUE] /\ UNCHANGED <<protocol, live, taken, streamed, outcome, flaw>>

\* A call comes in pieces, found again by its index, or whole.
call_piece(b) ==
  /\ Running /\ model[b].kind = "call" /\ Grows(b) /\ UNCHANGED <<protocol, live, streamed, outcome, flaw>>
  /\ protocol \in {"codex", "gemini"} => model[b].pieces = 0
  /\ model' = More(b)
  /\ taken' = IF protocol = "responses" THEN taken ELSE CallTaken(b, <<Piece(b)>>)

\* Mutant: a message that was streamed at all is taken for whole.
rest_of_none(b) == <<>>

\* What the deltas did not bring of a message that is now whole.
rest_of(b) ==
  LET at == CHOOSE i \in DOMAIN taken.items : taken.items[i] = b /\ \A j \in 1..(i - 1) : taken.items[j] # b
      had == taken.messages[at]
  IN IF IsPrefix(had, Pieces(b)) THEN SubSeq(Pieces(b), Len(had) + 1, model[b].pieces) ELSE <<>>

\* A block is whole.  Codex says so of a message and repeats its text.
completed(b) ==
  /\ Running /\ ~Finished(b) /\ model' = [model EXCEPT ![b].done = TRUE] /\ UNCHANGED <<protocol, live, outcome, flaw>>
  /\ (model[b].kind = "call" /\ protocol # "anthropic") => model[b].pieces > 0
  /\ IF protocol = "codex" /\ IsText(b) THEN
       IF b \notin Range(taken.items) THEN piece(b, Pieces(b))
       ELSE IF rest_of(b) # <<>> THEN piece(b, rest_of(b))
       ELSE UNCHANGED <<taken, streamed>>
     ELSE UNCHANGED <<taken, streamed>>

\* Codex reports the usage of each of the model's replies.  Once tools were called it ends the turn.
usage ==
  /\ Running /\ protocol = "codex" /\ (\A b \in DOMAIN model : Finished(b))
  /\ taken' = [taken EXCEPT !.usage = TRUE, !.stopping = taken.calls # <<>>]
  /\ taken' # taken /\ UNCHANGED <<protocol, live, model, streamed, outcome, flaw>>

\* It waits so long for the usage, and no longer.
stop ==
  /\ Running /\ protocol = "codex" /\ taken.calls # <<>> /\ ~taken.stopping
  /\ taken' = [taken EXCEPT !.stopping = TRUE] /\ UNCHANGED <<protocol, live, model, streamed, outcome>>
  /\ flaw' = IF flaw = "none" /\ \E b \in DOMAIN model : ~Finished(b) THEN "cut" ELSE flaw

\* An error that Codex will retry changes nothing here.  What its model had not finished is given up, and may be said
\* again as something new; a call that was not made is none.
GivenUp(b) == [model[b] EXCEPT !.done = TRUE, !.kind = IF @ = "call" /\ b \notin DOMAIN taken.calls THEN "thought" ELSE @]
retries ==
  /\ Running /\ protocol = "codex" /\ "retry" \in StreamFaults /\ UNCHANGED <<protocol, live, taken, streamed, outcome>>
  /\ \E b \in DOMAIN model : ~Finished(b)
  /\ model' = [b \in DOMAIN model |-> IF Finished(b) THEN model[b] ELSE GivenUp(b)]
  /\ flaw' = IF \E b \in DOMAIN model : ~Finished(b) /\ model[b].lost THEN "disorder" ELSE flaw

-----------------------------------------------------------------------------
(* The end *)

Whole_text == FlattenSeq([b \in DOMAIN model |-> IF IsText(b) THEN Pieces(b) ELSE <<>>])
Whole_calls == [b \in {c \in DOMAIN model : model[c].kind = "call"} |-> Pieces(b)]

\* The answer's text: Codex's messages are joined by a blank line; an OpenAI server's last event has its own.
output_text ==
  CASE protocol \in {"responses", "exec"} -> Whole_text
    [] protocol = "codex" -> FlattenSeq([i \in DOMAIN taken.messages |->
                               (IF i > 1 THEN <<Blank>> ELSE <<>>) \o taken.messages[i]])
    [] OTHER -> FlattenSeq(taken.messages)
output_calls == IF protocol = "responses" THEN Whole_calls ELSE taken.calls

Ends(how) == outcome' = how /\ UNCHANGED <<protocol, live, model, taken, streamed>>

turn_ends ==
  /\ Running /\ UNCHANGED flaw
  /\ (\A b \in DOMAIN model : Finished(b)) \/ taken.stopping
  /\ IF protocol = "codex" /\ ~taken.usage THEN Ends("error") ELSE Ends("answer")

\* The model's server is not reached, or refuses, or its connection breaks.
fails == Running /\ Ends("error") /\ UNCHANGED flaw

\* An event of the stream says that the server failed.  The chat and Gemini readers know no such event: the stream ends
\* after it, and what they have is the answer.
reports_error ==
  /\ Running /\ "error" \in StreamFaults
  /\ IF live /\ protocol \in {"chat", "gemini"} THEN Ends("answer") /\ flaw' = "cut" ELSE Ends("error") /\ UNCHANGED flaw

\* These protocols have a last event, without which there is no answer; one that is not streamed is whole or none.
Announced == protocol \in {"responses", "codex", "exec"} \/ ~live

\* Otherwise the end of a stream is the end of the answer, unless the input of a call of the Messages API is no JSON: what
\* came of one may be.
cut ==
  /\ Running /\ "cut" \in StreamFaults
  /\ \/ ~Announced /\ Ends("answer") /\ flaw' = "cut"
     \/ /\ \/ Announced
           \/ protocol = "anthropic" /\ \E b \in DOMAIN taken.calls : ~Finished(b) /\ model[b].pieces > 0
        /\ Ends("error") /\ UNCHANGED flaw

Streaming ==
  \/ \E kind \in {"text", "call", "thought"} : begins(kind)
  \/ \E b \in DOMAIN model : text_piece(b) \/ lost_piece(b) \/ call_piece(b) \/ completed(b)
  \/ usage \/ stop \/ retries \/ turn_ends \/ fails \/ reports_error \/ cut

-----------------------------------------------------------------------------
\* What was streamed is the text of the answer, or the Consumer rejects what it pays for (consumer.py:133; codex.py:532:
\* "the streamed text and the receipted text are always the same").
StreamedIsAnswer == (outcome = "answer" /\ streamed # <<>>) => streamed = output_text

\* A text without the blank lines between its messages.
Words(text) == FlattenSeq([i \in DOMAIN text |-> IF text[i] = Blank THEN <<>> ELSE <<text[i]>>])

\* An answer is what the model said, whatever went wrong: every text once and in order, with what had come of one that
\* was given up, though the last deltas of a Codex message are lost; and every call, as it was made.  It is whole unless
\* its stream was cut, and it is never cut if the protocol has a last event or it is not streamed.  The others may answer
\* with the first part only, and do not tell.
AnswerWhole ==
  outcome = "answer" =>
    /\ flaw # "disorder" /\ (\A b \in DOMAIN model : model[b].lost => Finished(b)) => Words(output_text) = Whole_text
    /\ \A b \in DOMAIN output_calls : b \in DOMAIN Whole_calls /\ output_calls[b] = Whole_calls[b]
    /\ \A b \in DOMAIN Whole_calls : Finished(b) => b \in DOMAIN output_calls
    /\ flaw = "none" \/ (Announced /\ protocol # "codex") => \A b \in DOMAIN model : Finished(b)
=============================================================================
