---------------------------- MODULE Conversation ----------------------------
(***************************************************************************)
(* What a chat request becomes on its way to a model: anthropic_messages   *)
(* (mycomesh/provider/backends.py), the contents of a Gemini request       *)
(* (plugins.py), and conversation_of and prompt_of (codex.py).             *)
(*                                                                         *)
(* A part of a message is its kind and its place in the conversation;      *)
(* the words do not matter, only that each part arrives, once and in       *)
(* order.  A tool call has an id of the client's and the tool's name.      *)
(***************************************************************************)
EXTENDS Integers, FiniteSets, Sequences, SequencesExt

CONSTANTS
  Ids, Names,   \* of tool calls and of tools
  UserContents, \* what a user's message may hold: sequences of "text", "image" (data:), "link" (an image's URL), "file"
  Attachments,  \* whether what a tool returns may bring a user message with it, next to its result
  MaxMessages   \* bound

ASSUME ConversationAssumption == UserContents \subseteq Seq({"text", "image", "link", "file"})

VARIABLES
  conversation, \* the messages, as the client built them
  open          \* the calls of the last assistant message that have no result yet

Message(role, parts, calls, of) == [role |-> role, parts |-> parts, calls |-> calls, of |-> of]
Here == Len(conversation) + 1
PartsOf(kinds) == [i \in DOMAIN kinds |-> [kind |-> kinds[i], at |-> <<Here, i>>]]
Says(message) == Here <= MaxMessages /\ conversation' = Append(conversation, message)

-----------------------------------------------------------------------------
(* The client *)

says(role) ==
  /\ open = {} /\ UNCHANGED open
  /\ \E kinds \in IF role = "user" THEN UserContents ELSE {<<"text">>} : Says(Message(role, PartsOf(kinds), <<>>, "none"))

\* An assistant's turn that called tools, with or without a remark.
called(calls) ==
  /\ open = {} /\ open' = {calls[i].id : i \in DOMAIN calls}
  /\ \E kinds \in {<<>>, <<"text">>} : Says(Message("assistant", PartsOf(kinds), calls, "none"))

\* The results come in any order, and with a result what the tool attached to it.
returned(id) ==
  /\ id \in open /\ open' = open \ {id} /\ Says(Message("tool", PartsOf(<<"text">>), <<>>, id))
attached ==
  /\ Attachments /\ conversation # <<>> /\ Last(conversation).role = "tool" /\ UNCHANGED open
  /\ Says(Message("user", PartsOf(<<"text", "image">>), <<>>, "none"))

Call == [id : Ids, name : Names]
Turns == {<<c>> : c \in Call} \cup {<<c, d>> : c, d \in Call}

Speaks ==
  \/ \E role \in {"system", "developer", "user", "assistant"} : says(role)
  \/ \E calls \in Turns : (\A i, j \in DOMAIN calls : calls[i].id = calls[j].id => i = j) /\ called(calls)
  \/ \E id \in Ids : returned(id)
  \/ attached

\* What a Provider is asked to go on from.
Ready == conversation # <<>> /\ open = {} /\ Last(conversation).role \in {"user", "tool"}

input_kinds == {p.kind : p \in UNION {Range(m.parts) : m \in Range(conversation)}} \ {"text"}

-----------------------------------------------------------------------------
(* Messages API and Gemini *)

\* The elements of a sequence that are in a set, in their order.
Those(s, S) == FlattenSeq([i \in DOMAIN s |-> IF s[i] \in S THEN <<s[i]>> ELSE <<>>])

Parts(messages) == FlattenSeq([i \in DOMAIN messages |-> messages[i].parts])
Instructing == {"system", "developer"}
\* What messages of these roles say goes ahead of the others.
Hoisted(roles) == Parts(Those(conversation, {m \in Range(conversation) : m.role \in roles}))
Without(roles) == Those(conversation, {m \in Range(conversation) : m.role \notin roles})

\* Mutant: a result is a turn of its own.
answer_turn_alone(turns, block) == Append(turns, [role |-> "user", blocks |-> <<block>>])

\* Results that follow each other are one turn.
answer_turn(turns, block) ==
  IF turns # <<>> /\ Last(turns).role = "user" /\ \A b \in Range(Last(turns).blocks) : b.kind = block.kind
  THEN [turns EXCEPT ![Len(turns)].blocks = Append(@, block)]
  ELSE Append(turns, [role |-> "user", blocks |-> <<block>>])

CallBlocks(m, n, kind) ==
  [i \in DOMAIN m.calls |-> [kind |-> kind, id |-> m.calls[i].id, name |-> m.calls[i].name, at |-> <<n, i>>]]

anthropic_turn(turns, m) ==
  IF m.role = "tool" THEN answer_turn(turns, [kind |-> "tool_result", id |-> m.of, at |-> m.parts[1].at])
  ELSE Append(turns, [role |-> m.role, blocks |-> m.parts \o CallBlocks(m, Len(turns), "tool_use")])

anthropic_messages(messages) ==
  LET after[n \in 0..Len(messages)] == IF n = 0 THEN <<>> ELSE anthropic_turn(after[n - 1], messages[n])
  IN after[Len(messages)]

Anthropic == [system |-> Hoisted({"system"}), turns |-> anthropic_messages(Without({"system"}))]

gemini_parts(parts) ==
  [i \in DOMAIN parts |-> [parts[i] EXCEPT !.kind = IF @ \in {"image", "file"} THEN "inlineData" ELSE "text"]]

\* A result names the tool its call named, the latest of that id.
gemini_turn(request, m) ==
  IF m.role = "tool"
  THEN [request EXCEPT !.turns =
          answer_turn(@, [kind |-> "functionResponse", name |-> request.names[m.of], at |-> m.parts[1].at])]
  ELSE [turns |-> Append(request.turns, [role |-> IF m.role = "assistant" THEN "model" ELSE "user",
                    blocks |-> gemini_parts(m.parts) \o CallBlocks(m, Len(request.turns), "functionCall")]),
        names |-> [id \in Ids |-> IF \E c \in Range(m.calls) : c.id = id
                                  THEN (CHOOSE c \in Range(m.calls) : c.id = id).name ELSE request.names[id]]]

gemini_messages(messages) ==
  LET after[n \in 0..Len(messages)] ==
        IF n = 0 THEN [turns |-> <<>>, names |-> [id \in Ids |-> "tool"]] ELSE gemini_turn(after[n - 1], messages[n])
  IN after[Len(messages)]

Gemini == [system |-> Hoisted(Instructing), turns |-> gemini_messages(Without(Instructing)).turns]

-----------------------------------------------------------------------------
(* Codex *)

user_item(m) == [type |-> "user", blocks |-> [i \in DOMAIN m.parts |->
  [m.parts[i] EXCEPT !.kind = IF @ \in {"image", "link"} THEN "input_image" ELSE "input_text"]]]

items_of(m) ==
  CASE m.role = "tool" -> <<[type |-> "function_call_output", blocks |-> <<[kind |-> "result", id |-> m.of, at |-> m.parts[1].at]>>]>>
    [] m.role = "user" -> <<user_item(m)>>
    [] m.role = "assistant" ->
         (IF m.parts = <<>> THEN <<>> ELSE <<[type |-> "assistant", blocks |-> m.parts]>>)
         \o [i \in DOMAIN m.calls |-> [type |-> "function_call", blocks |-> <<CallBlocks(m, 0, "call")[i]>>]]

\* prompt_of: one text, of the texts alone.
Texts(parts) == Those(parts, {p \in Range(parts) : p.kind = "text"})
prompt_of == [system |-> Hoisted(Instructing), history |-> <<>>, prompt |-> Texts(Parts(Without(Instructing)))]

\* Mutant: the turn's input is in its history too.
history_and_last(items) == items

\* The last user message is this turn's input, and all before it the history.
history_of(items) == IF Last(items).type = "user" THEN Front(items) ELSE items

Items(messages) == FlattenSeq([i \in DOMAIN messages |-> items_of(messages[i])])
conversation_of ==
  LET items == Items(Without(Instructing))
  IN IF items = <<>> \/ Last(items).type \notin {"user", "function_call_output"} THEN prompt_of
     ELSE [system |-> Hoisted(Instructing), history |-> history_of(items),
           prompt |-> IF Last(items).type = "user" THEN Last(items).blocks ELSE <<>>]

-----------------------------------------------------------------------------
\* What a request says, in order: the parts of its messages, each once, an image as an image (or by its URL).
Blocks(turns) == FlattenSeq([i \in DOMAIN turns |-> turns[i].blocks])
Said(request) == request.system \o Blocks(request.turns)
SaidToCodex(request) == request.system \o Blocks(request.history) \o request.prompt
IsCall(block) == block.kind \in {"tool_use", "functionCall", "call"}
Called(blocks) == Those(blocks, {b \in Range(blocks) : IsCall(b)})
Spoken(blocks) == Those(blocks, {b \in Range(blocks) : ~IsCall(b)})

TextKinds == {"text", "input_text"}
SameParts(spoken, parts) ==
  /\ Len(spoken) = Len(parts)
  /\ \A i \in DOMAIN parts : spoken[i].at = parts[i].at /\ (parts[i].kind = "image" => spoken[i].kind \notin TextKinds)
SameCalls(sent, calls) ==
  Len(sent) = Len(calls) /\ \A i \in DOMAIN calls : sent[i].id = calls[i].id /\ sent[i].name = calls[i].name
Whole(blocks, first) ==
  /\ SameParts(Spoken(blocks), Hoisted(first) \o Parts(Without(first)))
  /\ SameCalls(Called(blocks), FlattenSeq([i \in DOMAIN conversation |-> conversation[i].calls]))

\* Every backend is told the whole conversation: each part of each message, each call and each result, once and in order.
RequestWhole ==
  Ready => /\ Whole(Said(Anthropic), {"system"})
           /\ Whole(Said(Gemini), Instructing)
           /\ "file" \notin input_kinds => Whole(SaidToCodex(conversation_of), Instructing)

\* Codex with its own instructions is told the images its Provider says it reads (codex.py:363).
PromptWhole == (Ready /\ "file" \notin input_kinds) => Whole(SaidToCodex(prompt_of), Instructing)

\* The turn after one that called tools holds the results of exactly those calls and nothing else: both APIs refuse any
\* other (backends.py:350: "tool_result blocks on the next user turn (consecutive results merged into one)").
Matches(turns, result, Key(_)) ==
  \A i \in DOMAIN turns :
    LET calls == Called(turns[i].blocks)
        next == turns[i + 1]
        Count(blocks, k) == Cardinality({j \in DOMAIN blocks : Key(blocks[j]) = k})
    IN calls # <<>> =>
         /\ i < Len(turns) /\ next.role = "user" /\ \A b \in Range(next.blocks) : b.kind = result
         /\ Len(next.blocks) = Len(calls)
         /\ \A b \in Range(calls) : Count(next.blocks, Key(b)) = Count(calls, Key(b))
ResultsNext ==
  LET ById(b) == b.id   ByName(b) == b.name
  IN Ready => Matches(Anthropic.turns, "tool_result", ById) /\ Matches(Gemini.turns, "functionResponse", ByName)
=============================================================================
