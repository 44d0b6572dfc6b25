----------------------------- MODULE LlmSurface -----------------------------
(***************************************************************************)
(* One call of the IPC client (runtime/src/ipc/client.rs) to the Python    *)
(* server (llm_surface/server.py): the request, its validation, the        *)
(* handler around one request to OpenAI, the mapping of the completion to  *)
(* the response, and what the client makes of it.                          *)
(*                                                                         *)
(* Client and server fail apart: the connection may break and the client's *)
(* timeout may fire at any point, and the server goes on serving a request *)
(* that nobody awaits.                                                     *)
(***************************************************************************)
EXTENDS Naturals

CONSTANT Requests       \* the requests the client may send

(***************************************************************************)
(* Requests, as far as the server tells them apart.  The messages of       *)
(* /summarize are "counted" with the token_count of Message in them, a     *)
(* number, as maybe_summarize sends them, or "strings" only.  A text is    *)
(* "special" when it spells a special token of tiktoken.                   *)
(***************************************************************************)
Texts == {"empty", "blank", "plain", "special"}

ReasonRequests == [endpoint : {"reason"}, task_goal : {"empty", "plain"}]
SummarizeRequests == [endpoint : {"summarize"},
                      messages : {"none", "counted", "strings"},
                      max_summary_tokens : Nat]
EmbedRequests == [endpoint : {"embed"}, text : Texts]

ASSUME RequestsAssumption ==
    Requests \subseteq ReasonRequests \cup SummarizeRequests \cup EmbedRequests

VARIABLES
    request,        \* the request sent, or NoRequest
    client,         \* what the client awaits
    server,         \* what the server does with the request
    completion,     \* history: what OpenAI answered
    response,       \* the server's response
    result          \* what the client returned

vars == <<request, client, server, completion, response, result>>

NoRequest == [endpoint |-> "none"]
NoBody == [kind |-> "none"]
NoResult == [kind |-> "none"]

(***************************************************************************)
(* What OpenAI may answer.  External: modelled from how react.py,          *)
(* summarizer.py and embeddings.py take an answer apart.                   *)
(***************************************************************************)

\* The arguments of a tool call, as json.loads sees them.  The last four are
\* objects, told apart by their field "answer".
Objects == {"no_answer", "text_answer", "null_answer", "number_answer"}
Arguments == {"", "malformed", "array"} \cup Objects

\* The first tool call of a message, or "none".  "custom" has no function.
ToolCalls == [name : {"final_answer", "tool"}, arguments : Arguments]
             \cup [name : {"none", "custom"}, arguments : {""}]

Messages == [kind : {"message"}, content : {"empty", "plain"}, call : ToolCalls]
Summaries == [kind : {"summary"}, content : Texts \ {"blank"}]
Vectors == [kind : {"vector"}]

\* An exception instead of an answer.  APIError covers refused, broken and
\* timed out requests.
Failures == [kind : {"APIError", "ValueError", "RuntimeError", "other"}]

NoCompletion == [kind |-> "none"]

-----------------------------------------------------------------------------

Init ==
    /\ request = NoRequest
    /\ client = "idle"
    /\ server = "idle"
    /\ completion = NoCompletion
    /\ response = [status |-> 0, body |-> NoBody]
    /\ result = NoResult

(***************************************************************************)
(* The client: IpcClient::post.                                            *)
(***************************************************************************)

Send ==
    /\ client = "idle"
    /\ request' \in Requests
    /\ client' = "send"
    /\ server' = "received"
    /\ UNCHANGED <<completion, response, result>>

\* The head of the response has arrived; its body is still to be read.
ReceiveHead ==
    /\ client = "send"
    /\ server = "responded"
    /\ client' = IF response.status = 200 THEN "json" ELSE "text"
    /\ UNCHANGED <<request, server, completion, response, result>>

Return(r) ==
    /\ client' = "returned"
    /\ result' = r
    /\ UNCHANGED <<request, server, completion, response>>

ServerError == [kind |-> "ServerError", status |-> response.status]

ReceiveBody ==
    \/ client = "json" /\ Return([kind |-> "Ok", body |-> response.body])
    \/ client = "text" /\ Return(ServerError)

\* Mutant: a client without a timeout on the body of an error.
GiveUpUnlessText ==
    \/ client = "send" /\ Return([kind |-> "Transport"])
    \/ client = "json" /\ Return([kind |-> "Deserialisation"])

\* The connection breaks, or DEFAULT_IPC_TIMEOUT, which covers the whole call,
\* fires.  A body that is an error's text is then taken to be empty.
GiveUp ==
    \/ client = "send" /\ Return([kind |-> "Transport"])
    \/ client = "json" /\ Return([kind |-> "Deserialisation"])
    \/ client = "text" /\ Return(ServerError)

-----------------------------------------------------------------------------

(***************************************************************************)
(* The server.  A handler awaits OpenAI once, and what follows runs        *)
(* without interruption.                                                   *)
(***************************************************************************)

\* Validation by the models SummarizeRequest, ReasonRequest and EmbedRequest.
\* messages is a list[dict[str, str]], so a number among its values is refused.
WellFormed(r) ==
    \/ r.endpoint = "reason" /\ r.task_goal # "empty"
    \/ r.endpoint = "embed" /\ r.text # "empty"
    \/ /\ r.endpoint = "summarize"
       /\ r.messages = "strings"
       /\ r.max_summary_tokens >= 1

\* Raised before OpenAI is asked: embed_text refuses whitespace.
Blank(r) == r.endpoint = "embed" /\ r.text = "blank"

Respond(status, body) ==
    /\ server' = "responded"
    /\ response' = [status |-> status, body |-> body]

Accept ==
    /\ server = "received"
    /\ WellFormed(request) /\ ~Blank(request)
    /\ server' = "openai"
    /\ UNCHANGED <<request, client, completion, response, result>>

Refuse ==
    /\ server = "received"
    /\ ~WellFormed(request) \/ Blank(request)
    /\ Respond(422, NoBody)
    /\ UNCHANGED <<request, client, completion, result>>

Handling(endpoint) ==
    /\ server = "openai"
    /\ request.endpoint = endpoint
    /\ UNCHANGED <<request, client, result>>

\* The client has one method for each path.
Endpoints == {"reason", "embed", "summarize"}

\* FastAPI answers 500 to an exception that no handler catches.
StatusOf(exception) ==
    CASE exception = "ValueError" -> 422
      [] exception = "APIError" -> 502
      [] exception = "RuntimeError" /\ request.endpoint = "summarize" -> 502
      [] OTHER -> 500

OpenAIFails ==
    /\ \E endpoint \in Endpoints : Handling(endpoint)
    /\ completion' \in Failures
    /\ Respond(StatusOf(completion'.kind), NoBody)

\* The body of a successful /reason.
Reasoned(action, final_answer) ==
    [kind |-> "reasoned", action |-> action, is_final |-> action = "None",
     final_answer |-> final_answer]

\* Mutant: a final_answer is dispatched like any other tool.
ReasonActsAlways ==
    /\ Handling("reason")
    /\ \E m \in Messages :
        /\ m.call.name \in {"tool", "final_answer"}
        /\ m.call.arguments \in Objects \cup {""}
        /\ completion' = m
        /\ Respond(200, Reasoned("tool", "None"))

\* A call of one of the offered tools.
ReasonActs ==
    /\ Handling("reason")
    /\ \E m \in Messages :
        /\ m.call.name = "tool"
        /\ m.call.arguments \in Objects \cup {""}
        /\ completion' = m
        /\ Respond(200, Reasoned("tool", "None"))

\* arguments.get("answer", "").  Only a null or a string fits the response.
Answers == [no_answer |-> "empty", text_answer |-> "plain", null_answer |-> "None"]

\* A call of the synthetic tool final_answer.
ReasonConcludes ==
    /\ Handling("reason")
    /\ \E m \in Messages :
        /\ m.call.name = "final_answer"
        /\ m.call.arguments \in DOMAIN Answers \cup {""}
        /\ completion' = m
        /\ Respond(200, Reasoned("None", IF m.call.arguments = "" THEN "empty"
                                         ELSE Answers[m.call.arguments]))

\* Mutant: silence is taken for a final answer as well.
ReasonTalksOrNot ==
    /\ Handling("reason")
    /\ \E m \in Messages :
        /\ m.call.name = "none"
        /\ completion' = m
        /\ Respond(200, Reasoned("None", m.content))

\* Plain text without a tool call is taken for the final answer.
ReasonTalks ==
    /\ Handling("reason")
    /\ \E m \in Messages :
        /\ m.call.name = "none"
        /\ m.content = "plain"
        /\ completion' = m
        /\ Respond(200, Reasoned("None", m.content))

\* Mutant: no arguments at all are malformed JSON.
ReasonUnparseableEmpty ==
    /\ Handling("reason")
    /\ \E m \in Messages :
        /\ \/ m.call.name = "custom"
           \/ m.call.name = "none" /\ m.content = "empty"
           \/ m.call.name = "tool" /\ m.call.arguments = ""
           \/ m.call.arguments = "malformed"
        /\ completion' = m
        /\ Respond(422, NoBody)

\* ValueError: malformed arguments, a call without a function, or nothing.
ReasonUnparseable ==
    /\ Handling("reason")
    /\ \E m \in Messages :
        /\ \/ m.call.name = "custom"
           \/ m.call.name = "none" /\ m.content = "empty"
           \/ m.call.arguments = "malformed"
        /\ completion' = m
        /\ Respond(422, NoBody)

\* Mutant: the answer is passed on whatever its type.
ReasonIllTypedPassed ==
    /\ Handling("reason")
    /\ \E m \in Messages :
        /\ m.call.name = "final_answer" /\ m.call.arguments = "number_answer"
        /\ completion' = m
        /\ Respond(200, Reasoned("None", "number"))

\* Nothing catches what JSON of another type leads to: a list has no get, and
\* ReasonResponse is built outside the try.
ReasonIllTyped ==
    /\ Handling("reason")
    /\ \E m \in Messages :
        /\ \/ m.call.arguments = "array"
           \/ m.call.name = "final_answer" /\ m.call.arguments = "number_answer"
        /\ completion' = m
        /\ Respond(500, NoBody)

\* count_tokens raises ValueError on special tokens, and a summary is never
\* empty.
SummarizeEnds ==
    /\ Handling("summarize")
    /\ \E s \in Summaries :
        /\ completion' = s
        /\ \/ s.content = "plain" /\ Respond(200, [kind |-> "summary", text |-> s.content])
           \/ s.content = "empty" /\ Respond(502, NoBody)
           \/ s.content = "special" /\ Respond(422, NoBody)

\* The tokens of the text are counted after OpenAI has embedded it.
EmbedEnds ==
    /\ Handling("embed")
    /\ completion' \in Vectors
    /\ IF request.text = "special"
       THEN Respond(422, NoBody)
       ELSE Respond(200, [kind |-> "embedding", text |-> request.text])

ClientStep == Send \/ ReceiveHead \/ ReceiveBody \/ GiveUp

ServerStep ==
    \/ Accept \/ Refuse \/ OpenAIFails
    \/ ReasonActs \/ ReasonConcludes \/ ReasonTalks
    \/ ReasonUnparseable \/ ReasonIllTyped
    \/ SummarizeEnds \/ EmbedEnds

Next == ClientStep \/ ServerStep

Spec == Init /\ [][Next]_vars

\* The timer of the client fires.  Nothing makes the server or OpenAI answer.
FairSpec == Spec /\ WF_vars(GiveUp)

-----------------------------------------------------------------------------

ReasonedBodies == [kind : {"reasoned"}, action : {"None", "tool"},
                   is_final : BOOLEAN, final_answer : {"None", "empty", "plain"}]
TextBodies == [kind : {"summary", "embedding"}, text : Texts \ {"empty"}]

IpcErrors == [kind : {"ServerError"}, status : {422, 500, 502}]
             \cup [kind : {"Transport", "Deserialisation"}]

\* Type invariant: the client only ever holds bodies of the Rust types of
\* ipc/types.rs, and errors of IpcError.
SurfaceTypeOK ==
    /\ request \in Requests \cup {NoRequest}
    /\ client \in {"idle", "send", "json", "text", "returned"}
    /\ server \in {"idle", "received", "openai", "responded"}
    /\ completion \in Messages \cup Summaries \cup Vectors \cup Failures
                     \cup {NoCompletion}
    /\ response.status \in {0, 200, 422, 500, 502}
    /\ response.body \in ReasonedBodies \cup TextBodies \cup {NoBody}
    /\ result \in [kind : {"Ok"}, body : ReasonedBodies \cup TextBodies]
                 \cup IpcErrors \cup {NoResult}

\* The model said nothing the runtime could act on: OpenAI failed, there is
\* neither text nor call, or the call's arguments are no object.
Unusable(c) ==
    \/ c \in Failures
    \/ c \in Summaries /\ c.content = "empty"
    \/ c \in Messages /\ c.call.name = "custom"
    \/ c \in Messages /\ c.call.name = "none" /\ c.content = "empty"
    \/ c \in Messages /\ c.call.arguments \in {"malformed", "array"}

\* No failure of OpenAI, of the handler or of the connection reaches the
\* executor as a thought, an action, a final answer or a summary: the client
\* returns Ok only after a usable completion (react.py:117, :158,
\* summarizer.py:105, client.rs:61).
FailuresSurface ==
    result.kind = "Ok" => completion # NoCompletion /\ ~Unusable(completion)

\* The text that count_tokens is given after OpenAI has answered spells a
\* special token.
Uncountable ==
    \/ completion \in Summaries /\ completion.content = "special"
    \/ completion \in Vectors /\ request.text = "special"

\* The answer given to final_answer is neither text nor null.
IllTypedAnswer ==
    /\ completion \in Messages
    /\ completion.call.name = "final_answer"
    /\ completion.call.arguments = "number_answer"

\* The converse: what OpenAI answered usably becomes an error of the server in
\* two cases only, text whose tokens cannot be counted (422, embeddings.py:44)
\* and a final answer of the wrong type (500, server.py:274).
UsableCompletionsArrive ==
    result.kind = "ServerError" /\ completion # NoCompletion =>
        \/ Unusable(completion)
        \/ result.status = 422 /\ Uncountable
        \/ result.status = 500 /\ IllTypedAnswer

\* The executor does what the model asked for: it is told to stop exactly when
\* the model called final_answer or spoke without a call, and otherwise always
\* has an action to dispatch (executor.rs:205 treats its absence as an error).
ExecutorFollowsModel ==
    result.kind = "Ok" /\ request.endpoint = "reason" =>
        /\ result.body.is_final <=> completion.call.name \in {"final_answer", "none"}
        /\ result.body.action = (IF completion.call.name = "tool" THEN "tool" ELSE "None")

\* Every call returns, whatever the server and OpenAI do: the executor never
\* waits for an answer that does not come (client.rs:19).
EveryCallReturns == client = "send" ~> client = "returned"

\* The buffer of short-term memory can be posted as it is: "The token_count
\* field on each message is accepted but ignored here" (server.py:74).
BufferIsAccepted ==
    result.kind = "ServerError" /\ request.endpoint = "summarize"
    /\ request.messages = "counted" /\ request.max_summary_tokens >= 1
        => result.status # 422

=============================================================================
