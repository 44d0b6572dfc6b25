-------------------------- MODULE LlmSurfaceProofs --------------------------
(***************************************************************************)
(* Proofs about LlmSurface, for every set of requests, about ParseRetry,   *)
(* for every bound on max_retries, and about the two side by side.         *)
(***************************************************************************)
EXTENDS MCLlmSurface, TLAPS

\* The answers of OpenAI are told apart by their kind.
LEMMA Kinds ==
    /\ \A m \in Messages : m.kind = "message" /\ m \notin Failures \cup Summaries
    /\ \A s \in Summaries : s.kind = "summary" /\ s \notin Failures \cup Messages
    /\ \A v \in Vectors : v.kind = "vector"
                           /\ v \notin Failures \cup Summaries \cup Messages
    /\ NoCompletion.kind = "none"
  BY DEF Messages, Summaries, Vectors, Failures, NoCompletion

\* Ok was reached through the head of a response 200, and a response 200 was
\* built from a usable completion; nothing changes after the response.
SurfaceInv ==
    /\ server = "responded" /\ response.status = 200 =>
          completion # NoCompletion /\ ~Unusable(completion)
    /\ client = "json" \/ result.kind = "Ok" =>
          server = "responded" /\ response.status = 200
    /\ result.kind = "Ok" => client = "returned"

\* Nothing has been returned at the start.
LEMMA SurfaceInit == Init => SurfaceInv
  BY DEF Init, SurfaceInv, NoResult

\* What the client does leaves the server's part alone.
LEMMA ClientPreserves == SurfaceInv /\ ClientStep => SurfaceInv'
<1> SUFFICES ASSUME SurfaceInv, ClientStep PROVE SurfaceInv'
  OBVIOUS
<1>1. CASE Send
  BY <1>1 DEF Send, SurfaceInv
<1>2. CASE ReceiveHead
  BY <1>2 DEF ReceiveHead, SurfaceInv
<1>3. CASE ReceiveBody
  BY <1>3 DEF ReceiveBody, Return, ServerError, SurfaceInv
<1>4. CASE GiveUp
  BY <1>4 DEF GiveUp, Return, ServerError, SurfaceInv
<1> QED
  BY <1>1, <1>2, <1>3, <1>4 DEF ClientStep

\* The server responds once, with 200 to usable completions only.
LEMMA ServerPreserves == SurfaceInv /\ ServerStep => SurfaceInv'
<1> SUFFICES ASSUME SurfaceInv, ServerStep PROVE SurfaceInv'
  OBVIOUS
<1> USE DEF SurfaceInv, Handling, Respond
<1>1. CASE Accept
  BY <1>1 DEF Accept
<1>2. CASE Refuse
  BY <1>2 DEF Refuse
<1>3. CASE OpenAIFails
  <2>1. \A exception : StatusOf(exception) # 200
    BY DEF StatusOf
  <2> QED
    BY <1>3, <2>1 DEF OpenAIFails
<1>4. CASE ReasonActs
  <2>1. PICK m \in Messages : completion' = m /\ m.call.name = "tool"
                              /\ m.call.arguments \in Objects \cup {""}
    BY <1>4 DEF ReasonActs
  <2>2. completion' # NoCompletion /\ ~Unusable(completion)'
    BY <2>1, Kinds DEF Unusable, Objects
  <2> QED
    BY <1>4, <2>2 DEF ReasonActs
<1>5. CASE ReasonConcludes
  <2>1. PICK m \in Messages : completion' = m /\ m.call.name = "final_answer"
                              /\ m.call.arguments \in DOMAIN Answers \cup {""}
    BY <1>5 DEF ReasonConcludes
  <2>2. completion' # NoCompletion /\ ~Unusable(completion)'
    BY <2>1, Kinds DEF Unusable, Answers
  <2> QED
    BY <1>5, <2>2 DEF ReasonConcludes
<1>6. CASE ReasonTalks
  <2>1. PICK m \in Messages : completion' = m /\ m.call.name = "none"
                              /\ m.content = "plain"
    BY <1>6 DEF ReasonTalks
  <2>2. m.call.arguments = ""
    BY <2>1 DEF Messages, ToolCalls
  <2>3. completion' # NoCompletion /\ ~Unusable(completion)'
    BY <2>1, <2>2, Kinds DEF Unusable
  <2> QED
    BY <1>6, <2>3 DEF ReasonTalks
<1>7. CASE ReasonUnparseable
  BY <1>7 DEF ReasonUnparseable
<1>8. CASE ReasonIllTyped
  BY <1>8 DEF ReasonIllTyped
<1>9. CASE SummarizeEnds
  <2>1. PICK s \in Summaries : completion' = s
                               /\ (response'.status = 200 => s.content = "plain")
    BY <1>9 DEF SummarizeEnds
  <2>2. s.content = "plain" =>
          completion' # NoCompletion /\ ~Unusable(completion)'
    BY <2>1, Kinds DEF Unusable
  <2> QED
    BY <1>9, <2>1, <2>2 DEF SummarizeEnds
<1>10. CASE EmbedEnds
  <2>1. completion' \in Vectors
    BY <1>10 DEF EmbedEnds
  <2>2. completion' # NoCompletion /\ ~Unusable(completion)'
    BY <2>1, Kinds DEF Unusable
  <2> QED
    BY <1>10, <2>2 DEF EmbedEnds
<1> QED
  BY <1>1, <1>2, <1>3, <1>4, <1>5, <1>6, <1>7, <1>8, <1>9, <1>10 DEF ServerStep

\* Whatever requests are sent, no failure of OpenAI, the handler or the
\* connection is returned as Ok.
THEOREM FailuresSurfaceHolds == Spec => []FailuresSurface
<1>1. SurfaceInv /\ [Next]_vars => SurfaceInv'
  <2>1. SurfaceInv /\ UNCHANGED vars => SurfaceInv'
    BY DEF vars, SurfaceInv, Unusable
  <2> QED
    BY <2>1, ClientPreserves, ServerPreserves DEF Next
<1>2. SurfaceInv => FailuresSurface
  BY DEF SurfaceInv, FailuresSurface
<1> QED
  BY SurfaceInit, <1>1, <1>2, PTL DEF Spec

-----------------------------------------------------------------------------

(***************************************************************************)
(* Types.  The client takes a body for one of a Rust type only after a     *)
(* response 200, and the server builds such a body only from a request it  *)
(* has accepted.                                                           *)
(***************************************************************************)

SurfaceTypeInv ==
    /\ SurfaceTypeOK
    /\ client = "idle" <=> server = "idle"
    /\ server \in {"received", "openai"} => request \in Requests
    /\ server = "openai" => WellFormed(request)
    /\ server = "responded" => response.status # 0
    /\ server = "responded" /\ response.status = 200 =>
          response.body \in ReasonedBodies \cup TextBodies
    /\ client \in {"json", "text"} => server = "responded"
    /\ client = "json" => response.status = 200
    /\ client = "text" => response.status # 200

\* The types hold before the first call.
LEMMA SurfaceTypeInit == Init => SurfaceTypeInv
  BY DEF Init, SurfaceTypeInv, SurfaceTypeOK, NoRequest, NoBody, NoResult,
     NoCompletion

\* The steps of the client keep the types.
LEMMA ClientTypes == SurfaceTypeInv /\ ClientStep => SurfaceTypeInv'
<1> SUFFICES ASSUME SurfaceTypeInv, ClientStep PROVE SurfaceTypeInv'
  OBVIOUS
<1> USE DEF SurfaceTypeInv, SurfaceTypeOK
<1>1. CASE Send
  BY <1>1 DEF Send
<1>2. CASE ReceiveHead
  BY <1>2 DEF ReceiveHead
<1>3. ASSUME client \in {"send", "json", "text"},
             Return([kind |-> "Transport"]) \/ Return([kind |-> "Deserialisation"])
      PROVE  SurfaceTypeInv'
  <2>1. result' \in IpcErrors
    BY <1>3 DEF Return, IpcErrors
  <2> QED
    BY <1>3, <2>1 DEF Return
<1>4. ASSUME client = "json", Return([kind |-> "Ok", body |-> response.body])
      PROVE  SurfaceTypeInv'
  BY <1>4 DEF Return
<1>5. ASSUME client = "text", Return(ServerError)
      PROVE  SurfaceTypeInv'
  <2>1. result' \in IpcErrors
    BY <1>5 DEF Return, ServerError, IpcErrors
  <2> QED
    BY <1>5, <2>1 DEF Return
<1> QED
  BY <1>1, <1>2, <1>3, <1>4, <1>5 DEF ClientStep, ReceiveBody, GiveUp

\* A handler responds once, with a body of its type if it responds 200.
LEMMA RespondTypes ==
    ASSUME SurfaceTypeInv, server \in {"received", "openai"},
           NEW status \in {200, 422, 500, 502},
           NEW body \in ReasonedBodies \cup TextBodies \cup {NoBody},
           status = 200 => body # NoBody,
           Respond(status, body), UNCHANGED <<request, client, result>>,
           completion' \in Messages \cup Summaries \cup Vectors \cup Failures
                           \cup {NoCompletion}
    PROVE  SurfaceTypeInv'
  BY DEF SurfaceTypeInv, SurfaceTypeOK, Respond

\* The kinds of body that the two sides exchange.
LEMMA Bodies ==
    /\ \A answer \in {"None", "empty", "plain"} :
          Reasoned("None", answer) \in ReasonedBodies
    /\ Reasoned("tool", "None") \in ReasonedBodies
    /\ \A text \in Texts \ {"empty"} :
          /\ [kind |-> "summary", text |-> text] \in TextBodies
          /\ [kind |-> "embedding", text |-> text] \in TextBodies
    /\ NoBody \notin ReasonedBodies \cup TextBodies
  BY DEF Reasoned, ReasonedBodies, TextBodies, NoBody

\* Whatever argument the model gives final_answer, the answer is text or none.
LEMMA AnswersAreText ==
    \A a \in DOMAIN Answers : Answers[a] \in {"None", "empty", "plain"}
<1>1. DOMAIN Answers = {"no_answer", "text_answer", "null_answer"}
  BY DEF Answers
<1>2. /\ Answers["no_answer"] = "empty" /\ Answers["text_answer"] = "plain"
      /\ Answers["null_answer"] = "None"
  BY DEF Answers
<1> QED
  BY <1>1, <1>2

\* The steps of the server keep the types.
LEMMA ServerTypes == SurfaceTypeInv /\ ServerStep => SurfaceTypeInv'
<1> SUFFICES ASSUME SurfaceTypeInv, ServerStep PROVE SurfaceTypeInv'
  OBVIOUS
<1> USE RespondTypes, Bodies DEF Handling
<1>1. CASE Accept
  BY <1>1 DEF Accept, SurfaceTypeInv, SurfaceTypeOK
<1>2. CASE Refuse
  BY <1>2 DEF Refuse, SurfaceTypeInv, SurfaceTypeOK
<1>3. CASE OpenAIFails
  <2>1. \A exception : StatusOf(exception) \in {422, 500, 502}
    BY DEF StatusOf
  <2> QED
    BY <1>3, <2>1 DEF OpenAIFails
<1>4. CASE ReasonActs
  BY <1>4 DEF ReasonActs
<1>5. CASE ReasonConcludes
  <2>1. PICK m \in Messages :
          /\ completion' = m
          /\ m.call.arguments \in DOMAIN Answers \cup {""}
          /\ Respond(200, Reasoned("None", IF m.call.arguments = "" THEN "empty"
                                           ELSE Answers[m.call.arguments]))
    BY <1>5 DEF ReasonConcludes
  <2> DEFINE answer == IF m.call.arguments = "" THEN "empty"
                       ELSE Answers[m.call.arguments]
             body == Reasoned("None", answer)
  <2>2. answer \in {"None", "empty", "plain"}
    BY <2>1, AnswersAreText
  <2>3. body \in ReasonedBodies
    BY <2>2
  <2>4. Respond(200, body)
    BY <2>1
  <2>5. /\ server = "openai" /\ UNCHANGED <<request, client, result>>
        /\ completion' \in Messages
    BY <1>5, <2>1 DEF ReasonConcludes
  <2> HIDE DEF body
  <2> QED
    BY <2>3, <2>4, <2>5
<1>6. CASE ReasonTalks
  BY <1>6 DEF ReasonTalks
<1>7. CASE ReasonUnparseable
  BY <1>7 DEF ReasonUnparseable
<1>8. CASE ReasonIllTyped
  BY <1>8 DEF ReasonIllTyped
<1>9. CASE SummarizeEnds
  <2>1. PICK s \in Summaries :
          /\ completion' = s
          /\ \/ Respond(200, [kind |-> "summary", text |-> s.content])
                /\ s.content = "plain"
             \/ Respond(502, NoBody)
             \/ Respond(422, NoBody)
    BY <1>9 DEF SummarizeEnds
  <2>2. [kind |-> "summary", text |-> "plain"] \in TextBodies
    BY DEF Texts
  <2>3. server = "openai" /\ UNCHANGED <<request, client, result>>
    BY <1>9 DEF SummarizeEnds
  <2>4. CASE Respond(200, [kind |-> "summary", text |-> s.content])
             /\ s.content = "plain"
    BY <2>1, <2>2, <2>3, <2>4
  <2>5. CASE Respond(502, NoBody) \/ Respond(422, NoBody)
    BY <2>1, <2>3, <2>5
  <2> QED
    BY <2>1, <2>4, <2>5
<1>10. CASE EmbedEnds
  <2>1. request \in EmbedRequests /\ request.text \in Texts \ {"empty"}
    <3>1. request \in Requests /\ WellFormed(request) /\ request.endpoint = "embed"
      BY <1>10 DEF EmbedEnds, SurfaceTypeInv
    <3>2. request \in EmbedRequests
      BY <3>1, RequestsAssumption
         DEF ReasonRequests, SummarizeRequests, EmbedRequests
    <3> QED
      BY <3>1, <3>2 DEF WellFormed, EmbedRequests
  <2>2. [kind |-> "embedding", text |-> request.text] \in TextBodies
    BY <2>1
  <2>3. /\ server = "openai" /\ UNCHANGED <<request, client, result>>
        /\ completion' \in Vectors
    BY <1>10 DEF EmbedEnds
  <2>4. CASE Respond(200, [kind |-> "embedding", text |-> request.text])
    BY <2>2, <2>3, <2>4
  <2>5. CASE Respond(422, NoBody)
    BY <2>3, <2>5
  <2> QED
    BY <1>10, <2>4, <2>5 DEF EmbedEnds
<1> QED
  BY <1>1, <1>2, <1>3, <1>4, <1>5, <1>6, <1>7, <1>8, <1>9, <1>10 DEF ServerStep

\* Every step keeps the types.
LEMMA SurfaceTypesStep == SurfaceTypeInv /\ [Next]_vars => SurfaceTypeInv'
<1>1. SurfaceTypeInv /\ UNCHANGED vars => SurfaceTypeInv'
  BY DEF vars, SurfaceTypeInv, SurfaceTypeOK, WellFormed
<1> QED
  BY <1>1, ClientTypes, ServerTypes DEF Next

\* The type invariant, for every set of requests: the client only ever holds
\* bodies of the Rust types, and errors of IpcError.
THEOREM SurfaceTypesHold == Spec => []SurfaceTypeOK
<1>1. SurfaceTypeInv => SurfaceTypeOK
  BY DEF SurfaceTypeInv
<1> QED
  BY <1>1, SurfaceTypeInit, SurfaceTypesStep, PTL DEF Spec

-----------------------------------------------------------------------------

(***************************************************************************)
(* What the executor is told is what the model asked for.  The body of a   *)
(* response says so when it is built, and the client returns that body.    *)
(***************************************************************************)

Follows(body) ==
    /\ body.is_final <=> completion.call.name \in {"final_answer", "none"}
    /\ body.action = (IF completion.call.name = "tool" THEN "tool" ELSE "None")

FollowInv ==
    /\ SurfaceInv
    /\ client = "idle" <=> server = "idle"
    /\ server = "responded" /\ response.status = 200 /\ request.endpoint = "reason"
          => Follows(response.body)
    /\ result.kind = "Ok" => result.body = response.body

\* No answer has been made before the first call.
LEMMA FollowInit == Init => FollowInv
  BY SurfaceInit DEF Init, FollowInv, NoResult

\* The client passes an answer on as it is, or drops it.
LEMMA ClientFollows == FollowInv /\ ClientStep => FollowInv'
<1> SUFFICES ASSUME FollowInv, ClientStep PROVE FollowInv'
  OBVIOUS
<1>a. SurfaceInv'
  BY ClientPreserves DEF FollowInv
<1> USE <1>a DEF FollowInv, Follows
<1>1. CASE Send
  BY <1>1 DEF Send, SurfaceInv
<1>2. CASE ReceiveHead
  BY <1>2 DEF ReceiveHead
<1>3. CASE ReceiveBody
  BY <1>3 DEF ReceiveBody, Return, ServerError
<1>4. CASE GiveUp
  BY <1>4 DEF GiveUp, Return, ServerError
<1> QED
  BY <1>1, <1>2, <1>3, <1>4 DEF ClientStep

\* A response that concludes, acts or talks follows the completion it is of.
LEMMA ReasonedFollows ==
    ASSUME NEW m \in Messages, completion' = m, NEW answer
    PROVE  /\ response' = [status |-> 200, body |-> Reasoned("tool", answer)]
              /\ m.call.name = "tool" => Follows(response.body)'
           /\ response' = [status |-> 200, body |-> Reasoned("None", answer)]
              /\ m.call.name \in {"final_answer", "none"} => Follows(response.body)'
<1>1. /\ ~ Reasoned("tool", answer).is_final
      /\ Reasoned("tool", answer).action = "tool"
  BY DEF Reasoned
<1>2. /\ Reasoned("None", answer).is_final
      /\ Reasoned("None", answer).action = "None"
  BY DEF Reasoned
<1> QED
  BY <1>1, <1>2 DEF Follows

\* The server makes its answer from the completion of this request.
LEMMA ServerFollows == FollowInv /\ ServerStep => FollowInv'
<1> SUFFICES ASSUME FollowInv, ServerStep PROVE FollowInv'
  OBVIOUS
<1>a. SurfaceInv'
  BY ServerPreserves DEF FollowInv
<1>b. ASSUME server \in {"received", "openai"}, server' = "responded",
             UNCHANGED <<request, client, result>>,
             response'.status = 200 /\ request.endpoint = "reason"
                => Follows(response.body)'
      PROVE  FollowInv'
  BY <1>a, <1>b DEF FollowInv, SurfaceInv
<1> USE <1>b DEF Handling, Respond
<1>1. CASE Accept
  BY <1>1, <1>a DEF Accept, FollowInv
<1>2. CASE Refuse
  BY <1>2 DEF Refuse
<1>3. CASE OpenAIFails
  <2>1. \A exception : StatusOf(exception) # 200
    BY DEF StatusOf
  <2> QED
    BY <1>3, <2>1 DEF OpenAIFails
<1>4. CASE ReasonActs
  BY <1>4, ReasonedFollows DEF ReasonActs
<1>5. CASE ReasonConcludes
  <2>1. PICK m \in Messages :
          /\ completion' = m /\ m.call.name = "final_answer"
          /\ Respond(200, Reasoned("None", IF m.call.arguments = "" THEN "empty"
                                           ELSE Answers[m.call.arguments]))
    BY <1>5 DEF ReasonConcludes
  <2> DEFINE answer == IF m.call.arguments = "" THEN "empty"
                       ELSE Answers[m.call.arguments]
  <2>2. response' = [status |-> 200, body |-> Reasoned("None", answer)]
    BY <2>1
  <2> HIDE DEF answer
  <2>3. Follows(response.body)'
    BY <2>1, <2>2, ReasonedFollows
  <2> QED
    BY <1>5, <2>3 DEF ReasonConcludes
<1>6. CASE ReasonTalks
  BY <1>6, ReasonedFollows DEF ReasonTalks
<1>7. CASE ReasonUnparseable
  BY <1>7 DEF ReasonUnparseable
<1>8. CASE ReasonIllTyped
  BY <1>8 DEF ReasonIllTyped
<1>9. CASE SummarizeEnds
  BY <1>9 DEF SummarizeEnds
<1>10. CASE EmbedEnds
  BY <1>10 DEF EmbedEnds
<1> QED
  BY <1>1, <1>2, <1>3, <1>4, <1>5, <1>6, <1>7, <1>8, <1>9, <1>10 DEF ServerStep

\* Every step keeps the answer of the completion.
LEMMA FollowStep == FollowInv /\ [Next]_vars => FollowInv'
<1>1. FollowInv /\ UNCHANGED vars => FollowInv'
  BY DEF vars, FollowInv, Follows, SurfaceInv, Unusable
<1> QED
  BY <1>1, ClientFollows, ServerFollows DEF Next

\* The executor is told to stop exactly when the model concluded, and otherwise
\* always has the action the model asked for.
THEOREM ExecutorFollowsModelHolds == Spec => []ExecutorFollowsModel
<1>1. FollowInv => ExecutorFollowsModel
  BY DEF FollowInv, SurfaceInv, Follows, ExecutorFollowsModel
<1> QED
  BY <1>1, FollowInit, FollowStep, PTL DEF Spec

-----------------------------------------------------------------------------

(***************************************************************************)
(* What becomes of the answers of OpenAI.  A handler holds none before it  *)
(* responds, and an error of its own is explained when it is made.         *)
(***************************************************************************)

Explained(status) ==
    \/ Unusable(completion)
    \/ status = 422 /\ Uncountable
    \/ status = 500 /\ IllTypedAnswer

ArriveInv ==
    /\ client = "idle" => server = "idle"
    /\ server # "responded" => completion = NoCompletion
    /\ server = "responded" /\ response.status # 200 =>
          completion = NoCompletion \/ Explained(response.status)
    /\ client = "text" => server = "responded" /\ response.status # 200
    /\ result.kind = "ServerError" =>
          /\ client = "returned" /\ server = "responded"
          /\ response.status # 200 /\ result.status = response.status

\* OpenAI has not been asked before the first call.
LEMMA ArriveInit == Init => ArriveInv
  BY DEF Init, ArriveInv, NoResult

\* The client passes an error on with its status.
LEMMA ClientArrives == ArriveInv /\ ClientStep => ArriveInv'
<1> SUFFICES ASSUME ArriveInv, ClientStep PROVE ArriveInv'
  OBVIOUS
<1>1. CASE Send
  BY <1>1 DEF Send, ArriveInv
<1>2. CASE ~Send
  <2>1. UNCHANGED <<request, server, completion, response>>
    BY <1>2 DEF ClientStep, ReceiveHead, ReceiveBody, GiveUp, Return
  <2>2. Explained(response.status)' <=> Explained(response.status)
    BY <2>1 DEF Explained, Unusable, Uncountable, IllTypedAnswer
  <2>3. \/ /\ client = "send" /\ server = "responded" /\ UNCHANGED result
           /\ client' = IF response.status = 200 THEN "json" ELSE "text"
        \/ client' = "returned" /\ result'.kind # "ServerError"
        \/ client = "text" /\ client' = "returned" /\ result' = ServerError
    BY <1>2 DEF ClientStep, ReceiveHead, ReceiveBody, GiveUp, Return
  <2> QED
    BY <2>1, <2>2, <2>3 DEF ArriveInv, ServerError
<1> QED
  BY <1>1, <1>2

\* The server makes an error of an answer only for one of the reasons named.
LEMMA ServerArrives == ArriveInv /\ ServerStep => ArriveInv'
<1> SUFFICES ASSUME ArriveInv, ServerStep PROVE ArriveInv'
  OBVIOUS
<1>a. ASSUME server \in {"received", "openai"}, server' = "responded",
             UNCHANGED <<request, client, result>>,
             response'.status # 200 =>
                completion' = NoCompletion \/ Explained(response.status)'
      PROVE  ArriveInv'
  BY <1>a DEF ArriveInv
<1> USE <1>a DEF Handling, Respond
<1>1. CASE Accept
  BY <1>1 DEF Accept, ArriveInv
<1>2. CASE Refuse
  BY <1>2 DEF Refuse, ArriveInv
<1>3. CASE OpenAIFails
  BY <1>3 DEF OpenAIFails, Explained, Unusable
<1>4. CASE ReasonActs
  <2>1. PICK body : Respond(200, body)
    BY <1>4 DEF ReasonActs
  <2>2. server = "openai" /\ UNCHANGED <<request, client, result>>
    BY <1>4 DEF ReasonActs
  <2> QED
    BY <2>1, <2>2
<1>5. CASE ReasonConcludes
  <2>1. PICK body : Respond(200, body)
    BY <1>5 DEF ReasonConcludes
  <2>2. server = "openai" /\ UNCHANGED <<request, client, result>>
    BY <1>5 DEF ReasonConcludes
  <2> QED
    BY <2>1, <2>2
<1>6. CASE ReasonTalks
  BY <1>6 DEF ReasonTalks
<1>7. CASE ReasonUnparseable
  BY <1>7 DEF ReasonUnparseable, Explained, Unusable
<1>8. CASE ReasonIllTyped
  BY <1>8 DEF ReasonIllTyped, Explained, Unusable, IllTypedAnswer
<1>9. CASE SummarizeEnds
  BY <1>9 DEF SummarizeEnds, Explained, Unusable, Uncountable
<1>10. CASE EmbedEnds
  BY <1>10 DEF EmbedEnds, Explained, Uncountable
<1> QED
  BY <1>1, <1>2, <1>3, <1>4, <1>5, <1>6, <1>7, <1>8, <1>9, <1>10 DEF ServerStep

\* For every set of requests, a usable answer of OpenAI becomes an error of the
\* server only if its tokens cannot be counted or its final answer is no text.
THEOREM UsableCompletionsArriveHolds == Spec => []UsableCompletionsArrive
<1>1. ArriveInv /\ [Next]_vars => ArriveInv'
  <2>1. ArriveInv /\ UNCHANGED vars => ArriveInv'
    BY DEF vars, ArriveInv, Explained, Unusable, Uncountable, IllTypedAnswer
  <2> QED
    BY <2>1, ClientArrives, ServerArrives DEF Next
<1>2. ArriveInv => UsableCompletionsArrive
  BY DEF ArriveInv, Explained, UsableCompletionsArrive
<1> QED
  BY ArriveInit, <1>1, <1>2, PTL DEF Spec

-----------------------------------------------------------------------------

(***************************************************************************)
(* parse_with_retry.  Before an answer, every output but the last one      *)
(* validated has failed, and each of those the LLM was asked about.        *)
(***************************************************************************)

Errors == {"none", "Invalid JSON", "Invalid schema", "Parsing error",
           "Schema validation failed"}

\* validate_against_schema answers with one of its errors.
LEMMA ErrorOfTyped == \A output \in Outputs : ErrorOf(output) \in Errors
  BY DEF ErrorOf, Errors

\* The LLM is asked about the outputs validated so far, in their order.
PromptsFollow ==
    \A i \in 1..Len(prompts) : prompts[i] = <<validated[i], ErrorOf(validated[i])>>

\* The first n outputs validated have failed.
FailedUpTo(n) == \A i \in 1..n : ErrorOf(validated[i]) # "none"

RetryFailed == parsed = "Retry failed"

\* The number of validations and of prompts at each control point.
CountsAt ==
    LET v == Len(validated)
        p == Len(prompts)
    IN  /\ parsing = "idle" => attempt = 0 /\ v = 0 /\ p = 0
        /\ parsing = "validate" =>
              attempt \in 1..max_retries /\ v = attempt - 1 /\ p = v
        /\ parsing = "asking" => v = attempt /\ v > 0 /\ p = v /\ v < max_retries
        /\ parsing = "corrected" =>
              /\ v = attempt /\ v > 0
              /\ \/ p = v /\ v < max_retries
                 \/ p = v - 1 /\ v = max_retries
        /\ parsing = "returned" =>
              /\ v > 0
              /\ IF RetryFailed THEN p = v /\ v < max_retries
                 ELSE p = v - 1

\* What the outputs validated so far have led to.
OutcomesAt ==
    LET v == Len(validated)
    IN  /\ parsing \in {"validate", "asking", "corrected"} => FailedUpTo(v)
        /\ parsing \in {"asking", "corrected"} => error = ErrorOf(validated[v])
        /\ parsing = "returned" =>
              /\ FailedUpTo(v - 1)
              /\ parsed # "Retry failed" =>
                    /\ parsed = (IF ErrorOf(validated[v]) = "none" THEN "success"
                                 ELSE ErrorOf(validated[v]))
                    /\ parsed # "success" => v = max_retries

ParseInv ==
    /\ ParseTypeOK
    /\ validated \in Seq(Outputs)
    /\ prompts \in Seq(Outputs \X Errors)
    /\ Len(prompts) <= Len(validated)
    /\ PromptsFollow /\ CountsAt /\ OutcomesAt

\* Nothing has been validated at the start.
LEMMA ParseInitEstablishes == ParseInit => ParseInv
  BY MaxRetriesAssumption
     DEF ParseInit, ParseInv, ParseTypeOK, PromptsFollow, CountsAt, OutcomesAt,
         FailedUpTo

\* A validation appends the current output; what was validated before stays.
LEMMA ValidatesAppends ==
    ASSUME ParseInv, Validates
    PROVE  /\ Len(validated') = Len(validated) + 1
           /\ validated' \in Seq(Outputs)
           /\ \A i \in 1..Len(validated) :
                 /\ validated'[i] = validated[i]
                 /\ ErrorOf(validated[i])' = ErrorOf(validated[i])
           /\ validated'[Len(validated')] = current_output
           /\ ErrorOf(validated[Len(validated)])' = error'
           /\ error' \in Errors
           /\ UNCHANGED <<schema, max_retries, current_output>>
<1>1. /\ validated \in Seq(Outputs) /\ current_output \in Outputs
      /\ validated' = Append(validated, current_output)
      /\ UNCHANGED <<schema, max_retries, current_output>>
      /\ error' = ErrorOf(current_output)
  BY DEF Validates, ParseInv, ParseTypeOK
<1>2. /\ Len(validated') = Len(validated) + 1
      /\ validated' \in Seq(Outputs)
      /\ \A i \in 1..Len(validated) : validated'[i] = validated[i]
      /\ validated'[Len(validated')] = current_output
  BY <1>1
<1>3. \A i \in 1..Len(validated) : ErrorOf(validated[i])' = ErrorOf(validated[i])
  BY <1>1, <1>2 DEF ErrorOf
<1>4. ErrorOf(validated[Len(validated)])' = error'
  BY <1>1, <1>2 DEF ErrorOf
<1>5. error' \in Errors
  BY <1>1, ErrorOfTyped
<1> QED
  BY <1>1, <1>2, <1>3, <1>4, <1>5

\* What was logged stays true while the log does not change.
LEMMA LogStays ==
    ASSUME UNCHANGED <<schema, validated, prompts>>
    PROVE  /\ PromptsFollow' <=> PromptsFollow
           /\ FailedUpTo(Len(validated))' <=> FailedUpTo(Len(validated))
           /\ FailedUpTo(Len(validated) - 1)' <=> FailedUpTo(Len(validated) - 1)
           /\ ErrorOf(validated[Len(validated)])' = ErrorOf(validated[Len(validated)])
  BY DEF PromptsFollow, FailedUpTo, ErrorOf

\* All outputs have failed once the last one has, and then the last error is
\* an error.
LEMMA LastFailed ==
    ASSUME ParseInv, FailedUpTo(Len(validated)), Len(validated) > 0
    PROVE  /\ ErrorOf(validated[Len(validated)]) \in Errors \ {"none"}
           /\ FailedUpTo(Len(validated) - 1)
  BY ErrorOfTyped DEF ParseInv, FailedUpTo

\* A failed validation extends the failures, any validation keeps those before.
LEMMA FailuresExtend ==
    ASSUME ParseInv, Validates, FailedUpTo(Len(validated))
    PROVE  /\ FailedUpTo(Len(validated) - 1)'
           /\ error' # "none" => FailedUpTo(Len(validated))'
<1>1. /\ Len(validated) \in Nat /\ Len(validated') = Len(validated) + 1
      /\ \A i \in 1..Len(validated) :
            validated'[i] = validated[i] /\ ErrorOf(validated[i]) # "none"
      /\ ErrorOf(validated[Len(validated)])' = error'
      /\ schema' = schema
  BY ValidatesAppends DEF FailedUpTo, ParseInv
<1>2. \A i \in 1..(Len(validated) + 1) :
         i <= Len(validated) \/ error' # "none" => ErrorOf(validated[i])' # "none"
  <2>1. \A i \in 1..Len(validated) : ErrorOf(validated[i])' = ErrorOf(validated[i])
    BY ValidatesAppends
  <2>2. \A i \in 1..Len(validated) : ErrorOf(validated[i])' # "none"
    BY <1>1, <2>1
  <2>3. \A i : i = Len(validated') => ErrorOf(validated[i])' = error'
    BY <1>1
  <2> QED
    BY <1>1, <2>2, <2>3
<1> QED
  BY <1>1, <1>2 DEF FailedUpTo

\* Every attempt validates, asks and counts as the invariant says.
LEMMA ParseStep == ParseInv /\ [ParseNext]_parseVars => ParseInv'
<1> SUFFICES ASSUME ParseInv, [ParseNext]_parseVars PROVE ParseInv'
  OBVIOUS
<1>a. /\ validated \in Seq(Outputs) /\ Len(validated) \in Nat
      /\ prompts \in Seq(Outputs \X Errors) /\ Len(prompts) \in Nat
      /\ max_retries \in Nat /\ attempt \in Nat /\ Len(prompts) <= Len(validated)
  BY MaxRetriesAssumption DEF ParseInv, ParseTypeOK
<1>b. "success" \notin Errors /\ "Retry failed" \notin Errors
  BY DEF Errors
<1>1. CASE ParseOnce
  <2>1. /\ Len(validated) = 0 /\ Len(prompts) = 0 /\ attempt = 0
        /\ Validates /\ prompts' = prompts
    BY <1>1 DEF ParseOnce, ParseInv, CountsAt
  <2>3. PromptsFollow'
    BY <2>1 DEF PromptsFollow
  <2>4. parsed' = (IF error' = "none" THEN "success" ELSE error')
        /\ parsing' = "returned" /\ max_retries = 1 /\ attempt' = 1
    BY <1>1 DEF ParseOnce, Answer
  <2>5. Len(validated') = 1 /\ error' \in Errors
        /\ ErrorOf(validated[Len(validated)])' = error'
        /\ UNCHANGED <<schema, max_retries, current_output>>
    BY <2>1, ValidatesAppends
  <2>2. ParseTypeOK'
    BY <2>1, <2>4, <2>5 DEF ParseInv, ParseTypeOK
  <2>6. CountsAt'
    <3>1. ~RetryFailed'
      BY <1>b, <2>4, <2>5 DEF RetryFailed
    <3>2. Len(prompts)' = 0 /\ Len(prompts)' \in Nat /\ Len(validated)' \in Nat
      BY <2>1, <2>5
    <3> QED
      BY <2>4, <2>5, <3>1, <3>2 DEF CountsAt
  <2>7. FailedUpTo(Len(validated) - 1)'
    BY <2>5 DEF FailedUpTo
  <2>8. OutcomesAt'
    BY <2>4, <2>5, <2>7 DEF OutcomesAt
  <2> QED
    BY <1>a, <2>1, <2>2, <2>3, <2>5, <2>6, <2>8, ValidatesAppends DEF ParseInv
<1>2. CASE NextAttempt
  <2>1. UNCHANGED <<validated, prompts, schema, error, max_retries, current_output>>
        /\ attempt' = attempt + 1 /\ parsing \in {"idle", "corrected"}
    BY <1>2 DEF NextAttempt
  <2>2. PromptsFollow'
    BY <2>1, LogStays DEF ParseInv
  <2>3. CASE attempt < max_retries
    <3>1. parsing' = "validate"
      BY <1>2, <2>3 DEF NextAttempt
    <3>3. /\ Len(validated) = attempt /\ Len(prompts) = attempt
          /\ FailedUpTo(Len(validated))
      <4>1. CASE parsing = "idle"
        BY <1>a, <4>1 DEF ParseInv, CountsAt, FailedUpTo
      <4>2. CASE parsing = "corrected"
        BY <1>a, <2>3, <4>2 DEF ParseInv, CountsAt, OutcomesAt
      <4> QED
        BY <2>1, <4>1, <4>2
    <3>4. ParseTypeOK'
      BY <1>a, <2>1, <2>3, <3>1, <3>3 DEF ParseInv, ParseTypeOK
    <3>5. CountsAt'
      BY <1>a, <2>1, <2>3, <3>1, <3>3 DEF CountsAt
    <3>6. OutcomesAt'
      BY <2>1, <3>1, <3>3, LogStays DEF OutcomesAt
    <3> QED
      BY <1>a, <2>1, <2>2, <3>4, <3>5, <3>6 DEF ParseInv
  <2>4. CASE ~(attempt < max_retries) /\ attempt = 0
    <3>1. parsing' = "raised"
      BY <1>2, <2>4 DEF NextAttempt
    <3>2. ParseTypeOK'
      BY <1>a, <2>1, <2>4, <3>1 DEF ParseInv, ParseTypeOK
    <3> QED
      BY <1>a, <2>1, <2>2, <3>1, <3>2 DEF ParseInv, CountsAt, OutcomesAt
  <2>5. CASE ~(attempt < max_retries) /\ attempt # 0
    <3>1. parsing' = "returned" /\ parsed' = error /\ parsing = "corrected"
      BY <1>2, <2>1, <2>5 DEF NextAttempt, Answer, ParseInv, CountsAt
    <3>2. /\ FailedUpTo(Len(validated)) /\ error = ErrorOf(validated[Len(validated)])
          /\ Len(validated) = attempt /\ attempt = max_retries
          /\ Len(prompts) = Len(validated) - 1
      BY <1>a, <2>1, <2>5, <3>1 DEF ParseInv, CountsAt, OutcomesAt
    <3>3. /\ ErrorOf(validated[Len(validated)]) \in Errors \ {"none"}
          /\ FailedUpTo(Len(validated) - 1)
      BY <1>a, <2>5, <3>2, LastFailed
    <3>4. ParseTypeOK'
      BY <1>a, <2>1, <2>5, <3>1, <3>2 DEF ParseInv, ParseTypeOK
    <3>5. CountsAt'
      <4>1. ~RetryFailed'
        BY <1>b, <3>1, <3>2, <3>3 DEF RetryFailed
      <4> QED
        BY <1>a, <2>1, <2>5, <3>1, <3>2, <4>1 DEF CountsAt
    <3>6. OutcomesAt'
      BY <2>1, <3>1, <3>2, <3>3, LogStays DEF OutcomesAt
    <3> QED
      BY <1>a, <2>1, <2>2, <3>4, <3>5, <3>6 DEF ParseInv
  <2> QED
    BY <2>3, <2>4, <2>5
<1>3. CASE Attempt
  <2>1. /\ Len(validated) = attempt - 1 /\ Len(prompts) = attempt - 1
        /\ attempt \in 1..max_retries /\ attempt' = attempt
        /\ Validates /\ FailedUpTo(Len(validated))
    BY <1>3 DEF Attempt, ParseInv, CountsAt, OutcomesAt
  <2>2. /\ Len(validated') = attempt /\ validated' \in Seq(Outputs)
        /\ \A i \in 1..Len(validated) :
              /\ validated'[i] = validated[i]
              /\ ErrorOf(validated[i])' = ErrorOf(validated[i])
        /\ validated'[attempt] = current_output
        /\ ErrorOf(validated[Len(validated)])' = error'
        /\ error' \in Errors
        /\ UNCHANGED <<schema, max_retries, current_output>>
        /\ current_output \in Outputs
    BY <1>a, <2>1, ValidatesAppends DEF ParseInv, ParseTypeOK
  <2>3. /\ FailedUpTo(Len(validated) - 1)'
        /\ error' # "none" => FailedUpTo(Len(validated))'
    BY <2>1, FailuresExtend
  <2>4. \A i \in 1..Len(prompts) :
           prompts[i] = <<validated'[i], ErrorOf(validated[i])'>>
    BY <1>a, <2>1, <2>2 DEF ParseInv, PromptsFollow
  <2>5. CASE error' = "none"
    <3>1. parsing' = "returned" /\ parsed' = "success" /\ prompts' = prompts
      BY <1>3, <2>5 DEF Attempt, Answer
    <3>2. ParseTypeOK'
      BY <1>a, <2>1, <2>2, <3>1 DEF ParseInv, ParseTypeOK
    <3>3. PromptsFollow'
      BY <1>a, <2>1, <2>2, <2>4, <3>1 DEF PromptsFollow, ErrorOf
    <3>4. CountsAt'
      <4>1. ~RetryFailed'
        BY <3>1 DEF RetryFailed
      <4> QED
        BY <1>a, <2>1, <2>2, <3>1, <4>1 DEF CountsAt
    <3>5. OutcomesAt'
      BY <2>2, <2>3, <2>5, <3>1 DEF OutcomesAt
    <3> QED
      BY <1>a, <2>1, <2>2, <3>1, <3>2, <3>3, <3>4, <3>5 DEF ParseInv
  <2>6. CASE error' # "none" /\ attempt < max_retries
    <3>1. /\ parsing' = "asking" /\ parsed' = parsed
          /\ prompts' = Append(prompts, <<current_output, error'>>)
      BY <1>3, <2>6 DEF Attempt
    <3>2. /\ prompts' \in Seq(Outputs \X Errors) /\ Len(prompts') = attempt
          /\ \A i \in 1..Len(prompts) : prompts'[i] = prompts[i]
          /\ prompts'[attempt] = <<current_output, error'>>
      BY <1>a, <2>1, <2>2, <3>1
    <3>3. ParseTypeOK'
      BY <1>a, <2>1, <2>2, <2>6, <3>1, <3>2 DEF ParseInv, ParseTypeOK
    <3>4. PromptsFollow'
      <4>1. \A i \in 1..Len(prompts') :
               prompts'[i] = <<validated'[i], ErrorOf(validated[i])'>>
        BY <1>a, <2>1, <2>2, <2>4, <3>2
      <4> QED
        BY <4>1 DEF PromptsFollow
    <3>5. CountsAt'
      BY <1>a, <2>1, <2>2, <2>6, <3>1, <3>2 DEF CountsAt
    <3>6. OutcomesAt'
      BY <2>2, <2>3, <2>6, <3>1 DEF OutcomesAt
    <3> QED
      BY <1>a, <2>1, <2>2, <3>2, <3>3, <3>4, <3>5, <3>6 DEF ParseInv
  <2>7. CASE error' # "none" /\ ~(attempt < max_retries)
    <3>1. parsing' = "corrected" /\ parsed' = parsed /\ prompts' = prompts
      BY <1>3, <2>7 DEF Attempt
    <3>2. ParseTypeOK'
      BY <1>a, <2>1, <2>2, <3>1 DEF ParseInv, ParseTypeOK
    <3>3. PromptsFollow'
      BY <1>a, <2>1, <2>2, <2>4, <3>1 DEF PromptsFollow, ErrorOf
    <3>4. CountsAt'
      BY <1>a, <2>1, <2>2, <2>7, <3>1 DEF CountsAt
    <3>5. OutcomesAt'
      BY <2>2, <2>3, <2>7, <3>1 DEF OutcomesAt
    <3> QED
      BY <1>a, <2>1, <2>2, <3>1, <3>2, <3>3, <3>4, <3>5 DEF ParseInv
  <2> QED
    BY <2>5, <2>6, <2>7
<1>4. CASE LlmCorrects
  <2>1. UNCHANGED <<validated, prompts, schema, error, max_retries, attempt>>
        /\ parsing = "asking" /\ parsing' = "corrected" /\ current_output' \in Outputs
    BY <1>4 DEF LlmCorrects
  <2>2. error = ErrorOf(validated[Len(validated)]) /\ FailedUpTo(Len(validated))
    BY <2>1 DEF ParseInv, OutcomesAt
  <2>3. ParseTypeOK' /\ CountsAt' /\ Len(prompts)' <= Len(validated)'
    BY <1>a, <2>1 DEF ParseInv, ParseTypeOK, CountsAt
  <2>4. PromptsFollow' /\ OutcomesAt'
    BY <2>1, <2>2, LogStays DEF ParseInv, OutcomesAt
  <2> QED
    BY <1>a, <2>1, <2>3, <2>4 DEF ParseInv
<1>5. CASE LlmFails
  <2>1. UNCHANGED <<validated, prompts, schema, error, max_retries, attempt,
                    current_output>>
        /\ parsing = "asking" /\ parsing' = "returned" /\ parsed' = "Retry failed"
    BY <1>5 DEF LlmFails, Answer
  <2>2. FailedUpTo(Len(validated)) /\ Len(validated) > 0
    BY <1>a, <2>1 DEF ParseInv, CountsAt, OutcomesAt
  <2>3. RetryFailed'
    BY <2>1 DEF RetryFailed
  <2>5. ParseTypeOK' /\ CountsAt'
    BY <1>a, <2>1, <2>2, <2>3 DEF ParseInv, ParseTypeOK, CountsAt
  <2>4. PromptsFollow' /\ OutcomesAt'
    BY <2>1, <2>2, LogStays, LastFailed DEF ParseInv, OutcomesAt
  <2> QED
    BY <1>a, <2>1, <2>4, <2>5 DEF ParseInv
<1>6. CASE CancelParse
  <2>1. UNCHANGED <<validated, prompts, schema, error, max_retries, attempt,
                    current_output, parsed>>
        /\ parsing = "asking" /\ parsing' = "raised"
    BY <1>6 DEF CancelParse
  <2>2. ParseTypeOK' /\ CountsAt' /\ OutcomesAt'
    BY <1>a, <2>1 DEF ParseInv, ParseTypeOK, CountsAt, OutcomesAt
  <2> QED
    BY <1>a, <2>1, <2>2, LogStays DEF ParseInv
<1>7. CASE UNCHANGED parseVars
  <2>1. UNCHANGED <<parsing, validated, prompts, schema, error, max_retries,
                    attempt, current_output, parsed>>
    BY <1>7 DEF parseVars
  <2>4. RetryFailed' <=> RetryFailed
    BY <2>1 DEF RetryFailed
  <2>2. ParseTypeOK' /\ CountsAt'
    BY <2>1, <2>4 DEF ParseInv, ParseTypeOK, CountsAt
  <2>3. PromptsFollow' /\ OutcomesAt'
    BY <2>1, LogStays DEF ParseInv, OutcomesAt
  <2> QED
    BY <1>a, <2>1, <2>2, <2>3 DEF ParseInv
<1> QED
  BY <1>1, <1>2, <1>3, <1>4, <1>5, <1>6, <1>7 DEF ParseNext

\* Every answer of parse_with_retry is that of the outputs it has validated, and
\* the LLM was asked about each output that failed before another attempt.
THEOREM AnswerOfAttemptsHolds == ParseSpec => []AnswerOfAttempts
<1>1. ParseInv => AnswerOfAttempts
  <2> SUFFICES ASSUME ParseInv PROVE AnswerOfAttempts
    OBVIOUS
  <2> DEFINE last == Len(validated)
  <2>1. last \in Nat /\ Len(prompts) \in Nat
    BY DEF ParseInv
  <2>2. PromptsFollow
    BY DEF ParseInv
  <2>3. ASSUME parsing = "returned"
        PROVE  /\ \A i \in 1..(last - 1) : ErrorOf(validated[i]) # "none"
               /\ RetryFailed => Len(prompts) = last /\ last < max_retries
               /\ ~RetryFailed => Len(prompts) = last - 1
    BY <2>1, <2>3 DEF ParseInv, CountsAt, OutcomesAt, FailedUpTo
  <2>4. ASSUME parsing = "returned", parsed # "Retry failed"
        PROVE  /\ parsed = (IF ErrorOf(validated[last]) = "none" THEN "success"
                            ELSE ErrorOf(validated[last]))
               /\ parsed # "success" => last = max_retries
    BY <2>4 DEF ParseInv, OutcomesAt
  <2>5. RetryFailed <=> parsed = "Retry failed"
    BY DEF RetryFailed
  <2> QED
    BY <2>2, <2>3, <2>4, <2>5 DEF AnswerOfAttempts, PromptsFollow
<1> QED
  BY <1>1, ParseInitEstablishes, ParseStep, PTL DEF ParseSpec

\* parse_with_retry makes at most max_retries validations and prompts.
THEOREM ParseTypesHold == ParseSpec => []ParseTypeOK
<1>1. ParseInv => ParseTypeOK
  BY DEF ParseInv
<1> QED
  BY <1>1, ParseInitEstablishes, ParseStep, PTL DEF ParseSpec

-----------------------------------------------------------------------------

\* The two systems side by side: each of them takes its own steps or none.
LEMMA SideBySide == MCSpec => Spec /\ ParseSpec
<1>1. MCInit => Init /\ ParseInit
  BY DEF MCInit
<1>2. [MCNext]_<<vars, parseVars, focus>> => [Next]_vars /\ [ParseNext]_parseVars
  BY DEF MCNext
<1> QED
  BY <1>1, <1>2, PTL DEF MCSpec, Spec, ParseSpec

\* Both have their types in every run of the two, as MCLlmSurface.cfg checks.
THEOREM TypesHold == MCSpec => []TypeOK
  BY SideBySide, SurfaceTypesHold, ParseTypesHold, PTL DEF TypeOK

=============================================================================
