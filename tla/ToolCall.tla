------------------------------ MODULE ToolCall ------------------------------
(***************************************************************************)
(* One tool call, from the executor's choice of a timeout to the           *)
(* observation it makes of the answer: ToolRegistry::execute_with_timeout  *)
(* with the validation of the input, the tools of runtime/src/tools        *)
(* (mock.rs, url_fetch.rs, web_search.rs, code_exec.rs) and the timeout    *)
(* configuration.                                                          *)
(*                                                                         *)
(* An input is the form of its required text, the form and the value of    *)
(* its number, and whether its text splits: text is cut at a byte, 500 for *)
(* the log and 4000 for an observation, and a slice that ends inside of a  *)
(* character panics.  The life of a container is module CodeExec, and what *)
(* concurrent calls do to the breakers module ToolRegistry.                *)
(***************************************************************************)
EXTENDS Integers, Sequences, FiniteSets

CONSTANTS
    Numbers,            \* numbers an input may hold
    Durations,          \* timeouts that are configured, in ticks
    DefaultTimeout,     \* 60 000 ms, in ticks
    MaxOverrides        \* bound on the tools with a timeout of their own

ASSUME CallAssumption ==
    /\ Numbers \subseteq Int
    /\ Durations \subseteq Nat /\ {DefaultTimeout, MaxOverrides} \subseteq Nat

VARIABLES
    timeouts,           \* ToolTimeoutConfig: default and per_tool
    call                \* the call

callVars == <<timeouts, call>>

ToolNames == {"mock_echo", "url_fetch", "web_search", "code_exec"}

\* The text "none" is absent or no string, "unknown" a string outside of the
\* enumeration of languages; "integral" is a number written with a fraction of
\* zero.
Inputs == [text : {"none", "string", "unknown"},
           number : [form : {"integer", "integral"}, value : Numbers]
                    \cup [form : {"absent", "other"}, value : {0}],
           splits : BOOLEAN]

-----------------------------------------------------------------------------

(***************************************************************************)
(* Schemas and extraction.                                                 *)
(***************************************************************************)

\* DEFAULT_TIMEOUT_SECONDS and MAX_TIMEOUT_SECONDS of code_exec, and what the
\* search takes for them.
Default(tool) == IF tool = "web_search" THEN 5 ELSE 10

Highest(tool) == IF tool = "web_search" THEN 10 ELSE 30

TakesNumber(tool) == tool \in {"web_search", "code_exec"}

MockSchema == [languages |-> FALSE, number |-> FALSE, range |-> {}]

FetchSchema == [languages |-> FALSE, number |-> FALSE, range |-> {}]

\* Mutant: the schema of the search allows for more than the tool honours.
SearchSchemaOfThirty == [languages |-> FALSE, number |-> TRUE, range |-> 1..30]

SearchSchema == [languages |-> FALSE, number |-> TRUE, range |-> 1..10]

CodeSchema == [languages |-> TRUE, number |-> TRUE, range |-> 1..30]

InputSchema(tool) ==
    CASE tool = "mock_echo" -> MockSchema
      [] tool = "url_fetch" -> FetchSchema
      [] tool = "web_search" -> SearchSchema
      [] tool = "code_exec" -> CodeSchema

\* For JSON Schema 3.0 is an integer.  Other properties are not looked at.
Valid(schema, input) ==
    /\ input.text \in {"string"} \cup (IF schema.languages THEN {} ELSE {"unknown"})
    /\ schema.number =>
          \/ input.number.form = "absent"
          \/ /\ input.number.form \in {"integer", "integral"}
             /\ input.number.value \in schema.range

Clamp(x, low, high) == IF x < low THEN low ELSE IF x > high THEN high ELSE x

\* as_i64 of anything but an integer without a fraction is None.
Extracted(tool, number) ==
    Clamp(IF number.form = "integer" THEN number.value ELSE Default(tool),
          1, Highest(tool))

-----------------------------------------------------------------------------

DefaultConfig == [default |-> DefaultTimeout, per_tool |-> <<>>]

\* from_env: an absent or unreadable variable leaves the default.
CallInit ==
    /\ \/ timeouts = DefaultConfig
       \/ \E d \in Durations : timeouts = [DefaultConfig EXCEPT !.default = d]
    /\ call = [at |-> "none", timeout |-> 0]

SetTimeout(tool, d) ==
    /\ call.at = "none" /\ Cardinality(DOMAIN timeouts.per_tool) < MaxOverrides
    /\ timeouts' = [timeouts EXCEPT !.per_tool =
                        [t \in DOMAIN @ \cup {tool} |-> IF t = tool THEN d ELSE @[t]]]
    /\ UNCHANGED call

GetTimeout(tool) ==
    IF tool \in DOMAIN timeouts.per_tool THEN timeouts.per_tool[tool]
    ELSE timeouts.default

\* The executor dispatches an action of the LLM through the registry; the tests
\* of the tools call a tool directly, without validation.
Dispatch(tool, input, direct) ==
    /\ call.at \in {"none", "next"}
    /\ call' = [at |-> IF direct THEN "execute" ELSE "log input",
                tool |-> tool, input |-> input, direct |-> direct,
                timeout |-> GetTimeout(tool), elapsed |-> 0,
                number |-> 0, served |-> FALSE, executed |-> FALSE,
                outcome |-> "none", verdicts |-> <<>>, reply |-> "none"]
    /\ UNCHANGED timeouts

\* The executor goes on to the next action, or to the corrected one.
Proceed ==
    /\ call.at = "done"
    /\ call' = [at |-> "next", timeout |-> 0]
    /\ UNCHANGED timeouts

\* One step of the call.
Goes(from, to) == call.at = from /\ call' = to /\ UNCHANGED timeouts

Returns(reply) == [call EXCEPT !.at = "done", !.reply = reply]

\* truncate_json slices the input before anything else is done.
LogInput ==
    Goes("log input", IF call.input.splits THEN Returns("panic")
                      ELSE [call EXCEPT !.at = "admit"])

\* The tool may be unknown, its breaker may reject the call, and then the input
\* is validated.
Admit ==
    \/ \E reply \in {"NotFound", "CircuitOpen"} : Goes("admit", Returns(reply))
    \/ Goes("admit", IF Valid(InputSchema(call.tool), call.input)
                     THEN [call EXCEPT !.at = "execute"]
                     ELSE Returns("InvalidInput"))

\* The future of the tool ends; a direct call has nothing around it.
Ended(c, outcome) ==
    [c EXCEPT !.at = IF c.direct THEN "done" ELSE "verdict",
              !.outcome = outcome, !.reply = outcome]

\* The tool holds the number it uses for the rest of the call.
Started(number) == [call EXCEPT !.executed = TRUE, !.number = number]

Executing(tool) == call.at = "execute" /\ call.tool = tool

\* Without its required text a tool refuses the input, whatever else holds.
Refuses(c) == call.input.text = "none" /\ Goes("execute", Ended(c, "InvalidInput"))

\* The mock has no await: it answers at once.
StartEcho ==
    /\ Executing("mock_echo")
    /\ \/ Refuses(Started(0))
       \/ /\ call.input.text # "none"
          /\ Goes("execute", Ended([Started(0) EXCEPT !.served = TRUE], "Ok"))

StartFetch ==
    /\ Executing("url_fetch")
    /\ \/ Refuses(Started(0))
       \/ /\ call.input.text # "none"
          /\ Goes("execute", [Started(0) EXCEPT !.at = "send"])

\* The key of the search service may be absent.
StartSearch ==
    /\ Executing("web_search")
    /\ LET c == Started(Extracted("web_search", call.input.number))
       IN  \/ Refuses(c)
           \/ /\ call.input.text # "none"
              /\ \/ Goes("execute", Ended(c, "ExecutionFailed"))
                 \/ Goes("execute", [c EXCEPT !.at = "send"])

\* image_for_language knows the languages of the enumeration.
HasImage(language) == language = "string"

\* The language may be an unknown one, the daemon unreachable.
StartCode ==
    /\ Executing("code_exec")
    /\ LET c == Started(Extracted("code_exec", call.input.number))
       IN  \/ Refuses(c)
           \/ /\ call.input.text # "none"
              /\ Goes("execute", Ended(c, "ExecutionFailed"))
           \/ /\ HasImage(call.input.text)
              /\ Goes("execute", [c EXCEPT !.at = "send"])

\* The head of the response; any status but 2xx fails the call.
FetchHead ==
    /\ call.at = "send" /\ call.tool = "url_fetch"
    /\ \/ Goes("send", [call EXCEPT !.at = "body"])
       \/ Goes("send", Ended(call, "ExecutionFailed"))

SearchHead ==
    /\ call.at = "send" /\ call.tool = "web_search"
    /\ \/ Goes("send", [call EXCEPT !.at = "body"])
       \/ Goes("send", Ended(call, "ExecutionFailed"))

\* The body is read to its end.  A page is any text, decoded with loss.
FetchBody ==
    /\ call.at = "body" /\ call.tool = "url_fetch"
    /\ Goes("body", Ended([call EXCEPT !.served = TRUE], "Ok"))

\* The answer of the search must be JSON with an array "organic".
SearchBody ==
    /\ call.at = "body" /\ call.tool = "web_search"
    /\ \/ Goes("body", Ended([call EXCEPT !.served = TRUE], "Ok"))
       \/ Goes("body", Ended(call, "ExecutionFailed"))

ConnectionBreaks ==
    /\ call.at \in {"send", "body"} /\ call.tool # "code_exec"
    /\ Goes(call.at, Ended(call, "ExecutionFailed"))

\* What code_exec returns is module CodeExec's; here it just ends.
ContainerEnds ==
    /\ call.at = "send" /\ call.tool = "code_exec"
    /\ \/ Goes("send", Ended([call EXCEPT !.served = TRUE], "Ok"))
       \/ Goes("send", Ended(call, "ExecutionFailed"))

\* An await takes time; the timer may be late by a tick.
Elapse ==
    /\ call.at \in {"send", "body"} /\ call.elapsed =< call.timeout
    /\ Goes(call.at, [call EXCEPT !.elapsed = @ + 1])

\* The future is polled before the deadline is, so that only an await runs into
\* it.
TimeoutFires ==
    /\ call.at \in {"send", "body"} /\ ~call.direct
    /\ call.elapsed >= call.timeout
    /\ Goes(call.at, Ended(call, "Timeout"))

\* The caller's future is dropped at an await.
Abandon ==
    /\ call.at \in {"send", "body"}
    /\ Goes(call.at, [call EXCEPT !.at = "done", !.reply = "dropped"])

Recorded(c) == [c EXCEPT !.verdicts = Append(@, c.outcome = "Ok")]

\* Mutant: the output is logged before the success is recorded.
RecordAfterLog ==
    \E split \in BOOLEAN :
        Goes("verdict", IF call.outcome # "Ok" THEN [Recorded(call) EXCEPT !.at = "done"]
                        ELSE IF split THEN Returns("panic")
                        ELSE [Recorded(call) EXCEPT !.at = "observe"])

\* The breaker is told, then a success has its output sliced for the log.
Record ==
    \E split \in BOOLEAN :
        Goes("verdict", IF call.outcome # "Ok" THEN [Recorded(call) EXCEPT !.at = "done"]
                        ELSE IF split
                        THEN [Recorded(call) EXCEPT !.at = "done", !.reply = "panic"]
                        ELSE [Recorded(call) EXCEPT !.at = "observe"])

\* format_observation slices the output once more.
Observe ==
    \E split \in BOOLEAN :
        Goes("observe", Returns(IF split THEN "panic" ELSE call.reply))

CallNext ==
    \/ \E tool \in ToolNames : \E d \in Durations : SetTimeout(tool, d)
    \/ \E tool \in ToolNames, input \in Inputs, direct \in BOOLEAN :
          Dispatch(tool, input, direct)
    \/ Proceed \/ LogInput \/ Admit
    \/ StartEcho \/ StartFetch \/ StartSearch \/ StartCode
    \/ FetchHead \/ SearchHead \/ FetchBody \/ SearchBody
    \/ ConnectionBreaks \/ ContainerEnds \/ Elapse \/ TimeoutFires \/ Abandon
    \/ Record \/ Observe

CallSpec == CallInit /\ [][CallNext]_callVars

-----------------------------------------------------------------------------

CallTypeOK ==
    /\ timeouts.default \in Nat
    /\ DOMAIN timeouts.per_tool \subseteq ToolNames
    /\ call.at \notin {"none", "next"} =>
          /\ call.at \in {"log input", "admit", "execute", "send", "body",
                          "verdict", "observe", "done"}
          /\ call.outcome \in {"none", "Ok", "InvalidInput", "ExecutionFailed", "Timeout"}
          /\ call.verdicts \in Seq(BOOLEAN)

\* A call whose tool ran to an end, the timeout included, gives its breaker one
\* verdict, a success exactly if the service answered in full, and it gives it
\* even if the log line or the observation of its output panics
\* (registry.rs:302 and 304, executor.rs:539).  A call that was rejected,
\* dropped or made without the registry gives none.
VerdictPerExecution ==
    call.at = "done" =>
        call.verdicts = IF call.direct \/ ~call.executed \/ call.reply = "dropped"
                        THEN <<>> ELSE <<call.served>>

\* What the schema of a tool lets pass, its execute can do: a validated call is
\* not refused for its input, a number written as an integer is the one that is
\* used and not a clamped one, and no call uses a number out of the tool's range
\* (code_exec.rs:148, web_search.rs:88).  A number written with a fraction of
\* zero is valid too, and as_i64 replaces it by the default.
ValidInputsAreHonoured ==
    call.at \notin {"none", "next"} /\ call.executed =>
        /\ TakesNumber(call.tool) => call.number \in 1..Highest(call.tool)
        /\ ~call.direct =>
              /\ call.outcome # "InvalidInput"
              /\ call.tool = "code_exec" => call.input.text = "string"
              /\ TakesNumber(call.tool) /\ call.input.number.form = "integer"
                    => call.number = call.input.number.value
=============================================================================
