---------------------------- MODULE ToolsProofs -----------------------------
(***************************************************************************)
(* Proofs about CodeExec, for every set of exit codes, about ToolCall, for *)
(* every set of numbers an input may hold and every configuration of       *)
(* timeouts, and about the three modules of the tools side by side.        *)
(***************************************************************************)
EXTENDS MCTools, ToolRegistryProofs

(***************************************************************************)
(* The code execution tool.                                                *)
(***************************************************************************)

\* The request in flight, or its answer, is of the await the tool is at.
RequestOfAwait ==
    /\ pc \in {"idle", "logs"} => request = "none"
    /\ pc \in Operations => request \in {pc, "served", "broken"}
    /\ pc = "done" /\ ~dropped => request \notin Operations

\* What the tool knows at each await.
Progress ==
    /\ pc \in {"idle", "create"} => ~container_id
    /\ pc \in {"idle", "create", "start", "logs"} \/ request = "create" =>
          stream = "none"
    /\ pc \in {"idle", "create"} \cup RunPoints =>
          outcome = "none" /\ container # "removed"
    /\ result # "none" => pc = "done"
    /\ result = "Ok" => outcome = "Ok"
    /\ dropped => pc = "done"

\* The tool is told the truth about the removal, and returns only after it.
RemovalIsKnown ==
    /\ pc = "remove" /\ request = "served" => container = "removed"
    /\ removal = "removed" => container = "removed" /\ request \notin Operations
    /\ pc = "done" /\ ~dropped /\ container_id => removal # "none"

\* Until the tool has the id of its container, nothing but a create request may
\* have reached the daemon; without it the tool returns only if no container
\* exists or its answer was lost.
IdIsKnown ==
    /\ pc \notin {"idle", "create", "done"} => container_id
    /\ pc = "idle" \/ request = "create" => container = "absent"
    /\ ~container_id => /\ ~orphan
                       /\ container \in {"absent", "created"}
                       /\ request \in {"none", "create", "served", "broken"}
    /\ pc = "done" /\ ~dropped /\ ~container_id =>
          container = "absent" \/ request = "broken"

\* A log that ended is of a container that exited.  What the daemon tells of an
\* exited container is its exit code, if it tells one.
ExitIsKnown ==
    /\ container = "exited" => exit_code \in ExitCodes
    /\ stream = "ended" =>
          container \in {"exited", "removed"} /\ exit_code \in ExitCodes
    /\ inspected \notin {RunningExitCode, NoExit} =>
          container \in {"exited", "removed"} /\ inspected = exit_code
    /\ stream = "ended" /\ pc = "inspect" /\ request = "served" =>
          inspected \in {exit_code, NoExit}

\* The report is made of what the daemon told.
ReportIsOfExit ==
    outcome = "Ok" =>
        /\ reported # OomKilled
        /\ reported \notin {RunningExitCode, EXIT_CODE_UNKNOWN} =>
              container \in {"exited", "removed"} /\ reported = exit_code
        /\ stream = "ended" /\ reported # EXIT_CODE_UNKNOWN => reported = exit_code

CodeExecInv ==
    /\ CodeExecTypeOK /\ RequestOfAwait /\ Progress /\ RemovalIsKnown
    /\ IdIsKnown /\ ExitIsKnown /\ ReportIsOfExit

-----------------------------------------------------------------------------

\* Nothing has been created before the execution starts.
LEMMA CodeExecInitEstablishes == CodeExecInit => CodeExecInv
  BY DEF CodeExecInit, CodeExecInv, CodeExecTypeOK, RequestOfAwait, Progress,
     RemovalIsKnown, IdIsKnown, ExitIsKnown, ReportIsOfExit, Operations,
     RunPoints, Awaits, RunningExitCode, NoExit

\* Every step of the tool, the daemon and the container preserves it.
LEMMA CodeExecStep == CodeExecInv /\ [CodeExecNext]_codeVars => CodeExecInv'
<1> SUFFICES ASSUME CodeExecInv, [CodeExecNext]_codeVars PROVE CodeExecInv'
  OBVIOUS
<1> USE ExitCodesAssumption
    DEF CodeExecInv, CodeExecTypeOK, RequestOfAwait, Progress, RemovalIsKnown,
        IdIsKnown, ExitIsKnown, ReportIsOfExit, Operations, RunPoints, Awaits,
        Ask, Finish, RunEnds, OomKilled, RunningExitCode, NoExit,
        EXIT_CODE_UNKNOWN
<1>1. CASE Refuse
  BY <1>1 DEF Refuse
<1>2. CASE Create
  BY <1>2 DEF Create
<1>3. CASE CreateAnswered
  <2>1. CodeExecTypeOK'
    <3>1. container_id' = TRUE \/ container_id' = container_id
      BY <1>3 DEF CreateAnswered
    <3>2. container_id \in BOOLEAN
      OBVIOUS
    <3>3. container_id' \in BOOLEAN
      BY ONLY <3>1, <3>2, Zenon
    <3> QED
      BY <1>3, <3>3 DEF CreateAnswered
  <2>2. RequestOfAwait'
    BY <1>3 DEF CreateAnswered
  <2>3. Progress'
    BY <1>3 DEF CreateAnswered
  <2>4. RemovalIsKnown' /\ IdIsKnown'
    BY <1>3 DEF CreateAnswered
  <2>5. ExitIsKnown' /\ ReportIsOfExit'
    BY <1>3 DEF CreateAnswered
  <2> QED
    BY <2>1, <2>2, <2>3, <2>4, <2>5
<1>4. CASE StartAnswered
  BY <1>4 DEF StartAnswered
<1>5. CASE InspectAnswered
  BY <1>5 DEF InspectAnswered
<1>6. CASE RemoveAnswered
  BY <1>6 DEF RemoveAnswered
<1>7. CASE LogsBreak
  BY <1>7 DEF LogsBreak
<1>8. CASE LogsEnd
  BY <1>8 DEF LogsEnd
<1>9. CASE ToolTimeout
  BY <1>9 DEF ToolTimeout
<1>10. CASE Drop
  BY <1>10 DEF Drop
<1>11. CASE Serve
  BY <1>11 DEF Serve
<1>12. CASE Break
  BY <1>12 DEF Break
<1>13. CASE ServeOrphan
  <2>1. CodeExecTypeOK'
    <3>1. orphan' \in BOOLEAN
      BY <1>13, Zenon DEF ServeOrphan
    <3> QED
      BY <1>13, <3>1 DEF ServeOrphan
  <2>2. RequestOfAwait'
    BY <1>13 DEF ServeOrphan
  <2>3. Progress'
    BY <1>13 DEF ServeOrphan
  <2>4. RemovalIsKnown' /\ IdIsKnown'
    BY <1>13 DEF ServeOrphan
  <2>5. ExitIsKnown' /\ ReportIsOfExit'
    BY <1>13 DEF ServeOrphan
  <2> QED
    BY <2>1, <2>2, <2>3, <2>4, <2>5
<1>14. CASE Exit
  BY <1>14 DEF Exit
<1>15. CASE UNCHANGED codeVars
  BY <1>15 DEF codeVars
<1> QED
  BY <1>1, <1>2, <1>3, <1>4, <1>5, <1>6, <1>7, <1>8, <1>9, <1>10, <1>11, <1>12, <1>13, <1>14, <1>15
     DEF CodeExecNext, RequestAnswered, Daemon

\* The control state of an execution, and what the tool knows of its container.
THEOREM CodeExecInvariant == CodeExecSpec => []CodeExecInv
  BY CodeExecInitEstablishes, CodeExecStep, PTL DEF CodeExecSpec

\* The type invariant, for every set of exit codes.
THEOREM CodeExecTypesHold == CodeExecSpec => []CodeExecTypeOK
  BY CodeExecInvariant, PTL DEF CodeExecInv

\* An execution that is not dropped returns after the daemon removed its
\* container, or reported that it could not, or before a container exists, or
\* without the answer to its create request.
THEOREM ReturnsAfterCleanupHolds == CodeExecSpec => []ReturnsAfterCleanup
<1>1. CodeExecInv => ReturnsAfterCleanup
  BY DEF CodeExecInv, CodeExecTypeOK, RemovalIsKnown, IdIsKnown, ReturnsAfterCleanup
<1> QED
  BY <1>1, CodeExecInvariant, PTL

\* The exit code of a reported success is the one the code ended with and not
\* that of an OOM kill, unless it is -1, or 0 after a log stream that broke.
THEOREM ReportsTrueExitHolds == CodeExecSpec => []ReportsTrueExit
<1>1. CodeExecInv => ReportsTrueExit
  BY DEF CodeExecInv, Progress, ReportIsOfExit, ReportsTrueExit
<1> QED
  BY <1>1, CodeExecInvariant, PTL

-----------------------------------------------------------------------------

(***************************************************************************)
(* The records of a call.                                                  *)
(***************************************************************************)

CallPoints == {"log input", "admit", "execute", "send", "body", "verdict",
               "observe", "done"}

CallOutcomes == {"none", "Ok", "InvalidInput", "ExecutionFailed", "Timeout"}

CallReplies == CallOutcomes \cup {"NotFound", "CircuitOpen", "panic", "dropped"}

CallRecord ==
    [at : CallPoints, tool : ToolNames, input : Inputs, direct : BOOLEAN,
     timeout : Nat, elapsed : Nat, number : Int, served : BOOLEAN,
     executed : BOOLEAN, outcome : CallOutcomes, verdicts : Seq(BOOLEAN),
     reply : CallReplies]

NoCallRecord == [at : {"none", "next"}, timeout : Nat]

\* A call waits for its timeout, and by a tick more than that.
WaitOK(c) ==
    /\ c.elapsed <= c.timeout + 1
    /\ c.outcome = "Timeout" => c.elapsed >= c.timeout

\* A call through the registry executes with a valid input, and the number it
\* uses is the number of the input.
InputOK(c) ==
    /\ (c.executed \/ c.at = "execute") /\ ~c.direct
          => Valid(InputSchema(c.tool), c.input)
    /\ c.executed /\ TakesNumber(c.tool) =>
          c.number = Extracted(c.tool, c.input.number)
    /\ c.executed /\ ~c.direct => c.outcome # "InvalidInput"

\* Where a call is, by whether its tool was executed.
PointOK(c) ==
    /\ IF c.executed THEN c.at \in {"send", "body", "verdict", "observe", "done"}
       ELSE c.at \in {"log input", "admit", "execute", "done"} /\ c.outcome = "none"
    /\ c.at \in {"send", "body"} => c.outcome = "none"

\* The verdict is owed until it is recorded, and recorded once.
VerdictOK(c) ==
    /\ c.at \notin {"observe", "done"} => c.verdicts = <<>>
    /\ c.at \in {"log input", "admit", "execute", "send", "body"} => ~c.served
    /\ c.at \in {"verdict", "observe"} =>
          ~c.direct /\ c.reply # "dropped" /\ (c.served <=> c.outcome = "Ok")
    /\ c.at = "observe" => c.verdicts = <<c.served>>
    /\ c.at = "done" =>
          c.verdicts = IF c.direct \/ ~c.executed \/ c.reply = "dropped"
                       THEN <<>> ELSE <<c.served>>

CallOK(c) ==
    c \in CallRecord /\ WaitOK(c) /\ InputOK(c) /\ PointOK(c) /\ VerdictOK(c)

ConfigOK ==
    /\ timeouts.default \in Nat
    /\ DOMAIN timeouts.per_tool \subseteq ToolNames
    /\ \A tool \in DOMAIN timeouts.per_tool : timeouts.per_tool[tool] \in Nat
    /\ timeouts = [default |-> timeouts.default, per_tool |-> timeouts.per_tool]

CallInv ==
    /\ ConfigOK
    /\ \/ call \in NoCallRecord
       \/ CallOK(call) /\ call.timeout = GetTimeout(call.tool)

\* The timeouts are those of the environment, and no call was made.
LEMMA CallInitEstablishes == CallInit => CallInv
<1> SUFFICES ASSUME CallInit PROVE CallInv
  OBVIOUS
<1>1. PICK d \in Nat : timeouts = [default |-> d, per_tool |-> <<>>]
  BY CallAssumption DEF CallInit, DefaultConfig
<1>2. ConfigOK
  BY <1>1 DEF ConfigOK
<1>3. call \in NoCallRecord
  BY DEF CallInit, NoCallRecord
<1> QED
  BY <1>2, <1>3 DEF CallInv

\* A timeout that is configured is a time.
LEMMA TimeoutTyped ==
    ASSUME ConfigOK, NEW tool \in ToolNames
    PROVE  GetTimeout(tool) \in Nat
  BY DEF ConfigOK, GetTimeout

\* Configuring a tool adds its timeout or replaces it.
LEMMA SetTimeoutKeeps ==
    ASSUME CallInv, NEW tool \in ToolNames, NEW d \in Durations, SetTimeout(tool, d)
    PROVE  CallInv'
<1>1. d \in Nat /\ call' = call /\ call.at = "none"
      /\ timeouts' = [timeouts EXCEPT !.per_tool =
                         [t \in DOMAIN timeouts.per_tool \cup {tool} |->
                             IF t = tool THEN d ELSE timeouts.per_tool[t]]]
  BY CallAssumption DEF SetTimeout
<1>2. call \in NoCallRecord
  BY <1>1 DEF CallInv, CallOK, CallRecord, CallPoints
<1> DEFINE new == [t \in DOMAIN timeouts.per_tool \cup {tool} |->
                      IF t = tool THEN d ELSE timeouts.per_tool[t]]
<1>3. /\ DOMAIN new = {tool} \cup DOMAIN timeouts.per_tool
      /\ new[tool] = d
      /\ \A other \in DOMAIN timeouts.per_tool \ {tool} :
            new[other] = timeouts.per_tool[other]
  OBVIOUS
<1> HIDE DEF new
<1>4. timeouts' = [default |-> timeouts.default, per_tool |-> new]
  BY <1>1 DEF CallInv, ConfigOK, new
<1>5. ConfigOK'
  BY <1>1, <1>3, <1>4 DEF CallInv, ConfigOK
<1> QED
  BY <1>1, <1>2, <1>5 DEF CallInv

-----------------------------------------------------------------------------

(***************************************************************************)
(* The steps of a call.                                                    *)
(***************************************************************************)

\* A call that is past its dispatch has the timeout that is configured.
LEMMA CallUnderWay ==
    ASSUME CallInv, call.at \in CallPoints
    PROVE  CallOK(call) /\ call \in CallRecord /\ call.timeout = GetTimeout(call.tool)
  BY DEF CallInv, CallOK, NoCallRecord, CallPoints

\* A step of the call keeps the configuration, its tool and its timeout.
LEMMA CallKeeps ==
    ASSUME CallInv, call.at \in CallPoints, UNCHANGED timeouts, CallOK(call'),
           call'.timeout = call.timeout, call'.tool = call.tool
    PROVE  CallInv'
<1>1. call.timeout = GetTimeout(call.tool)
  BY CallUnderWay
<1>2. call'.timeout = GetTimeout(call.tool)'
  BY <1>1 DEF GetTimeout
<1>3. ConfigOK'
  BY DEF CallInv, ConfigOK
<1> QED
  BY <1>2, <1>3 DEF CallInv

\* A tool that is executing, and has not ended, may go on.
Underway(c) ==
    /\ c \in CallRecord /\ WaitOK(c) /\ InputOK(c)
    /\ c.executed /\ c.outcome = "none" /\ c.verdicts = <<>>

\* The end of a tool's future makes its verdict due, unless the call is direct.
LEMMA EndedKeeps ==
    ASSUME NEW c, Underway(c), NEW o \in CallOutcomes \ {"none"},
           c.served <=> o = "Ok",
           o = "Timeout" => c.elapsed >= c.timeout,
           ~c.direct => o # "InvalidInput"
    PROVE  /\ CallOK(Ended(c, o))
           /\ Ended(c, o).timeout = c.timeout /\ Ended(c, o).tool = c.tool
<1> DEFINE e == Ended(c, o)
<1>1. /\ e \in CallRecord /\ e.at = (IF c.direct THEN "done" ELSE "verdict")
      /\ e.outcome = o /\ e.reply = o /\ e.tool = c.tool /\ e.input = c.input
      /\ e.timeout = c.timeout /\ e.elapsed = c.elapsed /\ e.number = c.number
      /\ e.verdicts = <<>> /\ e.executed = c.executed /\ e.served = c.served
      /\ e.direct = c.direct
  BY DEF Underway, CallRecord, Ended, CallPoints, CallReplies
<1> HIDE DEF e
<1>2. c.executed /\ c.direct \in BOOLEAN
  BY DEF Underway, CallRecord
<1>3. WaitOK(e)
  BY <1>1 DEF Underway, WaitOK
<1>4. InputOK(e)
  BY <1>1, <1>2 DEF Underway, InputOK
<1>5. PointOK(e)
  BY <1>1, <1>2 DEF PointOK
<1>6. VerdictOK(e)
  BY <1>1, <1>2 DEF VerdictOK, CallOutcomes
<1> QED
  BY <1>1, <1>3, <1>4, <1>5, <1>6 DEF CallOK, e

\* A call that goes on, at send or at its body, is underway.
LEMMA AwaitKeeps ==
    ASSUME NEW c, Underway(c), c.at \in {"send", "body"}, ~c.served
    PROVE  CallOK(c)
  BY DEF Underway, CallOK, PointOK, VerdictOK

\* At an await, the call is underway and not served.
LEMMA AtAwait ==
    ASSUME CallInv, call.at \in {"send", "body"}
    PROVE  Underway(call) /\ ~call.served /\ call.at \in CallPoints
<1>1. CallOK(call) /\ call.at \in CallPoints
  BY CallUnderWay DEF CallPoints
<1>2. call.executed /\ call.verdicts = <<>> /\ ~call.served
  BY <1>1 DEF CallOK, PointOK, VerdictOK
<1>3. call.outcome = "none"
  BY <1>1 DEF CallOK, PointOK
<1> QED
  BY <1>1, <1>2, <1>3 DEF CallOK, Underway

\* A dispatch of the executor, or of a test, starts a call with the timeout of
\* its tool.
LEMMA DispatchOK ==
    ASSUME CallInv, NEW tool \in ToolNames, NEW input \in Inputs,
           NEW direct \in BOOLEAN, Dispatch(tool, input, direct)
    PROVE  CallInv'
<1> DEFINE p == IF direct THEN "execute" ELSE "log input"
           new == [at |-> p,
                   tool |-> tool, input |-> input, direct |-> direct,
                   timeout |-> GetTimeout(tool), elapsed |-> 0,
                   number |-> 0, served |-> FALSE, executed |-> FALSE,
                   outcome |-> "none", verdicts |-> <<>>, reply |-> "none"]
<1>1. call' = new /\ timeouts' = timeouts
  BY DEF Dispatch
<1>2. GetTimeout(tool) \in Nat
  BY TimeoutTyped DEF CallInv
<1>3. new \in CallRecord
  BY <1>2 DEF CallRecord, CallPoints, CallOutcomes, CallReplies
<1>4. /\ new.elapsed = 0 /\ new.timeout \in Nat /\ new.outcome = "none"
      /\ ~new.executed /\ new.direct = direct /\ new.at = p /\ ~new.served
      /\ new.verdicts = <<>> /\ new.tool = tool /\ new.timeout = GetTimeout(tool)
  BY <1>2
<1> HIDE DEF new
<1>5. WaitOK(new)
  <2>1. new.elapsed = 0 /\ new.timeout \in Nat
    BY <1>4
  <2>2. new.outcome # "Timeout"
    BY <1>4
  <2> QED
    BY <2>1, <2>2 DEF WaitOK
<1>6. InputOK(new) /\ PointOK(new) /\ VerdictOK(new)
  BY <1>4 DEF InputOK, PointOK, VerdictOK
<1>7. call'.timeout = GetTimeout(call.tool)'
  BY <1>1, <1>4 DEF GetTimeout
<1>8. ConfigOK'
  BY <1>1 DEF CallInv, ConfigOK
<1> QED
  BY <1>1, <1>3, <1>5, <1>6, <1>7, <1>8 DEF CallInv, CallOK

\* The executor goes on to its next action.
LEMMA ProceedOK == ASSUME CallInv, Proceed PROVE CallInv'
<1>1. call' = [at |-> "next", timeout |-> 0] /\ timeouts' = timeouts
  BY DEF Proceed
<1>2. call' \in NoCallRecord
  BY <1>1 DEF NoCallRecord
<1>3. ConfigOK'
  BY <1>1 DEF CallInv, ConfigOK
<1> QED
  BY <1>2, <1>3 DEF CallInv

\* A call whose tool was not executed ends without a verdict.
LEMMA UnexecutedReturns ==
    ASSUME CallInv, call.at \in {"log input", "admit"}, timeouts' = timeouts,
           NEW r \in CallReplies, call' = Returns(r)
    PROVE  CallInv'
<1>1. CallOK(call) /\ call \in CallRecord /\ call.at \in CallPoints
  BY CallUnderWay DEF CallPoints
<1>2. /\ call' \in CallRecord /\ call'.at = "done" /\ call'.tool = call.tool
      /\ call'.input = call.input /\ call'.direct = call.direct
      /\ call'.timeout = call.timeout /\ call'.elapsed = call.elapsed
      /\ call'.executed = call.executed /\ call'.outcome = call.outcome
      /\ call'.verdicts = call.verdicts
  BY <1>1 DEF Returns, CallRecord, CallPoints
<1>3. ~call.executed /\ call.verdicts = <<>>
  BY <1>1 DEF CallOK, PointOK, VerdictOK
<1>4. WaitOK(call')
  BY <1>1, <1>2 DEF CallOK, WaitOK
<1>5. InputOK(call') /\ PointOK(call') /\ VerdictOK(call')
  BY <1>1, <1>2, <1>3 DEF CallOK, InputOK, PointOK, VerdictOK
<1> QED
  BY <1>1, <1>2, <1>4, <1>5, CallKeeps DEF CallOK

\* A call whose tool is not yet executed moves on.
LEMMA UnexecutedMoves ==
    ASSUME CallInv, call.at \in {"log input", "admit"}, timeouts' = timeouts,
           NEW p \in {"admit", "execute"}, call' = [call EXCEPT !.at = p],
           p = "execute" => Valid(InputSchema(call.tool), call.input)
    PROVE  CallInv'
<1>1. CallOK(call) /\ call \in CallRecord /\ call.at \in CallPoints
  BY CallUnderWay DEF CallPoints
<1>2. /\ call' \in CallRecord /\ call'.at = p /\ call'.tool = call.tool
      /\ call'.input = call.input /\ call'.direct = call.direct
      /\ call'.timeout = call.timeout /\ call'.elapsed = call.elapsed
      /\ call'.executed = call.executed /\ call'.outcome = call.outcome
      /\ call'.verdicts = call.verdicts /\ call'.served = call.served
  BY <1>1 DEF CallRecord, CallPoints
<1>3. ~call.executed /\ call.verdicts = <<>> /\ ~call.served
  BY <1>1 DEF CallOK, PointOK, VerdictOK
<1>4. WaitOK(call')
  BY <1>1, <1>2 DEF CallOK, WaitOK
<1>5. InputOK(call') /\ PointOK(call') /\ VerdictOK(call')
  BY <1>1, <1>2, <1>3 DEF CallOK, InputOK, PointOK, VerdictOK
<1> QED
  BY <1>1, <1>2, <1>4, <1>5, CallKeeps DEF CallOK

\* Logging, admission and validation.
LEMMA AdmissionOK == ASSUME CallInv, LogInput \/ Admit PROVE CallInv'
<1> USE DEF CallReplies, CallOutcomes
<1>1. CASE LogInput
  BY <1>1, UnexecutedReturns, UnexecutedMoves DEF LogInput, Goes
<1>2. CASE Admit
  BY <1>2, UnexecutedReturns, UnexecutedMoves DEF Admit, Goes
<1> QED
  BY <1>1, <1>2

-----------------------------------------------------------------------------

(***************************************************************************)
(* The execution of a tool.                                                *)
(***************************************************************************)

\* The number of an input that a tool extracts lies in its range, and one that
\* its schema lets pass is not clamped.
LEMMA ExtractedInRange ==
    ASSUME NEW input \in Inputs, NEW tool \in ToolNames
    PROVE  /\ Extracted(tool, input.number) \in 1..Highest(tool)
           /\ /\ TakesNumber(tool) /\ Valid(InputSchema(tool), input)
              /\ input.number.form = "integer"
              => Extracted(tool, input.number) = input.number.value
<1>1. input.number.form = "integer" => input.number.value \in Int
  BY CallAssumption DEF Inputs
<1>2. Default(tool) \in 1..Highest(tool) /\ Highest(tool) \in {10, 30}
  BY DEF Default, Highest
<1>3. Extracted(tool, input.number) \in 1..Highest(tool)
  BY <1>1, <1>2 DEF Extracted, Clamp
<1>4. ASSUME TakesNumber(tool), Valid(InputSchema(tool), input),
             input.number.form = "integer"
      PROVE  Extracted(tool, input.number) = input.number.value
  <2>1. InputSchema(tool) = (IF tool = "web_search" THEN SearchSchema ELSE CodeSchema)
        /\ Highest(tool) = (IF tool = "web_search" THEN 10 ELSE 30)
    BY <1>4 DEF TakesNumber, InputSchema, Highest
  <2>2. InputSchema(tool).number /\ InputSchema(tool).range = 1..Highest(tool)
    <3>1. /\ SearchSchema.number = TRUE /\ SearchSchema.range = 1..10
          /\ CodeSchema.number = TRUE /\ CodeSchema.range = 1..30
      BY DEF SearchSchema, CodeSchema
    <3> QED
      BY <2>1, <3>1
  <2>3. input.number.value \in 1..Highest(tool)
    BY <1>4, <2>2 DEF Valid
  <2> QED
    BY <1>1, <1>2, <1>4, <2>3 DEF Extracted, Clamp
<1> QED
  BY <1>3, <1>4

\* A schema lets no input pass whose text is absent, and no language that has no
\* image.
LEMMA ValidText ==
    ASSUME NEW input \in Inputs, NEW tool \in ToolNames, Valid(InputSchema(tool), input)
    PROVE  input.text # "none" /\ (tool = "code_exec" => input.text = "string")
<1>1. tool = "code_exec" => InputSchema(tool).languages
  BY DEF InputSchema, CodeSchema
<1> QED
  BY <1>1 DEF Valid

\* A call whose tool has started with the number n.
StartedAt(n, b, p) == [Started(n) EXCEPT !.served = b, !.at = p]

\* A tool starts with the number it extracts, and keeps the rest of its call.
LEMMA StartedOK ==
    ASSUME CallInv, NEW tool, Executing(tool), NEW n \in Int,
           TakesNumber(tool) => n = Extracted(tool, call.input.number),
           NEW b \in BOOLEAN, NEW p \in {"execute", "send"}
    PROVE  /\ Underway(StartedAt(n, b, p))
           /\ StartedAt(n, b, p).served <=> b
           /\ StartedAt(n, b, p).at = p
           /\ StartedAt(n, b, p).direct = call.direct
           /\ StartedAt(n, b, p).timeout = call.timeout
           /\ StartedAt(n, b, p).tool = call.tool
<1>1. /\ CallOK(call) /\ call \in CallRecord /\ call.at = "execute" /\ call.tool = tool
      /\ call.at \in CallPoints
  BY CallUnderWay DEF Executing, CallPoints
<1> DEFINE c == StartedAt(n, b, p)
<1>2. /\ c \in CallRecord /\ c.at = p /\ c.tool = call.tool /\ c.input = call.input
      /\ c.direct = call.direct /\ c.timeout = call.timeout /\ c.elapsed = call.elapsed
      /\ c.outcome = call.outcome /\ c.verdicts = call.verdicts /\ c.number = n
      /\ c.served = b /\ c.executed = TRUE
  BY <1>1 DEF Started, StartedAt, CallRecord, CallPoints
<1> HIDE DEF c
<1>3. /\ ~call.executed /\ call.outcome = "none" /\ call.verdicts = <<>>
  BY <1>1 DEF CallOK, PointOK, VerdictOK
<1>4. WaitOK(c)
  BY <1>1, <1>2 DEF CallOK, WaitOK
<1>5. c.executed /\ (c.served <=> b)
  BY <1>2
<1>6. InputOK(c)
  <2>1. ~call.direct => Valid(InputSchema(call.tool), call.input)
    BY <1>1 DEF CallOK, InputOK
  <2>2. TakesNumber(c.tool) => c.number = Extracted(c.tool, c.input.number)
    BY <1>1, <1>2
  <2> QED
    BY <1>2, <1>3, <2>1, <2>2 DEF InputOK
<1> QED
  BY <1>2, <1>3, <1>4, <1>5, <1>6 DEF Underway, c

\* A tool that is started ends with an outcome, or is sent off.
LEMMA StartEnds ==
    ASSUME CallInv, NEW tool, Executing(tool), NEW n \in Int,
           TakesNumber(tool) => n = Extracted(tool, call.input.number),
           NEW o \in {"Ok", "InvalidInput", "ExecutionFailed"},
           ~call.direct => o # "InvalidInput",
           timeouts' = timeouts,
           call' = Ended(IF o = "Ok" THEN [Started(n) EXCEPT !.served = TRUE]
                         ELSE Started(n), o)
    PROVE  CallInv'
<1>1. call.at = "execute" /\ call.at \in CallPoints /\ call \in CallRecord /\ ~call.served
  BY CallUnderWay DEF Executing, CallPoints, CallOK, VerdictOK
<1> DEFINE b == (o = "Ok")
           c == StartedAt(n, b, "execute")
<1>2. /\ Underway(c) /\ (c.served <=> b) /\ c.direct = call.direct
      /\ c.timeout = call.timeout /\ c.tool = call.tool
  BY StartedOK
<1>3. c = IF o = "Ok" THEN [Started(n) EXCEPT !.served = TRUE] ELSE Started(n)
  BY <1>1 DEF Started, StartedAt, CallRecord
<1> HIDE DEF c
<1>4. /\ CallOK(Ended(c, o)) /\ Ended(c, o).timeout = c.timeout
      /\ Ended(c, o).tool = c.tool
  BY <1>2, EndedKeeps DEF CallOutcomes
<1>5. call' = Ended(c, o)
  BY <1>3
<1> QED
  BY <1>1, <1>2, <1>4, <1>5, CallKeeps

\* A tool that is sent off is underway.
LEMMA StartSends ==
    ASSUME CallInv, NEW tool, Executing(tool), NEW n \in Int,
           TakesNumber(tool) => n = Extracted(tool, call.input.number),
           timeouts' = timeouts, call' = [Started(n) EXCEPT !.at = "send"]
    PROVE  CallInv'
<1>1. call.at = "execute" /\ call.at \in CallPoints /\ call \in CallRecord /\ ~call.served
  BY CallUnderWay DEF Executing, CallPoints, CallOK, VerdictOK
<1> DEFINE c == StartedAt(n, FALSE, "send")
<1>2. /\ Underway(c) /\ ~c.served /\ c.at = "send"
      /\ c.timeout = call.timeout /\ c.tool = call.tool
  BY StartedOK
<1>3. c = [Started(n) EXCEPT !.at = "send"]
  BY <1>1 DEF Started, StartedAt, CallRecord
<1> HIDE DEF c
<1>4. CallOK(c)
  BY <1>2, AwaitKeeps
<1> QED
  BY <1>1, <1>2, <1>3, <1>4, CallKeeps

\* What a tool may rely on when it starts: a call through the registry has a
\* text, and the tool's number is an integer.
LEMMA AtExecute ==
    ASSUME CallInv, NEW tool \in ToolNames, Executing(tool)
    PROVE  /\ ~call.direct => call.input.text # "none"
           /\ Extracted(tool, call.input.number) \in Int
<1>1. CallOK(call) /\ call.at = "execute" /\ call.input \in Inputs /\ call.tool = tool
  BY CallUnderWay DEF Executing, CallPoints, CallRecord
<1>2. ~call.direct => Valid(InputSchema(tool), call.input)
  BY <1>1 DEF CallOK, InputOK
<1>3. Extracted(tool, call.input.number) \in 1..Highest(tool) /\ Highest(tool) \in Int
  BY <1>1, ExtractedInRange DEF Highest
<1> QED
  BY <1>1, <1>2, <1>3, ValidText

\* A tool that refuses the input for its text is not called through the registry.
LEMMA RefusesOK ==
    ASSUME CallInv, NEW tool \in ToolNames, Executing(tool), NEW n \in Int,
           TakesNumber(tool) => n = Extracted(tool, call.input.number),
           Refuses(Started(n))
    PROVE  CallInv'
<1>1. call.input.text = "none" /\ timeouts' = timeouts
      /\ call' = Ended(Started(n), "InvalidInput")
  BY DEF Refuses, Goes
<1>2. call.direct
  BY <1>1, AtExecute, CallUnderWay DEF Executing, CallPoints, CallRecord
<1> QED
  BY <1>1, <1>2, StartEnds

\* The four tools start.
LEMMA StartOK ==
    ASSUME CallInv, StartEcho \/ StartFetch \/ StartSearch \/ StartCode
    PROVE  CallInv'
<1>1. CASE StartEcho
  <2>1. Executing("mock_echo") /\ "mock_echo" \in ToolNames /\ ~TakesNumber("mock_echo")
    BY <1>1 DEF StartEcho, ToolNames, TakesNumber
  <2>2. CASE Refuses(Started(0))
    BY <2>1, <2>2, RefusesOK
  <2>3. CASE Goes("execute", Ended([Started(0) EXCEPT !.served = TRUE], "Ok"))
    BY <2>1, <2>3, StartEnds DEF Goes
  <2> QED
    BY <1>1, <2>2, <2>3 DEF StartEcho
<1>2. CASE StartFetch
  <2>1. Executing("url_fetch") /\ "url_fetch" \in ToolNames /\ ~TakesNumber("url_fetch")
    BY <1>2 DEF StartFetch, ToolNames, TakesNumber
  <2>2. CASE Refuses(Started(0))
    BY <2>1, <2>2, RefusesOK
  <2>3. CASE Goes("execute", [Started(0) EXCEPT !.at = "send"])
    BY <2>1, <2>3, StartSends DEF Goes
  <2> QED
    BY <1>2, <2>2, <2>3 DEF StartFetch
<1>3. CASE StartSearch
  <2> DEFINE n == Extracted("web_search", call.input.number)
  <2>1. Executing("web_search") /\ "web_search" \in ToolNames /\ n \in Int
    BY <1>3, AtExecute DEF StartSearch, ToolNames
  <2>2. CASE Refuses(Started(n))
    BY <2>1, <2>2, RefusesOK
  <2>3. CASE Goes("execute", Ended(Started(n), "ExecutionFailed"))
    BY <2>1, <2>3, StartEnds DEF Goes
  <2>4. CASE Goes("execute", [Started(n) EXCEPT !.at = "send"])
    BY <2>1, <2>4, StartSends DEF Goes
  <2> QED
    BY <1>3, <2>2, <2>3, <2>4 DEF StartSearch
<1>4. CASE StartCode
  <2> DEFINE n == Extracted("code_exec", call.input.number)
  <2>1. Executing("code_exec") /\ "code_exec" \in ToolNames /\ n \in Int
    BY <1>4, AtExecute DEF StartCode, ToolNames
  <2>2. CASE Refuses(Started(n))
    BY <2>1, <2>2, RefusesOK
  <2>3. CASE Goes("execute", Ended(Started(n), "ExecutionFailed"))
    BY <2>1, <2>3, StartEnds DEF Goes
  <2>4. CASE Goes("execute", [Started(n) EXCEPT !.at = "send"])
    BY <2>1, <2>4, StartSends DEF Goes
  <2> QED
    BY <1>4, <2>2, <2>3, <2>4 DEF StartCode
<1> QED
  BY <1>1, <1>2, <1>3, <1>4

\* At an await the tool's future may end, with or without an answer.
LEMMA AwaitEnds ==
    ASSUME CallInv, call.at \in {"send", "body"}, timeouts' = timeouts,
           NEW o \in {"Ok", "ExecutionFailed", "Timeout"},
           o = "Timeout" => call.elapsed >= call.timeout,
           call' = Ended(IF o = "Ok" THEN [call EXCEPT !.served = TRUE] ELSE call, o)
    PROVE  CallInv'
<1> DEFINE c == IF o = "Ok" THEN [call EXCEPT !.served = TRUE] ELSE call
<1>1. Underway(call) /\ ~call.served /\ call.at \in CallPoints /\ call \in CallRecord
  BY AtAwait DEF Underway
<1>2. /\ c \in CallRecord /\ c.at = call.at /\ c.tool = call.tool /\ c.input = call.input
      /\ c.direct = call.direct /\ c.timeout = call.timeout /\ c.elapsed = call.elapsed
      /\ c.outcome = call.outcome /\ c.verdicts = call.verdicts
      /\ c.number = call.number /\ c.executed = call.executed
  BY <1>1 DEF CallRecord
<1>3. c.served <=> o = "Ok"
  BY <1>1 DEF CallRecord
<1> HIDE DEF c
<1>4. WaitOK(c)
  BY <1>1, <1>2 DEF Underway, WaitOK
<1>5. InputOK(c)
  BY <1>1, <1>2 DEF Underway, InputOK
<1>6. Underway(c)
  BY <1>1, <1>2, <1>4, <1>5 DEF Underway
<1>7. o = "Timeout" => c.elapsed >= c.timeout
  BY <1>2
<1>8. /\ CallOK(Ended(c, o)) /\ Ended(c, o).timeout = c.timeout
      /\ Ended(c, o).tool = c.tool
  BY <1>3, <1>6, <1>7, EndedKeeps DEF CallOutcomes
<1>9. call' = Ended(c, o)
  BY DEF c
<1> QED
  BY <1>1, <1>2, <1>8, <1>9, CallKeeps

\* At an await the call goes from the head to the body, or waits on.
LEMMA AwaitGoesOn ==
    ASSUME CallInv, call.at \in {"send", "body"}, timeouts' = timeouts,
           \/ call' = [call EXCEPT !.at = "body"]
           \/ /\ call.elapsed <= call.timeout
              /\ call' = [call EXCEPT !.elapsed = call.elapsed + 1]
    PROVE  CallInv'
<1>1. Underway(call) /\ ~call.served /\ call.at \in CallPoints /\ call \in CallRecord
  BY AtAwait DEF Underway
<1> DEFINE Moved ==
        /\ call' \in CallRecord /\ call'.at \in {"send", "body"} /\ call'.tool = call.tool
        /\ call'.input = call.input /\ call'.direct = call.direct
        /\ call'.timeout = call.timeout /\ call'.outcome = call.outcome
        /\ call'.verdicts = call.verdicts /\ call'.number = call.number
        /\ call'.executed = call.executed /\ call'.served = call.served
        /\ \/ call'.elapsed = call.elapsed
           \/ call.elapsed <= call.timeout /\ call'.elapsed = call.elapsed + 1
<1>2. Moved
  <2>1. CASE call' = [call EXCEPT !.at = "body"]
    BY <1>1, <2>1 DEF CallRecord, CallPoints
  <2>2. CASE /\ call.elapsed <= call.timeout
             /\ call' = [call EXCEPT !.elapsed = call.elapsed + 1]
    BY <1>1, <2>2 DEF CallRecord
  <2> QED
    BY <2>1, <2>2
<1>3. call.elapsed \in Nat /\ call.timeout \in Nat /\ call.outcome = "none"
  BY <1>1 DEF CallRecord, Underway
<1>4. call'.elapsed <= call.timeout + 1
  BY <1>1, <1>2, <1>3 DEF Underway, WaitOK
<1>5. call'.outcome # "Timeout"
  BY <1>2, <1>3
<1>6. WaitOK(call')
  BY <1>2, <1>4, <1>5 DEF WaitOK
<1>7. InputOK(call')
  BY <1>1, <1>2 DEF Underway, InputOK
<1>8. Underway(call')
  BY <1>1, <1>2, <1>6, <1>7 DEF Underway
<1>9. CallOK(call')
  BY <1>1, <1>2, <1>8, AwaitKeeps
<1> QED
  BY <1>1, <1>2, <1>9, CallKeeps

\* A dropped call gives no verdict.
LEMMA AbandonOK == ASSUME CallInv, Abandon PROVE CallInv'
<1>1. Underway(call) /\ ~call.served /\ call.at \in CallPoints /\ call \in CallRecord
  BY AtAwait DEF Underway, Abandon
<1>2. call' = [call EXCEPT !.at = "done", !.reply = "dropped"] /\ timeouts' = timeouts
  BY DEF Abandon, Goes
<1>3. /\ call' \in CallRecord /\ call'.at = "done" /\ call'.tool = call.tool
      /\ call'.input = call.input /\ call'.direct = call.direct
      /\ call'.timeout = call.timeout /\ call'.elapsed = call.elapsed
      /\ call'.outcome = call.outcome /\ call'.verdicts = call.verdicts
      /\ call'.number = call.number /\ call'.executed = call.executed
      /\ call'.served = call.served /\ call'.reply = "dropped"
  BY <1>1, <1>2 DEF CallRecord, CallPoints, CallReplies
<1>4. WaitOK(call')
  BY <1>1, <1>3 DEF Underway, WaitOK
<1>5. InputOK(call') /\ PointOK(call') /\ VerdictOK(call')
  BY <1>1, <1>3 DEF Underway, InputOK, PointOK, VerdictOK
<1> QED
  BY <1>1, <1>2, <1>3, <1>4, <1>5, CallKeeps DEF CallOK

\* The awaits of the tools.
LEMMA AwaitOK ==
    ASSUME CallInv,
           \/ FetchHead \/ SearchHead \/ FetchBody \/ SearchBody
           \/ ConnectionBreaks \/ ContainerEnds \/ Elapse \/ TimeoutFires \/ Abandon
    PROVE  CallInv'
<1>1. CASE FetchHead
  BY <1>1, AwaitEnds, AwaitGoesOn DEF FetchHead, Goes
<1>2. CASE SearchHead
  BY <1>2, AwaitEnds, AwaitGoesOn DEF SearchHead, Goes
<1>3. CASE FetchBody
  BY <1>3, AwaitEnds DEF FetchBody, Goes
<1>4. CASE SearchBody
  BY <1>4, AwaitEnds DEF SearchBody, Goes
<1>5. CASE ConnectionBreaks
  BY <1>5, AwaitEnds DEF ConnectionBreaks, Goes
<1>6. CASE ContainerEnds
  BY <1>6, AwaitEnds DEF ContainerEnds, Goes
<1>7. CASE Elapse
  BY <1>7, AwaitGoesOn DEF Elapse, Goes
<1>8. CASE TimeoutFires
  BY <1>8, AwaitEnds DEF TimeoutFires, Goes
<1>9. CASE Abandon
  BY <1>9, AbandonOK
<1> QED
  BY <1>1, <1>2, <1>3, <1>4, <1>5, <1>6, <1>7, <1>8, <1>9

-----------------------------------------------------------------------------

(***************************************************************************)
(* The verdict and the observation.                                        *)
(***************************************************************************)

\* The breaker is told of the outcome, once.
LEMMA RecordOK == ASSUME CallInv, Record PROVE CallInv'
<1>1. CallOK(call) /\ call.at = "verdict" /\ call \in CallRecord /\ call.at \in CallPoints
  BY CallUnderWay DEF Record, Goes, CallPoints
<1>2. /\ call.executed /\ ~call.direct /\ call.reply # "dropped"
      /\ call.verdicts = <<>>
  BY <1>1 DEF CallOK, PointOK, VerdictOK
<1>3. call.served = (call.outcome = "Ok")
  <2>1. call.served <=> call.outcome = "Ok"
    BY <1>1 DEF CallOK, VerdictOK
  <2>2. call.served \in BOOLEAN
    BY <1>1 DEF CallRecord
  <2> QED
    BY <2>1, <2>2
<1> DEFINE v == Append(call.verdicts, call.outcome = "Ok")
<1>4. v = <<call.served>>
  BY <1>2, <1>3
<1>5. v \in Seq(BOOLEAN)
  BY <1>1, <1>4 DEF CallRecord
<1> HIDE DEF v
<1>6. timeouts' = timeouts
      /\ \/ call' = [call EXCEPT !.verdicts = v, !.at = "done"]
         \/ call' = [call EXCEPT !.verdicts = v, !.at = "done", !.reply = "panic"]
         \/ call' = [call EXCEPT !.verdicts = v, !.at = "observe"] /\ call.outcome = "Ok"
  BY <1>1 DEF Record, Goes, Recorded, CallRecord, v
<1> DEFINE Moved ==
        /\ call' \in CallRecord /\ call'.at \in {"observe", "done"} /\ call'.tool = call.tool
        /\ call'.input = call.input /\ call'.direct = call.direct
        /\ call'.timeout = call.timeout /\ call'.elapsed = call.elapsed
        /\ call'.outcome = call.outcome /\ call'.verdicts = v
        /\ call'.number = call.number /\ call'.executed = call.executed
        /\ call'.served = call.served /\ call'.reply # "dropped"
<1>7. Moved
  <2>1. CASE call' = [call EXCEPT !.verdicts = v, !.at = "done"]
    BY <1>1, <1>2, <1>5, <2>1 DEF CallRecord, CallPoints
  <2>2. CASE call' = [call EXCEPT !.verdicts = v, !.at = "done", !.reply = "panic"]
    BY <1>1, <1>5, <2>2 DEF CallRecord, CallPoints, CallReplies
  <2>3. CASE call' = [call EXCEPT !.verdicts = v, !.at = "observe"]
    BY <1>1, <1>2, <1>5, <2>3 DEF CallRecord, CallPoints
  <2> QED
    BY <1>6, <2>1, <2>2, <2>3
<1>8. WaitOK(call')
  BY <1>1, <1>7 DEF CallOK, WaitOK
<1>9. InputOK(call') /\ PointOK(call')
  BY <1>1, <1>2, <1>7 DEF CallOK, InputOK, PointOK
<1>10. VerdictOK(call')
  BY <1>2, <1>3, <1>4, <1>7 DEF VerdictOK
<1> QED
  BY <1>1, <1>6, <1>7, <1>8, <1>9, <1>10, CallKeeps DEF CallOK

\* The observation of an output changes no verdict.
LEMMA ObserveOK == ASSUME CallInv, Observe PROVE CallInv'
<1>1. CallOK(call) /\ call.at = "observe" /\ call \in CallRecord /\ call.at \in CallPoints
  BY CallUnderWay DEF Observe, Goes, CallPoints
<1>2. /\ call.executed /\ ~call.direct /\ call.reply # "dropped"
      /\ call.verdicts = <<call.served>>
  BY <1>1 DEF CallOK, PointOK, VerdictOK
<1>3. PICK r \in {"panic", call.reply} : call' = Returns(r) /\ timeouts' = timeouts
  BY DEF Observe, Goes
<1>4. /\ call' \in CallRecord /\ call'.at = "done" /\ call'.tool = call.tool
      /\ call'.input = call.input /\ call'.direct = call.direct
      /\ call'.timeout = call.timeout /\ call'.elapsed = call.elapsed
      /\ call'.outcome = call.outcome /\ call'.verdicts = call.verdicts
      /\ call'.number = call.number /\ call'.executed = call.executed
      /\ call'.served = call.served /\ call'.reply = r
  BY <1>1, <1>3 DEF Returns, CallRecord, CallPoints, CallReplies
<1>5. WaitOK(call')
  BY <1>1, <1>4 DEF CallOK, WaitOK
<1>6. InputOK(call') /\ PointOK(call')
  BY <1>1, <1>2, <1>4 DEF CallOK, InputOK, PointOK
<1>7. VerdictOK(call')
  BY <1>2, <1>3, <1>4 DEF VerdictOK
<1> QED
  BY <1>1, <1>3, <1>4, <1>5, <1>6, <1>7, CallKeeps DEF CallOK

\* Every step of a call keeps the invariant.
LEMMA CallStep == CallInv /\ [CallNext]_callVars => CallInv'
<1> SUFFICES ASSUME CallInv, [CallNext]_callVars PROVE CallInv'
  OBVIOUS
<1>1. CASE UNCHANGED callVars
  BY <1>1 DEF callVars, CallInv, ConfigOK, GetTimeout
<1> QED
  BY <1>1, SetTimeoutKeeps, DispatchOK, ProceedOK, AdmissionOK, StartOK, AwaitOK,
     RecordOK, ObserveOK DEF CallNext

-----------------------------------------------------------------------------

(***************************************************************************)
(* What holds of every call.                                               *)
(***************************************************************************)

\* The invariant holds of every call, through the registry or direct.
THEOREM CallInvariant == CallSpec => []CallInv
  BY CallInitEstablishes, CallStep, PTL DEF CallSpec

\* A call is at one of its points, with one of its outcomes.
THEOREM CallTypesHold == CallSpec => []CallTypeOK
<1>1. CallInv => CallTypeOK
  <2> SUFFICES ASSUME CallInv PROVE CallTypeOK
    OBVIOUS
  <2>1. ConfigOK
    BY DEF CallInv
  <2>2. ASSUME call.at \notin {"none", "next"}
        PROVE  /\ call.at \in CallPoints /\ call.outcome \in CallOutcomes
               /\ call.verdicts \in Seq(BOOLEAN)
    BY <2>2 DEF CallInv, CallOK, NoCallRecord, CallRecord
  <2> QED
    BY <2>1, <2>2 DEF CallTypeOK, ConfigOK, CallPoints, CallOutcomes
<1> QED
  BY <1>1, CallInvariant, PTL

\* A call gives the breaker of its tool one verdict if the tool ran to an end,
\* and it gives it even if its log line or its observation panics.
THEOREM VerdictPerExecutionHolds == CallSpec => []VerdictPerExecution
<1>1. CallInv => VerdictPerExecution
  <2> SUFFICES ASSUME CallInv, call.at = "done"
               PROVE  call.verdicts = IF call.direct \/ ~call.executed \/ call.reply = "dropped"
                                      THEN <<>> ELSE <<call.served>>
    BY DEF VerdictPerExecution
  <2>1. VerdictOK(call)
    BY CallUnderWay DEF CallPoints, CallOK
  <2> QED
    BY <2>1 DEF VerdictOK
<1> QED
  BY <1>1, CallInvariant, PTL

\* What the schema of a tool lets pass its execute can do, and with the number
\* that was asked for.
THEOREM ValidInputsAreHonouredHolds == CallSpec => []ValidInputsAreHonoured
<1>1. CallInv => ValidInputsAreHonoured
  <2> SUFFICES ASSUME CallInv, call.at \notin {"none", "next"}, call.executed
               PROVE  /\ TakesNumber(call.tool) => call.number \in 1..Highest(call.tool)
                      /\ ~call.direct =>
                            /\ call.outcome # "InvalidInput"
                            /\ call.tool = "code_exec" => call.input.text = "string"
                            /\ TakesNumber(call.tool) /\ call.input.number.form = "integer"
                                  => call.number = call.input.number.value
    BY DEF ValidInputsAreHonoured
  <2>1. CallOK(call) /\ call.input \in Inputs /\ call.tool \in ToolNames
    BY DEF CallInv, CallOK, NoCallRecord, CallRecord
  <2>2. /\ ~call.direct => /\ Valid(InputSchema(call.tool), call.input)
                           /\ call.outcome # "InvalidInput"
        /\ TakesNumber(call.tool) => call.number = Extracted(call.tool, call.input.number)
    BY <2>1 DEF CallOK, InputOK
  <2> QED
    BY <2>1, <2>2, ExtractedInRange, ValidText
<1> QED
  BY <1>1, CallInvariant, PTL

-----------------------------------------------------------------------------

\* The three modules of the tools side by side: each takes its own steps or none.
LEMMA SideBySide == MCSpec => RegistrySpec /\ CodeExecSpec /\ CallSpec
<1>1. MCInit => RegistryInit /\ CodeExecInit /\ CallInit
  BY DEF MCInit
<1>2. [MCNext]_<<registryVars, codeVars, callVars, focus>>
         => /\ [RegistryNext]_registryVars
            /\ [CodeExecNext]_codeVars
            /\ [CallNext]_callVars
  BY DEF MCNext
<1> QED
  BY <1>1, <1>2, PTL DEF MCSpec, RegistrySpec, CodeExecSpec, CallSpec

\* All of them have their types in every run of the three, as MCTools.cfg checks.
THEOREM TypesHold == MCSpec => []TypeOK
  BY SideBySide, RegistryTypesHold, CodeExecTypesHold, CallTypesHold, PTL DEF TypeOK

=============================================================================
