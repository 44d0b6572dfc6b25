---------------------------- MODULE PlanExecutor ----------------------------
(***************************************************************************)
(* One run of PlanExecutor::execute in                                     *)
(* runtime/src/planning/executor.rs: the ReAct loop with replanning, loop  *)
(* detection, the short-term memory budget, the task deadline and the row  *)
(* in the episodic log.                                                    *)
(*                                                                         *)
(* The task is a future that is suspended at its awaits.  Each action is   *)
(* the answer to one await together with all the code up to the next one.  *)
(* select! may drop the future at any await when the task deadline fires.  *)
(***************************************************************************)
EXTENDS Naturals, Sequences, FiniteSets

CONSTANTS
    Calls,                  \* tool calls the LLM can ask for
    NoCall,                 \* stands for no call
    WindowSize,             \* LoopDetectorConfig.window_size
    RepeatThreshold,        \* LoopDetectorConfig.repeat_threshold
    MaxTokens,              \* PlanConfig.stm_token_budget
    Lengths,                \* lengths of the texts that are pushed, in bytes
    MaxIterations,          \* PlanConfig.max_iterations
    MaxReplansPerStep,      \* ReplanConfig.max_replans_per_step
    MaxReplansPerTask,      \* ReplanConfig.max_replans_per_task
    HasLog                  \* an EpisodicLog is attached

ASSUME LengthsAssumption == Lengths \subseteq Nat /\ Lengths # {}
ASSUME LimitsAssumption ==
    /\ MaxIterations \in Nat
    /\ MaxReplansPerStep \in Nat
    /\ MaxReplansPerTask \in Nat
ASSUME NoCallAssumption == NoCall \notin Calls

\* What ShortTermMemory and LoopDetector assume of their parameters.
ASSUME MemoryAssumption ==
    /\ MaxTokens \in Nat \ {0}
    /\ WindowSize \in Nat
    /\ RepeatThreshold \in Nat

ASSUME LogAssumption == HasLog \in BOOLEAN

Kinds == {"goal", "thought", "observation", "error", "summary"}

\* estimate_tokens: a token is four bytes, and no text has no tokens.
EstimateTokens(length) == IF length < 4 THEN 1 ELSE length \div 4

\* The token counts of messages.  /summarize counts its summary itself, and
\* never returns an empty one.
Sizes == {EstimateTokens(n) : n \in Lengths}

Messages == [kind : Kinds, tokens : Sizes]

\* What a TaskResult and the row report of one dispatched call.
TaskSteps == [call : Calls, ok : BOOLEAN]

SuccessStep(call) == [call |-> call, ok |-> TRUE]

FailureStep(call) == [call |-> call, ok |-> FALSE]

VARIABLES
    pc,                 \* the await the task is suspended at
    iteration,          \* the loop variable of execute_inner
    stm,                \* the short-term memory
    steps,              \* Vec<TaskStep>: the call and whether it succeeded
    step_replans,       \* of execute_tool_with_replan
    total_replans,
    window,             \* of the loop detector
    current,            \* the call being dispatched, NoCall otherwise
    pending,            \* the result to return once the row is written
    insert,             \* the INSERT of the row, in the database
    result              \* what execute returned, "none" while it runs

stepVars == <<steps, step_replans, total_replans>>
loopVars == <<iteration, stm, stepVars, window, current>>
logVars == <<pending, insert>>
vars == <<pc, loopVars, logVars, result>>

Memory == INSTANCE ShortTermMemory
Detector == INSTANCE LoopDetector

\* Awaits of the loop, and of the whole task.
LoopPoints == {"summarizing", "reasoning", "dispatching", "replanning"}
Awaiting == LoopPoints \cup {"recording"}

-----------------------------------------------------------------------------

(***************************************************************************)
(* Ends of the task, and the code shared by several handlers.              *)
(***************************************************************************)

\* execute returns.
Return(r) ==
    /\ pc' = "done"
    /\ result' = r
    /\ UNCHANGED logVars

\* Mutant: the row is sent and not awaited.
ReturnRecording(outcome, r) ==
    /\ pc' = "done"
    /\ result' = r
    /\ pending' = r
    /\ insert' = [status |-> "sent", outcome |-> outcome]

\* record_episode, then return.  Without a log there is nothing to await.
RecordAndReturn(outcome, r) ==
    IF HasLog
    THEN /\ pc' = "recording"
         /\ pending' = r
         /\ insert' = [status |-> "sent", outcome |-> outcome]
         /\ UNCHANGED result
    ELSE Return(r)

GoOn(p) ==
    /\ pc' = p
    /\ UNCHANGED <<logVars, result>>

\* Mutant: the loop runs once more.
LoopHeadOnceMore(i, memory) ==
    /\ iteration' = i
    /\ IF i > MaxIterations
       THEN RecordAndReturn("failure", "MaxIterationsReached")
       ELSE GoOn(IF Memory!NeedsSummarization(memory)
                 THEN "summarizing" ELSE "reasoning")

\* The head of the loop: for iteration in 0..max_iterations.
LoopHead(i, memory) ==
    /\ iteration' = i
    /\ IF i >= MaxIterations
       THEN RecordAndReturn("failure", "MaxIterationsReached")
       ELSE GoOn(IF Memory!NeedsSummarization(memory)
                 THEN "summarizing" ELSE "reasoning")

\* The head of the loop in execute_tool_with_replan: the detector is asked
\* first, and the call is recorded before it is dispatched.
DispatchHead(call) ==
    IF Detector!IsLooping(window)
    THEN Return("Loop") /\ UNCHANGED <<window, current>>
    ELSE /\ Detector!Record(call)
         /\ current' = call
         /\ GoOn("dispatching")

\* An empty thought is not pushed.
PushedThought(memory, tokens) ==
    IF tokens = 0 THEN memory
    ELSE Memory!Pushed(memory, [kind |-> "thought", tokens |-> tokens])

ThoughtSizes == Sizes \cup {0}

\* build_reason_request sends the whole memory, in its order.
Requested(memory) == memory.messages

-----------------------------------------------------------------------------

Init ==
    /\ pc = "new"
    /\ iteration = 0
    /\ stm = Memory!Empty
    /\ steps = <<>>
    /\ step_replans = 0
    /\ total_replans = 0
    /\ window = <<>>
    /\ current = NoCall
    /\ pending = "none"
    /\ insert = [status |-> "none", outcome |-> "none"]
    /\ result = "none"

\* The goal is the first message.  query_memory_context returns at once.
Start(tokens) ==
    /\ pc = "new"
    /\ stm' = Memory!Pushed(stm, [kind |-> "goal", tokens |-> tokens])
    /\ LoopHead(0, stm')
    /\ UNCHANGED <<stepVars, window, current>>

\* /summarize answered.
Summarize(tokens) ==
    /\ pc = "summarizing"
    /\ stm' = Memory!Summarized([kind |-> "summary", tokens |-> tokens])
    /\ GoOn("reasoning")
    /\ UNCHANGED <<iteration, stepVars, window, current>>

\* A call to the Python server failed, or /reason answered neither is_final
\* nor an action, after its thought was pushed.
IpcFails(thought) ==
    /\ \/ pc = "summarizing" /\ thought = 0
       \/ pc \in {"reasoning", "replanning"}
    /\ stm' = PushedThought(stm, thought)
    /\ Return("Ipc")
    /\ UNCHANGED <<iteration, stepVars, window, current>>

\* /reason answered is_final.
ReasonFinal(thought) ==
    /\ pc = "reasoning"
    /\ stm' = PushedThought(stm, thought)
    /\ RecordAndReturn("success", "Success")
    /\ UNCHANGED <<iteration, stepVars, window, current>>

\* Mutant: the replans of the previous step count for this one.
ReasonActionKeepingReplans(thought, call) ==
    /\ pc = "reasoning"
    /\ stm' = PushedThought(stm, thought)
    /\ DispatchHead(call)
    /\ UNCHANGED <<iteration, stepVars>>

\* /reason answered with an action.
ReasonAction(thought, call) ==
    /\ pc = "reasoning"
    /\ stm' = PushedThought(stm, thought)
    /\ step_replans' = 0
    /\ DispatchHead(call)
    /\ UNCHANGED <<iteration, steps, total_replans>>

\* The registry returned the tool's result.  The panic of format_observation is
\* an outcome of module ToolCall, and of a branch of ParallelTasks.
ToolSucceeds(tokens) ==
    /\ pc = "dispatching"
    /\ steps' = Append(steps, SuccessStep(current))
    /\ stm' = Memory!Pushed(stm, [kind |-> "observation", tokens |-> tokens])
    /\ LoopHead(iteration + 1, stm')
    /\ current' = NoCall
    /\ UNCHANGED <<step_replans, total_replans, window>>

\* Mutant: the limits may be reached.
ToolFailsPastLimits(tokens) ==
    /\ pc = "dispatching"
    /\ steps' = Append(steps, FailureStep(current))
    /\ step_replans' = step_replans + 1
    /\ total_replans' = total_replans + 1
    /\ IF step_replans' > MaxReplansPerStep
       THEN Return("MaxReplansPerStep") /\ UNCHANGED stm
       ELSE IF total_replans' > MaxReplansPerTask
       THEN Return("MaxReplansPerTask") /\ UNCHANGED stm
       ELSE /\ stm' = Memory!Pushed(stm, [kind |-> "error", tokens |-> tokens])
            /\ GoOn("replanning")
    /\ current' = NoCall
    /\ UNCHANGED <<iteration, window>>

\* Mutant: the error is not shown to the LLM.
ToolFailsSilently(tokens) ==
    /\ pc = "dispatching"
    /\ steps' = Append(steps, FailureStep(current))
    /\ step_replans' = step_replans + 1
    /\ total_replans' = total_replans + 1
    /\ IF step_replans' >= MaxReplansPerStep THEN Return("MaxReplansPerStep")
       ELSE IF total_replans' >= MaxReplansPerTask
       THEN Return("MaxReplansPerTask")
       ELSE GoOn("replanning")
    /\ current' = NoCall
    /\ UNCHANGED <<iteration, window, stm>>

\* The registry returned an error of any kind.  The limits are checked before
\* the error reaches the LLM.
ToolFails(tokens) ==
    /\ pc = "dispatching"
    /\ steps' = Append(steps, FailureStep(current))
    /\ step_replans' = step_replans + 1
    /\ total_replans' = total_replans + 1
    /\ IF step_replans' >= MaxReplansPerStep
       THEN Return("MaxReplansPerStep") /\ UNCHANGED stm
       ELSE IF total_replans' >= MaxReplansPerTask
       THEN Return("MaxReplansPerTask") /\ UNCHANGED stm
       ELSE /\ stm' = Memory!Pushed(stm, [kind |-> "error", tokens |-> tokens])
            /\ GoOn("replanning")
    /\ current' = NoCall
    /\ UNCHANGED <<iteration, window>>

\* Mutant: a task that ends in a replan is recorded as failed.
ReplanFinalFailed(thought) ==
    /\ pc = "replanning"
    /\ stm' = PushedThought(PushedThought(stm, thought), thought)
    /\ RecordAndReturn("failure", "Success")
    /\ UNCHANGED <<iteration, stepVars, window, current>>

\* /reason answered the replan with is_final.  Its thought is pushed here and
\* again by execute_inner.
ReplanFinal(thought) ==
    /\ pc = "replanning"
    /\ stm' = PushedThought(PushedThought(stm, thought), thought)
    /\ RecordAndReturn("success", "Success")
    /\ UNCHANGED <<iteration, stepVars, window, current>>

\* Mutant: the loop detector does not see the calls of a replan.
ReplanActionUnrecorded(thought, call) ==
    /\ pc = "replanning"
    /\ stm' = PushedThought(stm, thought)
    /\ current' = call
    /\ GoOn("dispatching")
    /\ UNCHANGED <<iteration, stepVars, window>>

\* /reason answered the replan with another action.
ReplanAction(thought, call) ==
    /\ pc = "replanning"
    /\ stm' = PushedThought(stm, thought)
    /\ DispatchHead(call)
    /\ UNCHANGED <<iteration, stepVars>>

-----------------------------------------------------------------------------

(***************************************************************************)
(* The row.  The statement runs in the database: it may commit before or   *)
(* after the task that sent it is gone.                                    *)
(***************************************************************************)

InsertEnds(status) ==
    /\ insert.status = "sent"
    /\ insert' = [insert EXCEPT !.status = status]
    /\ UNCHANGED <<pc, loopVars, pending, result>>

\* Mutant: a failed insert is awaited forever.
InsertAnsweredCommitted ==
    /\ pc = "recording"
    /\ insert.status = "committed"
    /\ Return(pending)
    /\ UNCHANGED loopVars

\* The answer to insert arrives.  An error is logged and otherwise ignored.
InsertAnswered ==
    /\ pc = "recording"
    /\ insert.status \in {"committed", "failed"}
    /\ Return(pending)
    /\ UNCHANGED loopVars

\* The task deadline wins the select!, which drops the future at its await.
Deadline ==
    /\ pc \in Awaiting
    /\ Return("Timeout")
    /\ UNCHANGED loopVars

-----------------------------------------------------------------------------

Answer ==
    \/ \E n \in Sizes : Summarize(n) \/ ToolSucceeds(n) \/ ToolFails(n)
    \/ \E t \in ThoughtSizes : IpcFails(t) \/ ReasonFinal(t) \/ ReplanFinal(t)
    \/ \E t \in ThoughtSizes, c \in Calls :
          ReasonAction(t, c) \/ ReplanAction(t, c)
    \/ InsertAnswered

InsertStep == \E s \in {"committed", "failed"} : InsertEnds(s)

Next ==
    \/ \E n \in Sizes : Start(n)
    \/ Answer
    \/ InsertStep
    \/ Deadline

Spec == Init /\ [][Next]_vars

\* Every await is answered: the IPC client and the registry put a timeout on
\* their calls, and the database answers.  The deadline need not fire.
FairSpec == Spec /\ WF_vars(Answer) /\ WF_vars(InsertStep)

-----------------------------------------------------------------------------

(***************************************************************************)
(* Properties                                                              *)
(***************************************************************************)

\* Type invariant.
TypeOK ==
    /\ pc \in {"new", "done"} \cup Awaiting
    /\ iteration \in 0..MaxIterations
    /\ stm.messages \in Seq(Messages) /\ stm.token_count \in Nat
    /\ steps \in Seq(TaskSteps)
    /\ step_replans \in Nat
    /\ total_replans \in Nat
    /\ window \in Seq(Calls)
    /\ current \in Calls \cup {NoCall}
    /\ pending \in {"none", "Success", "MaxIterationsReached"}
    /\ insert \in [status : {"none", "sent", "committed", "failed"},
                   outcome : {"none", "success", "failure"}]
    /\ result \in {"none", "Success", "MaxIterationsReached",
                   "MaxReplansPerStep", "MaxReplansPerTask", "Ipc", "Loop",
                   "Timeout"}
    /\ (pc = "done") <=> (result # "none")

Failures(i, j) == {k \in i..j : ~steps[k].ok}

\* total_replans of the TaskResult is the number of failed steps it reports,
\* and step_replans is the number of failures since the last success.
ReplansCountFailures ==
    /\ total_replans = Cardinality(Failures(1, Len(steps)))
    /\ pc \in {"dispatching", "replanning"} =>
          \E i \in 0..Len(steps) :
             /\ i = 0 \/ steps[i].ok
             /\ Failures(i + 1, Len(steps)) = (i + 1)..Len(steps)
             /\ step_replans = Len(steps) - i

\* Every finished iteration has exactly one successful call, so the steps
\* recorded so far are the iterations and the replans.
StepsAreIterationsAndReplans ==
    pc \in LoopPoints =>
        /\ iteration < MaxIterations
        /\ Len(steps) = iteration + total_replans

\* The first failure is noticed whatever the limit.
TaskLimit == IF MaxReplansPerTask = 0 THEN 1 ELSE MaxReplansPerTask

\* The task goes on only below both replan limits.
ReplansBelowLimits ==
    /\ pc = "replanning" => step_replans < MaxReplansPerStep
    /\ pc \in LoopPoints \cup {"recording"} => total_replans < TaskLimit

\* The calls dispatched so far, in order.
Dispatched ==
    [i \in 1..Len(steps) |-> steps[i].call]
        \o (IF pc = "dispatching" THEN <<current>> ELSE <<>>)

\* Whatever the LLM asks for, among any Capacity consecutive dispatches no
\* call occurs more than RepeatThreshold times: repeating one call through
\* successes, failures and replans alike is cut off.
NoFloodOfOneCall ==
    \A first \in 1..Len(Dispatched) :
        LET recent == {i \in 1..Len(Dispatched) :
                          first <= i /\ i < first + Detector!Capacity}
        IN  \A c \in Calls :
              LET n == Cardinality({i \in recent : Dispatched[i] = c})
              IN  n <= 1 \/ n <= RepeatThreshold

LastKind == Requested(stm)[Len(Requested(stm))].kind

\* Every /reason request carries the outcome of the latest tool call as its
\* last message, or a summary made after it, however large the messages were
\* and whatever had to be evicted.
ReasonSeesLastOutcome ==
    /\ pc = "reasoning" =>
          /\ Requested(stm) # <<>>
          /\ LastKind \in {"summary",
                           IF steps = <<>> THEN "goal" ELSE "observation"}
    /\ pc = "replanning" => Requested(stm) # <<>> /\ LastKind = "error"

\* The row follows the task: none is sent before the task has its outcome, the
\* row sent carries the outcome of the result that waits for it, and only a
\* timeout returns while the database still works on it.
RowTracksTask ==
    /\ pc \in {"new"} \cup LoopPoints => insert.status = "none"
    /\ pc = "recording" => insert.status # "none" /\ pending # "none"
    /\ pending = "Success" => insert.outcome = "success"
    /\ pending = "MaxIterationsReached" => insert.outcome = "failure"
    /\ pc = "done" =>
          \/ insert.status = "none"
          \/ result = "Timeout"
          \/ result = pending /\ insert.status \in {"committed", "failed"}

\* A started task ends even if its deadline never fires: the iteration and
\* replan limits bound the loop.
Termination == pc # "new" ~> pc = "done"

-----------------------------------------------------------------------------

(***************************************************************************)
(* The executor implements the task its caller sees.                       *)
(***************************************************************************)

\* Every iteration but the last ends with a success, and the failures stop at
\* the limit per task, which is noticed after it is reached.
DispatchBudget ==
    IF MaxIterations = 0 THEN 0 ELSE MaxIterations - 1 + TaskLimit

Task == INSTANCE AgentTask
        WITH dispatched <- Len(steps),
             row <- IF insert.status = "committed"
                    THEN insert.outcome ELSE "none"

\* A bounded number of tool calls, one result, at most one row, and a row that
\* agrees with the result unless the deadline hid it.
ImplementsAgentTask == Task!Spec
=============================================================================
