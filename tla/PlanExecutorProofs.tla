------------------------- MODULE PlanExecutorProofs -------------------------
(***************************************************************************)
(* Proofs about module PlanExecutor, for every set of calls, every limit,  *)
(* every token budget and every size of message.                           *)
(*                                                                         *)
(* The first part leaves open what the short-term memory holds: there it   *)
(* only decides between the awaits "summarizing" and "reasoning".  The     *)
(* last parts bring in the facts of AgentMemoryProofs about the memory and *)
(* the loop detector.                                                      *)
(***************************************************************************)
EXTENDS PlanExecutor, FiniteSetTheorems, SequenceTheorems, TLAPS

\* The types of the variables that drive the loop and the row.
ControlTypes ==
    /\ pc \in {"new", "done"} \cup Awaiting
    /\ iteration \in Nat
    /\ steps \in Seq(TaskSteps)
    /\ step_replans \in Nat
    /\ total_replans \in Nat
    /\ current \in Calls \cup {NoCall}
    /\ pc = "dispatching" => current \in Calls
    /\ pending \in {"none", "Success", "MaxIterationsReached"}
    /\ insert \in [status : {"none", "sent", "committed", "failed"},
                   outcome : {"none", "success", "failure"}]
    /\ result \in {"none"} \cup Task!Results
    /\ (pc = "done") <=> (result # "none")

\* The counters of a task that has not started.
FreshCounters == pc = "new" => Len(steps) = 0 /\ total_replans = 0

LoopInv == StepsAreIterationsAndReplans /\ ReplansBelowLimits /\ FreshCounters

ExecutorInv == ControlTypes /\ LoopInv /\ RowTracksTask

-----------------------------------------------------------------------------

\* The three parts of the state that the ends of a handler share.  Every
\* handler ends in one of three ways: it returns, it sends the row, or it goes
\* on to an await of the loop.
Ends ==
    \/ \E r \in Task!Results : Return(r)
    \/ /\ pc' = "recording"
       /\ \/ /\ pending' = "Success"
             /\ insert' = [status |-> "sent", outcome |-> "success"]
          \/ /\ pending' = "MaxIterationsReached"
             /\ insert' = [status |-> "sent", outcome |-> "failure"]
       /\ UNCHANGED result
    \/ \E p \in LoopPoints : GoOn(p)

USE LimitsAssumption, NoCallAssumption DEF stepVars

\* One failure is possible whatever the limit per task.
LEMMA TaskLimitPositive == TaskLimit \in Nat /\ TaskLimit > 0
  BY DEF TaskLimit

\* The invariant holds before the task starts.
LEMMA InitEstablishes == Init => ExecutorInv
  BY TaskLimitPositive
     DEF Init, ExecutorInv, ControlTypes, LoopInv, RowTracksTask,
         StepsAreIterationsAndReplans, ReplansBelowLimits, FreshCounters,
         Awaiting, LoopPoints, Task!Results

\* What holds of the types and of the row after any handler that ends in one
\* of the three ways.
LEMMA EndsPreserve ==
    ASSUME ExecutorInv, Ends, pc \in {"new"} \cup LoopPoints,
           pc' = "dispatching" => current' \in Calls,
           iteration' \in Nat, step_replans' \in Nat, total_replans' \in Nat,
           steps' \in Seq(TaskSteps),
           current' \in Calls \cup {NoCall}
    PROVE  (ControlTypes /\ RowTracksTask)'
<1> USE DEF ExecutorInv, ControlTypes, RowTracksTask, Awaiting, LoopPoints,
            Task!Results
<1>1. ASSUME NEW r \in Task!Results, Return(r)
      PROVE  (ControlTypes /\ RowTracksTask)'
  BY <1>1 DEF Return, logVars
<1>2. ASSUME NEW p \in LoopPoints, GoOn(p)
      PROVE  (ControlTypes /\ RowTracksTask)'
  BY <1>2 DEF GoOn, logVars
<1>3. CASE pc' = "recording"
  BY <1>3 DEF Ends, Return, GoOn
<1>4. QED
  BY <1>1, <1>2, <1>3 DEF Ends

\* The head of the loop returns, sends the row or goes on, and in the last case
\* it goes on with an iteration below the limit.
LEMMA LoopHeadShape ==
    ASSUME NEW i \in Nat, NEW memory, LoopHead(i, memory)
    PROVE  /\ Ends
           /\ iteration' = i
           /\ pc' \in {"done", "recording", "summarizing", "reasoning"}
           /\ pc' \in LoopPoints => i < MaxIterations
<1>1. CASE i >= MaxIterations
  BY <1>1 DEF LoopHead, Ends, RecordAndReturn, Return, LoopPoints, Task!Results
<1>2. CASE ~(i >= MaxIterations)
  BY <1>2 DEF LoopHead, Ends, GoOn, LoopPoints
<1>3. QED
  BY <1>1, <1>2

\* The head of a dispatch returns, or dispatches the call it was given.
LEMMA DispatchHeadShape ==
    ASSUME NEW call \in Calls, DispatchHead(call)
    PROVE  /\ Ends
           /\ pc' \in {"done", "dispatching"}
           /\ pc' = "dispatching" => current' = call
           /\ current' \in {current, call}
  BY DEF DispatchHead, Ends, GoOn, Return, LoopPoints, Task!Results

\* Every step of the system preserves the invariant.
LEMMA StepPreserves == ExecutorInv /\ [Next]_vars => ExecutorInv'
<1> SUFFICES ASSUME ExecutorInv, [Next]_vars
             PROVE  ExecutorInv'
  OBVIOUS
<1>a. DispatchBudget \in Nat /\ TaskLimit \in Nat /\ TaskLimit > 0
  BY TaskLimitPositive DEF DispatchBudget
<1> USE <1>a DEF ExecutorInv, LoopInv, StepsAreIterationsAndReplans,
                 ReplansBelowLimits, FreshCounters
<1>1. ASSUME NEW n \in Sizes, Start(n)
      PROVE  ExecutorInv'
  <2>1. LoopHead(0, stm') /\ pc = "new"
    BY <1>1 DEF Start
  <2>2. /\ Ends
        /\ iteration' = 0
        /\ pc' \in {"done", "recording", "summarizing", "reasoning"}
        /\ pc' \in LoopPoints => 0 < MaxIterations
    BY <2>1, LoopHeadShape
  <2>3. (ControlTypes /\ RowTracksTask)'
    BY <1>1, <2>1, <2>2, EndsPreserve DEF Start, ControlTypes
  <2>4. LoopInv'
    BY <1>1, <2>1, <2>2 DEF Start, ControlTypes, LoopPoints
  <2>5. QED
    BY <2>3, <2>4
<1>2. ASSUME NEW n \in Sizes, Summarize(n)
      PROVE  ExecutorInv'
  <2>1. Ends /\ pc' = "reasoning" /\ pc = "summarizing"
    BY <1>2 DEF Summarize, Ends, GoOn, LoopPoints
  <2>2. (ControlTypes /\ RowTracksTask)'
    BY <1>2, <2>1, EndsPreserve DEF Summarize, ControlTypes, LoopPoints
  <2>3. LoopInv'
    BY <1>2, <2>1 DEF Summarize, ControlTypes, LoopPoints
  <2>4. QED
    BY <2>2, <2>3
<1>3. ASSUME NEW t \in ThoughtSizes, IpcFails(t)
      PROVE  ExecutorInv'
  <2>1. Ends /\ pc' = "done" /\ pc \in LoopPoints
    BY <1>3 DEF IpcFails, Ends, Return, LoopPoints, Task!Results
  <2>2. (ControlTypes /\ RowTracksTask)'
    BY <1>3, <2>1, EndsPreserve DEF IpcFails, ControlTypes
  <2>3. LoopInv'
    BY <1>3, <2>1 DEF IpcFails, ControlTypes, LoopPoints
  <2>4. QED
    BY <2>2, <2>3
<1>4. ASSUME NEW t \in ThoughtSizes, ReasonFinal(t) \/ ReplanFinal(t)
      PROVE  ExecutorInv'
  <2>1. Ends /\ pc' \in {"done", "recording"} /\ pc \in LoopPoints
    BY <1>4 DEF ReasonFinal, ReplanFinal, RecordAndReturn, Ends, Return,
       LoopPoints, Task!Results
  <2>2. (ControlTypes /\ RowTracksTask)'
    BY <1>4, <2>1, EndsPreserve DEF ReasonFinal, ReplanFinal, ControlTypes
  <2>3. LoopInv'
    BY <1>4, <2>1 DEF ReasonFinal, ReplanFinal, ControlTypes, LoopPoints
  <2>4. QED
    BY <2>2, <2>3
<1>5. ASSUME NEW t \in ThoughtSizes, NEW c \in Calls, ReasonAction(t, c)
      PROVE  ExecutorInv'
  <2>1. DispatchHead(c) /\ pc = "reasoning"
    BY <1>5 DEF ReasonAction
  <2>2. /\ Ends
        /\ pc' \in {"done", "dispatching"}
        /\ pc' = "dispatching" => current' = c
        /\ current' \in {current, c}
    BY <2>1, DispatchHeadShape
  <2>3. (ControlTypes /\ RowTracksTask)'
    BY <1>5, <2>1, <2>2, EndsPreserve DEF ReasonAction, ControlTypes, LoopPoints
  <2>4. LoopInv'
    BY <1>5, <2>1, <2>2 DEF ReasonAction, ControlTypes, LoopPoints
  <2>5. QED
    BY <2>3, <2>4
<1>6. ASSUME NEW t \in ThoughtSizes, NEW c \in Calls, ReplanAction(t, c)
      PROVE  ExecutorInv'
  <2>1. DispatchHead(c) /\ pc = "replanning"
    BY <1>6 DEF ReplanAction
  <2>2. /\ Ends
        /\ pc' \in {"done", "dispatching"}
        /\ pc' = "dispatching" => current' = c
        /\ current' \in {current, c}
    BY <2>1, DispatchHeadShape
  <2>3. (ControlTypes /\ RowTracksTask)'
    BY <1>6, <2>1, <2>2, EndsPreserve DEF ReplanAction, ControlTypes, LoopPoints
  <2>4. LoopInv'
    BY <1>6, <2>1, <2>2 DEF ReplanAction, ControlTypes, LoopPoints
  <2>5. QED
    BY <2>3, <2>4
<1>7. ASSUME NEW n \in Sizes, ToolSucceeds(n)
      PROVE  ExecutorInv'
  <2>1. LoopHead(iteration + 1, stm') /\ pc = "dispatching" /\ current \in Calls
    BY <1>7 DEF ToolSucceeds, ControlTypes
  <2>2. /\ Ends
        /\ iteration' = iteration + 1
        /\ pc' \in {"done", "recording", "summarizing", "reasoning"}
        /\ pc' \in LoopPoints => iteration + 1 < MaxIterations
    BY <2>1, LoopHeadShape DEF ControlTypes
  <2>3. /\ steps' \in Seq(TaskSteps)
        /\ Len(steps') = Len(steps) + 1
    BY <1>7, <2>1 DEF ToolSucceeds, ControlTypes, SuccessStep, TaskSteps
  <2>4. (ControlTypes /\ RowTracksTask)'
    BY <1>7, <2>1, <2>2, <2>3, EndsPreserve
       DEF ToolSucceeds, ControlTypes, LoopPoints
  <2>5. UNCHANGED <<step_replans, total_replans>>
    BY <1>7 DEF ToolSucceeds
  <2>6. LoopInv'
    BY <2>1, <2>2, <2>3, <2>5 DEF ControlTypes, LoopPoints
  <2>7. QED
    BY <2>4, <2>6
<1>8. ASSUME NEW n \in Sizes, ToolFails(n)
      PROVE  ExecutorInv'
  <2>1. pc = "dispatching" /\ current \in Calls
    BY <1>8 DEF ToolFails, ControlTypes
  <2>2. /\ Ends
        /\ pc' \in {"done", "replanning"}
        /\ pc' = "replanning" =>
              /\ step_replans' < MaxReplansPerStep
              /\ total_replans' < MaxReplansPerTask
    <3>1. step_replans' \in Nat /\ total_replans' \in Nat
      BY <1>8 DEF ToolFails, ControlTypes
    <3>2. CASE step_replans' >= MaxReplansPerStep
      BY <1>8, <3>2 DEF ToolFails, Ends, Return, Task!Results
    <3>3. CASE ~(step_replans' >= MaxReplansPerStep)
               /\ total_replans' >= MaxReplansPerTask
      BY <1>8, <3>3 DEF ToolFails, Ends, Return, Task!Results
    <3>4. CASE ~(step_replans' >= MaxReplansPerStep)
               /\ ~(total_replans' >= MaxReplansPerTask)
      <4>1. GoOn("replanning")
        BY <1>8, <3>4 DEF ToolFails
      <4>2. QED
        BY <3>1, <3>4, <4>1 DEF Ends, GoOn, LoopPoints
    <3>5. QED
      BY <3>2, <3>3, <3>4
  <2>3. /\ steps' \in Seq(TaskSteps)
        /\ Len(steps') = Len(steps) + 1
    BY <1>8, <2>1 DEF ToolFails, ControlTypes, FailureStep, TaskSteps
  <2>4. (ControlTypes /\ RowTracksTask)'
    BY <1>8, <2>1, <2>2, <2>3, EndsPreserve
       DEF ToolFails, ControlTypes, LoopPoints
  <2>5. LoopInv'
    BY <1>8, <2>1, <2>2, <2>3 DEF ToolFails, ControlTypes, LoopPoints, TaskLimit
  <2>6. QED
    BY <2>4, <2>5
<1>9. ASSUME NEW status \in {"committed", "failed"}, InsertEnds(status)
      PROVE  ExecutorInv'
  BY <1>9 DEF InsertEnds, loopVars, ControlTypes, RowTracksTask, LoopPoints,
              Awaiting
<1>10. CASE InsertAnswered
  BY <1>10 DEF InsertAnswered, Return, logVars, loopVars, ControlTypes,
     RowTracksTask, LoopPoints, Awaiting, Task!Results
<1>11. CASE Deadline
  BY <1>11 DEF Deadline, Return, logVars, loopVars, ControlTypes,
     RowTracksTask, LoopPoints, Awaiting, Task!Results
<1>12. CASE UNCHANGED vars
  BY <1>12 DEF vars, logVars, loopVars, ControlTypes, RowTracksTask
<1>13. QED
  BY <1>1, <1>2, <1>3, <1>4, <1>5, <1>6, <1>7, <1>8, <1>9, <1>10, <1>11, <1>12
     DEF Next, Answer, InsertStep

\* The control state, the counters and the row stay consistent.
THEOREM ExecutorInvariant == Spec => []ExecutorInv
  BY InitEstablishes, StepPreserves, PTL DEF Spec

\* A task that is still in its loop has one successful call per finished
\* iteration, and one failed call per replan.
THEOREM StepsAreIterationsAndReplansHolds ==
  Spec => []StepsAreIterationsAndReplans
  BY ExecutorInvariant, PTL DEF ExecutorInv, LoopInv

\* A task goes on only below both replan limits.
THEOREM ReplansBelowLimitsHolds == Spec => []ReplansBelowLimits
  BY ExecutorInvariant, PTL DEF ExecutorInv, LoopInv

\* No row is sent before the outcome is known, and only a timeout returns while
\* the database still works on one.
THEOREM RowTracksTaskHolds == Spec => []RowTracksTask
  BY ExecutorInvariant, PTL DEF ExecutorInv

-----------------------------------------------------------------------------

(***************************************************************************)
(* Refinement.                                                             *)
(***************************************************************************)

RowShown == IF insert.status = "committed" THEN insert.outcome ELSE "none"

\* A call that finishes does so within the budget: the steps of the iterations
\* before this one and the replans are together below it.
LEMMA CallWithinBudget ==
    ASSUME ExecutorInv, pc = "dispatching"
    PROVE  Len(steps) < DispatchBudget
  BY TaskLimitPositive
     DEF ExecutorInv, LoopInv, StepsAreIterationsAndReplans,
         ReplansBelowLimits, ControlTypes, DispatchBudget, LoopPoints

\* Every step of the executor is a step of the abstract task, or hidden from
\* it.
LEMMA StepSimulation ==
    ASSUME ExecutorInv, [Next]_vars
    PROVE  [Task!Next]_(Task!vars)
<1> DEFINE Shown == <<result, RowShown, Len(steps)>>
<1> USE DEF RowShown
<1>1. ASSUME NEW n \in Sizes, Start(n)
      PROVE  Task!End \/ UNCHANGED Shown
  BY <1>1 DEF Start, LoopHead, RecordAndReturn, Return, GoOn, logVars,
     Task!End, Task!Results, ExecutorInv, ControlTypes, RowTracksTask
<1>2. ASSUME NEW n \in Sizes, Summarize(n)
      PROVE  UNCHANGED Shown
  BY <1>2 DEF Summarize, GoOn, logVars
<1>3. ASSUME NEW t \in ThoughtSizes,
             IpcFails(t) \/ ReasonFinal(t) \/ ReplanFinal(t)
      PROVE  Task!End \/ UNCHANGED Shown
  BY <1>3 DEF IpcFails, ReasonFinal, ReplanFinal, RecordAndReturn, Return,
     logVars, Task!End, Task!Results, ExecutorInv, ControlTypes, RowTracksTask,
     LoopPoints, Awaiting
<1>4. ASSUME NEW t \in ThoughtSizes, NEW c \in Calls,
             ReasonAction(t, c) \/ ReplanAction(t, c)
      PROVE  Task!End \/ UNCHANGED Shown
  BY <1>4 DEF ReasonAction, ReplanAction, DispatchHead, Return, GoOn, logVars,
     Task!End, Task!Results, ExecutorInv, ControlTypes, RowTracksTask,
     LoopPoints, Awaiting
<1>5. ASSUME NEW n \in Sizes, ToolSucceeds(n) \/ ToolFails(n)
      PROVE  Task!FinishCall
  <2>1. pc = "dispatching" /\ result = "none" /\ RowShown = "none"
    BY <1>5 DEF ToolSucceeds, ToolFails, ExecutorInv, ControlTypes,
       RowTracksTask, LoopPoints
  <2>2. Len(steps) < DispatchBudget
    BY <2>1, CallWithinBudget
  <2>3. Len(steps') = Len(steps) + 1
    BY <1>5 DEF ToolSucceeds, ToolFails, ExecutorInv, ControlTypes
  <2>4. /\ result' \in {"none", "MaxReplansPerStep", "MaxReplansPerTask",
                        "MaxIterationsReached"}
        /\ RowShown' = "none"
    <3>1. CASE ToolSucceeds(n)
      BY <3>1, <2>1 DEF ToolSucceeds, LoopHead, RecordAndReturn, Return, GoOn,
         logVars
    <3>2. CASE ToolFails(n)
      BY <3>2, <2>1 DEF ToolFails, Return, GoOn, logVars
    <3>3. QED
      BY <1>5, <3>1, <3>2
  <2>5. QED
    BY <2>1, <2>2, <2>3, <2>4 DEF Task!FinishCall
<1>6. ASSUME NEW status \in {"committed", "failed"}, InsertEnds(status)
      PROVE  Task!AppendRow \/ UNCHANGED Shown
  BY <1>6 DEF InsertEnds, loopVars, Task!AppendRow, ExecutorInv, ControlTypes,
     RowTracksTask, Awaiting, LoopPoints
<1>7. CASE InsertAnswered
  BY <1>7 DEF InsertAnswered, Return, logVars, loopVars, Task!Next, Task!End,
     Task!Results, ExecutorInv, ControlTypes, RowTracksTask, Awaiting, LoopPoints
<1>8. CASE Deadline
  BY <1>8 DEF Deadline, Return, logVars, loopVars, Task!Next, Task!End,
     Task!Results, ExecutorInv, ControlTypes, RowTracksTask, Awaiting, LoopPoints
<1>9. CASE UNCHANGED vars
  BY <1>9 DEF vars, logVars, loopVars, Task!vars
<1>10. QED
  BY <1>1, <1>2, <1>3, <1>4, <1>5, <1>6, <1>7, <1>8, <1>9
     DEF Next, Answer, InsertStep, Task!Next, Task!vars

\* The executor implements the abstract task: a bounded number of calls, one
\* result, at most one row that agrees with it.
THEOREM ExecutorImplementsTask == Spec => ImplementsAgentTask
<1>1. Init => Task!Init
  BY DEF Init, Task!Init
<1>2. ExecutorInv /\ [Next]_vars => [Task!Next]_(Task!vars)
  BY StepSimulation
<1>3. QED
  BY <1>1, <1>2, ExecutorInvariant, PTL DEF Spec, ImplementsAgentTask, Task!Spec

-----------------------------------------------------------------------------

(***************************************************************************)
(* The memory and the window of the task.                                  *)
(***************************************************************************)

AgentMemory == INSTANCE AgentMemoryProofs

\* The messages are as the short-term memory assumes them.
LEMMA MessageSizes ==
    /\ Sizes \subseteq Nat
    /\ \A m \in Messages : m.tokens \in Nat
<1>1. \A n \in Nat : EstimateTokens(n) \in Nat
  <2> SUFFICES ASSUME NEW n \in Nat PROVE EstimateTokens(n) \in Nat
    OBVIOUS
  <2>1. n \div 4 \in Nat
    OBVIOUS
  <2> QED
    BY <2>1 DEF EstimateTokens
<1>2. Sizes \subseteq Nat
  BY <1>1, LengthsAssumption DEF Sizes
<1> QED
  BY <1>2 DEF Messages

\* The executor calls the operations that AgentMemoryProofs is about.
LEMMA MemoryOperations ==
    /\ \A b, msg : Memory!Pushed(b, msg) = AgentMemory!Pushed(b, msg)
    /\ \A m : Memory!Summarized(m) = AgentMemory!Summarized(m)
    /\ Memory!Empty = AgentMemory!Empty
<1>1. ASSUME NEW b, NEW msg
      PROVE  Memory!Pushed(b, msg) = AgentMemory!Pushed(b, msg)
  BY DEF Memory!Pushed, Memory!Evictions, Memory!StopsAt, Memory!CountAfter,
         Memory!SaturatingSub, AgentMemory!Pushed, AgentMemory!Evictions,
         AgentMemory!StopsAt, AgentMemory!CountAfter, AgentMemory!SaturatingSub
<1>2. \A m : Memory!Summarized(m) = AgentMemory!Summarized(m)
  BY DEF Memory!Summarized, AgentMemory!Summarized
<1>3. Memory!Empty = AgentMemory!Empty
  BY DEF Memory!Empty, AgentMemory!Empty
<1> QED
  BY <1>1, <1>2, <1>3

\* The memory is within its budget, and its count is the sum of its messages.
MemoryOK(b) == AgentMemory!SoundInBudget(b)

LastOf(b) == b.messages[Len(b.messages)]

\* A push keeps the memory sound, and what was pushed is its last message.
LEMMA PushedOK ==
    ASSUME NEW b, MemoryOK(b), NEW msg \in Messages
    PROVE  /\ MemoryOK(Memory!Pushed(b, msg))
           /\ Memory!Pushed(b, msg).messages # <<>>
           /\ LastOf(Memory!Pushed(b, msg)) = msg
<1> USE MemoryAssumption, MessageSizes
<1>1. PICK p : AgentMemory!Sound(b, p)
  BY DEF MemoryOK, AgentMemory!SoundInBudget
<1> DEFINE q == AgentMemory!Pushed(b, msg)
<1>2. MemoryOK(q)
  BY <1>1, AgentMemory!PushedSound DEF MemoryOK, AgentMemory!SoundInBudget
<1>3. AgentMemory!PushShape(b, p, msg, AgentMemory!Evictions(b, msg.tokens),
                            Len(b.messages), q)
  BY <1>1, AgentMemory!PushedShape
<1> HIDE DEF q
<1>4. q.messages # <<>> /\ LastOf(q) = msg
  <2> DEFINE k == AgentMemory!Evictions(b, msg.tokens)
             n == Len(b.messages)
  <2>1. /\ n \in Nat /\ k \in 0..n
        /\ q.messages \in Seq(Messages)
        /\ Len(q.messages) = n - k + 1
        /\ q.messages[n - k + 1] = msg
    BY <1>3 DEF AgentMemory!PushShape
  <2> HIDE DEF k, n
  <2>2. Len(q.messages) # 0
    BY <2>1
  <2> QED
    BY <2>1, <2>2 DEF LastOf
<1>5. q = Memory!Pushed(b, msg)
  BY MemoryOperations DEF q
<1> QED
  BY <1>2, <1>4, <1>5

\* A summary replaces the memory, and is its last message.
LEMMA SummarizedOK ==
    ASSUME NEW msg \in Messages
    PROVE  /\ MemoryOK(Memory!Summarized(msg))
           /\ Memory!Summarized(msg).messages # <<>>
           /\ LastOf(Memory!Summarized(msg)) = msg
<1> USE MemoryAssumption, MessageSizes
<1>1. MemoryOK(AgentMemory!Summarized(msg))
  BY AgentMemory!SummarizedSound DEF MemoryOK, AgentMemory!SoundInBudget
<1>2. Memory!Summarized(msg).messages = <<msg>>
  BY DEF Memory!Summarized
<1> QED
  BY <1>1, <1>2, MemoryOperations DEF LastOf

\* The memory of a new task is sound.
LEMMA EmptyOK == MemoryOK(Memory!Empty)
<1> USE MemoryAssumption, MessageSizes
<1>1. AgentMemory!Empty.token_count = 0
  BY DEF AgentMemory!Empty
<1> QED
  BY <1>1, AgentMemory!EmptySound, MemoryOperations
     DEF MemoryOK, AgentMemory!SoundInBudget

\* A thought keeps the memory sound, the empty one too.
LEMMA PushedThoughtOK ==
    ASSUME NEW b, MemoryOK(b), NEW t \in ThoughtSizes
    PROVE  MemoryOK(PushedThought(b, t))
<1>1. CASE t = 0
  BY <1>1 DEF PushedThought
<1>2. CASE t # 0
  <2>1. [kind |-> "thought", tokens |-> t] \in Messages
    BY <1>2 DEF ThoughtSizes, Messages, Kinds
  <2> QED
    BY <1>2, <2>1, PushedOK DEF PushedThought
<1> QED
  BY <1>1, <1>2

\* What the loop keeps of the memory, the iterations and the window.
ContentInv ==
    /\ MemoryOK(stm)
    /\ iteration <= MaxIterations
    /\ window \in Seq(Calls)
    /\ ReasonSeesLastOutcome

\* Every call is recorded in the window before it is made.
LEMMA RecordedTyped ==
    ASSUME NEW w \in Seq(Calls), NEW c \in Calls
    PROVE  Detector!Recorded(w, c) \in Seq(Calls)
<1>1. w # <<>> => Tail(w) \in Seq(Calls)
  BY EmptySeq
<1> QED
  BY <1>1 DEF Detector!Recorded

\* The memory and the window are sound at the start.
LEMMA ContentInit == Init => ContentInv
<1> SUFFICES ASSUME Init PROVE ContentInv
  OBVIOUS
<1>1. <<>> \in Seq(Calls)
  OBVIOUS
<1> QED
  BY <1>1, EmptyOK DEF Init, ContentInv, ReasonSeesLastOutcome

\* Every handler leaves a sound memory and an iteration within the limit, and
\* one that goes on to "reasoning" or "replanning" has pushed the outcome, or
\* replaced the memory by a summary, last.
LEMMA ContentStep ==
    ASSUME ExecutorInv, ContentInv, [Next]_vars
    PROVE  ContentInv'
<1> USE DEF ContentInv
<1>0. /\ iteration \in Nat /\ steps \in Seq(TaskSteps)
      /\ MaxIterations \in Nat
  BY DEF ExecutorInv, ControlTypes
<1>1. ASSUME NEW n \in Sizes, Start(n) PROVE ContentInv'
  <2> DEFINE msg == [kind |-> "goal", tokens |-> n]
  <2>1. msg \in Messages /\ msg.kind = "goal"
    BY DEF Messages, Kinds
  <2>2. stm' = Memory!Pushed(stm, msg) /\ LoopHead(0, stm') /\ pc = "new"
    BY <1>1 DEF Start
  <2>3. /\ MemoryOK(stm') /\ stm'.messages # <<>>
        /\ stm'.messages[Len(stm'.messages)].kind = "goal"
    BY <2>1, <2>2, PushedOK DEF LastOf
  <2>4. /\ iteration' = 0
        /\ pc' \in {"done", "recording", "summarizing", "reasoning"}
    BY <2>2, LoopHeadShape
  <2>5. steps' = <<>> /\ window' = window
    BY <1>0, <1>1, <2>2, EmptySeq
       DEF Start, stepVars, ExecutorInv, LoopInv, FreshCounters
  <2> QED
    BY <1>0, <2>3, <2>4, <2>5 DEF ReasonSeesLastOutcome, Requested, LastKind
<1>2. ASSUME NEW n \in Sizes, Summarize(n) PROVE ContentInv'
  <2> DEFINE msg == [kind |-> "summary", tokens |-> n]
  <2>1. msg \in Messages /\ msg.kind = "summary"
    BY DEF Messages, Kinds
  <2>2. /\ stm' = Memory!Summarized(msg)
        /\ pc' = "reasoning" /\ UNCHANGED <<iteration, window>>
    BY <1>2 DEF Summarize, GoOn
  <2>3. /\ MemoryOK(stm') /\ stm'.messages # <<>>
        /\ stm'.messages[Len(stm'.messages)].kind = "summary"
    BY <2>1, <2>2, SummarizedOK DEF LastOf
  <2> QED
    BY <2>2, <2>3 DEF ReasonSeesLastOutcome, Requested, LastKind
<1>3. ASSUME NEW t \in ThoughtSizes,
             IpcFails(t) \/ ReasonFinal(t) \/ ReplanFinal(t)
      PROVE  ContentInv'
  <2>1. /\ \/ stm' = PushedThought(stm, t)
           \/ stm' = PushedThought(PushedThought(stm, t), t)
        /\ UNCHANGED <<iteration, window>>
    BY <1>3 DEF IpcFails, ReasonFinal, ReplanFinal
  <2>2. pc' \in {"done", "recording"}
    BY <1>3 DEF IpcFails, ReasonFinal, ReplanFinal, RecordAndReturn, Return
  <2>3. MemoryOK(stm')
    BY <2>1, PushedThoughtOK
  <2> QED
    BY <2>1, <2>2, <2>3 DEF ReasonSeesLastOutcome
<1>4. ASSUME NEW t \in ThoughtSizes, NEW c \in Calls,
             ReasonAction(t, c) \/ ReplanAction(t, c)
      PROVE  ContentInv'
  <2>1. /\ stm' = PushedThought(stm, t) /\ DispatchHead(c)
        /\ iteration' = iteration
    BY <1>4 DEF ReasonAction, ReplanAction
  <2>2. pc' \in {"done", "dispatching"}
    BY <2>1, DispatchHeadShape
  <2>3. window' = window \/ window' = Detector!Recorded(window, c)
    BY <2>1 DEF DispatchHead, Detector!Record
  <2>4. window' \in Seq(Calls) /\ MemoryOK(stm')
    BY <2>1, <2>3, RecordedTyped, PushedThoughtOK
  <2> QED
    BY <2>1, <2>2, <2>4 DEF ReasonSeesLastOutcome
<1>5. ASSUME NEW n \in Sizes, ToolSucceeds(n) PROVE ContentInv'
  <2> DEFINE msg == [kind |-> "observation", tokens |-> n]
  <2>1. msg \in Messages /\ msg.kind = "observation"
    BY DEF Messages, Kinds
  <2>2. /\ stm' = Memory!Pushed(stm, msg) /\ LoopHead(iteration + 1, stm')
        /\ pc = "dispatching" /\ window' = window
        /\ steps' = Append(steps, SuccessStep(current))
    BY <1>5 DEF ToolSucceeds
  <2>3. /\ MemoryOK(stm') /\ stm'.messages # <<>>
        /\ stm'.messages[Len(stm'.messages)].kind = "observation"
    BY <2>1, <2>2, PushedOK DEF LastOf
  <2>4. /\ iteration' = iteration + 1
        /\ pc' \in {"done", "recording", "summarizing", "reasoning"}
    BY <1>0, <2>2, LoopHeadShape
  <2>5. iteration' <= MaxIterations
    BY <1>0, <2>2, <2>4
       DEF ExecutorInv, LoopInv, StepsAreIterationsAndReplans, LoopPoints
  <2>6. steps' # <<>>
    BY <1>0, <2>2
  <2> QED
    BY <2>2, <2>3, <2>4, <2>5, <2>6
       DEF ReasonSeesLastOutcome, Requested, LastKind
<1>6. ASSUME NEW n \in Sizes, ToolFails(n) PROVE ContentInv'
  <2> DEFINE msg == [kind |-> "error", tokens |-> n]
  <2>1. msg \in Messages /\ msg.kind = "error"
    BY DEF Messages, Kinds
  <2>2. /\ \/ pc' = "done" /\ stm' = stm
           \/ pc' = "replanning" /\ stm' = Memory!Pushed(stm, msg)
        /\ UNCHANGED <<iteration, window>>
    BY <1>6 DEF ToolFails, Return, GoOn
  <2>3. CASE pc' = "done" /\ stm' = stm
    BY <2>2, <2>3 DEF ReasonSeesLastOutcome
  <2>4. CASE pc' = "replanning" /\ stm' = Memory!Pushed(stm, msg)
    <3>1. /\ MemoryOK(stm') /\ stm'.messages # <<>>
          /\ stm'.messages[Len(stm'.messages)].kind = "error"
      BY <2>1, <2>4, PushedOK DEF LastOf
    <3> QED
      BY <2>2, <2>4, <3>1 DEF ReasonSeesLastOutcome, Requested, LastKind
  <2> QED
    BY <2>2, <2>3, <2>4
<1>7. ASSUME InsertAnswered \/ Deadline PROVE ContentInv'
  BY <1>7 DEF InsertAnswered, Deadline, Return, loopVars, ReasonSeesLastOutcome
<1>8. ASSUME NEW status \in {"committed", "failed"}, InsertEnds(status)
      PROVE  ContentInv'
  BY <1>8 DEF InsertEnds, loopVars, ReasonSeesLastOutcome, Requested, LastKind
<1>9. CASE UNCHANGED vars
  BY <1>9 DEF vars, loopVars, ReasonSeesLastOutcome, Requested, LastKind
<1> QED
  BY <1>1, <1>2, <1>3, <1>4, <1>5, <1>6, <1>7, <1>8, <1>9
     DEF Next, Answer, InsertStep

\* The memory stays within its budget and the counters within their limits.
THEOREM ContentInvariant == Spec => []ContentInv
  BY ContentInit, ContentStep, ExecutorInvariant, PTL DEF Spec

\* Every /reason request ends with the outcome of the latest call or with a
\* summary made after it, whatever was evicted: what is pushed last is never
\* evicted, and nothing is pushed between a tool's outcome and the request.
THEOREM ReasonSeesLastOutcomeHolds == Spec => []ReasonSeesLastOutcome
  BY ContentInvariant, PTL DEF ContentInv

\* Every variable of the executor has its type, the memory among them.
THEOREM TypesHold == Spec => []TypeOK
<1>1. ExecutorInv /\ ContentInv => TypeOK
  <2> SUFFICES ASSUME ExecutorInv, ContentInv PROVE TypeOK
    OBVIOUS
  <2> USE MemoryAssumption, MessageSizes
  <2>1. PICK p : AgentMemory!Sound(stm, p)
    BY DEF ContentInv, MemoryOK, AgentMemory!SoundInBudget
  <2>2. stm.messages \in Seq(Messages) /\ stm.token_count \in Nat
    BY <2>1, AgentMemory!SoundTyped DEF AgentMemory!Sound
  <2>3. iteration \in 0..MaxIterations
    BY DEF ExecutorInv, ControlTypes, ContentInv
  <2> QED
    BY <2>2, <2>3 DEF TypeOK, ExecutorInv, ControlTypes, ContentInv, Task!Results
<1> QED
  BY <1>1, ExecutorInvariant, ContentInvariant, PTL

-----------------------------------------------------------------------------

(***************************************************************************)
(* The replans and the failures reported.                                  *)
(***************************************************************************)

\* The failures that steps st report from step i on.
FailuresFrom(st, i) == {k \in i..Len(st) : ~st[k].ok}

\* Step i is the last success of st, 0 if there is none, and every step after
\* it failed.
LastSuccess(st, i) ==
    /\ i \in 0..Len(st)
    /\ i = 0 \/ st[i].ok
    /\ FailuresFrom(st, i + 1) = (i + 1)..Len(st)

EndsWithSuccess(st) == st = <<>> \/ st[Len(st)].ok

\* The replans are counted as ReplansCountFailures says, and every await
\* before a new call comes after a success.
CountsInv ==
    /\ total_replans = Cardinality(FailuresFrom(steps, 1))
    /\ pc \in {"dispatching", "replanning"} =>
          \E i \in 0..Len(steps) :
             LastSuccess(steps, i) /\ step_replans = Len(steps) - i
    /\ pc \in {"summarizing", "reasoning"} => EndsWithSuccess(steps)

\* The counts of the invariant are those of the property.
LEMMA CountsAreReplans == CountsInv => ReplansCountFailures
  BY DEF CountsInv, ReplansCountFailures, FailuresFrom, LastSuccess, Failures

\* What one more step does to the steps.
LEMMA AppendedStep ==
    ASSUME NEW st \in Seq(TaskSteps), NEW call \in Calls, NEW ok \in BOOLEAN,
           NEW t, t = Append(st, [call |-> call, ok |-> ok])
    PROVE  /\ Len(st) \in Nat /\ Len(t) = Len(st) + 1
           /\ \A i \in 1..Len(st) : t[i] = st[i]
           /\ t[Len(t)].ok = ok
<1>1. Len(t) = Len(st) + 1 /\ t[Len(t)] = [call |-> call, ok |-> ok]
  BY DEF TaskSteps
<1> QED
  BY <1>1

\* A step that succeeded leaves the failures, one that failed adds itself.
LEMMA AppendedFailures ==
    ASSUME NEW st \in Seq(TaskSteps), NEW call \in Calls, NEW ok \in BOOLEAN,
           NEW t, t = Append(st, [call |-> call, ok |-> ok])
    PROVE  Cardinality(FailuresFrom(t, 1)) =
              IF ok THEN Cardinality(FailuresFrom(st, 1))
              ELSE Cardinality(FailuresFrom(st, 1)) + 1
<1> DEFINE n == Len(st)
           F == FailuresFrom(st, 1)
           G == FailuresFrom(t, 1)
<1>1. /\ n \in Nat /\ Len(t) = n + 1
      /\ \A i \in 1..n : t[i] = st[i]
      /\ t[n + 1].ok = ok
  BY AppendedStep
<1>2. F = {k \in 1..n : ~st[k].ok} /\ G = {k \in 1..(n + 1) : ~t[k].ok}
  BY <1>1 DEF FailuresFrom
<1>3. IsFiniteSet(F) /\ (n + 1) \notin F
  <2>1. IsFiniteSet(1..n) /\ F \subseteq 1..n
    BY <1>1, <1>2, FS_Interval
  <2> QED
    BY <1>1, <2>1, FS_Subset
<1>4. 1..(n + 1) = (1..n) \cup {n + 1}
  BY <1>1
<1> HIDE DEF n, F, G
<1>5. G = IF ok THEN F ELSE F \cup {n + 1}
  BY <1>1, <1>2, <1>4
<1>6. Cardinality(F \cup {n + 1}) = Cardinality(F) + 1
  BY <1>3, FS_AddElement
<1> QED
  BY <1>5, <1>6 DEF F, G

\* A failure after the last success leaves that success the last.
LEMMA FailureAfterSuccess ==
    ASSUME NEW st \in Seq(TaskSteps), NEW call \in Calls,
           NEW t, t = Append(st, FailureStep(call)),
           NEW i, LastSuccess(st, i)
    PROVE  LastSuccess(t, i) /\ Len(t) - i = Len(st) - i + 1
<1> DEFINE n == Len(st)
<1>1. /\ n \in Nat /\ Len(t) = n + 1
      /\ \A k \in 1..n : t[k] = st[k]
      /\ ~t[n + 1].ok
  BY AppendedStep DEF FailureStep
<1>2. /\ i \in 0..n
      /\ i = 0 \/ st[i].ok
      /\ \A k \in (i + 1)..n : ~st[k].ok
  BY DEF LastSuccess, FailuresFrom
<1> HIDE DEF n
<1>3. i = 0 \/ t[i].ok
  BY <1>1, <1>2
<1>4. \A k \in (i + 1)..(n + 1) : ~t[k].ok
  BY <1>1, <1>2
<1>5. i \in 0..(n + 1) /\ FailuresFrom(t, i + 1) = (i + 1)..(n + 1)
  BY <1>1, <1>2, <1>4 DEF FailuresFrom
<1> QED
  BY <1>1, <1>2, <1>3, <1>5 DEF LastSuccess, n

\* Steps that end with a success have it as the last one.
LEMMA SuccessIsLast ==
    ASSUME NEW st \in Seq(TaskSteps), EndsWithSuccess(st)
    PROVE  Len(st) \in 0..Len(st) /\ LastSuccess(st, Len(st))
<1>1. Len(st) \in Nat /\ (Len(st) = 0 \/ st[Len(st)].ok)
  BY EmptySeq DEF EndsWithSuccess
<1>2. (Len(st) + 1)..Len(st) = {}
  BY <1>1
<1> QED
  BY <1>1, <1>2 DEF LastSuccess, FailuresFrom

\* No call has failed at the start.
LEMMA CountsInit == Init => CountsInv
<1> SUFFICES ASSUME Init PROVE CountsInv
  OBVIOUS
<1>1. steps = <<>> /\ total_replans = 0 /\ pc = "new"
  BY DEF Init
<1>2. FailuresFrom(steps, 1) = {}
  BY <1>1 DEF FailuresFrom
<1> QED
  BY <1>1, <1>2, FS_EmptySet DEF CountsInv

\* Every step counts its failure, and a new iteration starts after a success.
LEMMA CountsStep ==
    ASSUME ExecutorInv, CountsInv, [Next]_vars
    PROVE  CountsInv'
<1> USE DEF CountsInv
<1>0. /\ steps \in Seq(TaskSteps) /\ Len(steps) \in Nat
      /\ step_replans \in Nat /\ total_replans \in Nat
  BY DEF ExecutorInv, ControlTypes
<1>1. ASSUME NEW n \in Sizes, Start(n) PROVE CountsInv'
  <2>1. /\ LoopHead(0, stm') /\ pc = "new"
        /\ UNCHANGED <<steps, step_replans, total_replans>>
    BY <1>1 DEF Start
  <2>2. pc' \in {"done", "recording", "summarizing", "reasoning"}
    BY <2>1, LoopHeadShape
  <2>3. EndsWithSuccess(steps)
    BY <1>0, <2>1, EmptySeq
       DEF EndsWithSuccess, ExecutorInv, LoopInv, FreshCounters
  <2> QED
    BY <2>1, <2>2, <2>3
<1>2. ASSUME NEW n \in Sizes, Summarize(n) PROVE CountsInv'
  BY <1>2 DEF Summarize, GoOn
<1>3. ASSUME NEW t \in ThoughtSizes,
             IpcFails(t) \/ ReasonFinal(t) \/ ReplanFinal(t)
      PROVE  CountsInv'
  BY <1>3 DEF IpcFails, ReasonFinal, ReplanFinal, RecordAndReturn, Return
<1>4. ASSUME NEW t \in ThoughtSizes, NEW c \in Calls, ReasonAction(t, c)
      PROVE  CountsInv'
  <2>1. /\ DispatchHead(c) /\ pc = "reasoning" /\ step_replans' = 0
        /\ UNCHANGED <<steps, total_replans>>
    BY <1>4 DEF ReasonAction
  <2>2. pc' \in {"done", "dispatching"}
    BY <2>1, DispatchHeadShape
  <2>3. Len(steps) \in 0..Len(steps) /\ LastSuccess(steps, Len(steps))
    BY <1>0, <2>1, SuccessIsLast
  <2> QED
    BY <1>0, <2>1, <2>2, <2>3
<1>5. ASSUME NEW t \in ThoughtSizes, NEW c \in Calls, ReplanAction(t, c)
      PROVE  CountsInv'
  <2>1. /\ DispatchHead(c) /\ pc = "replanning"
        /\ UNCHANGED <<steps, step_replans, total_replans>>
    BY <1>5 DEF ReplanAction
  <2>2. pc' \in {"done", "dispatching"}
    BY <2>1, DispatchHeadShape
  <2> QED
    BY <2>1, <2>2
<1>6. ASSUME NEW n \in Sizes, ToolSucceeds(n) PROVE CountsInv'
  <2>1. /\ LoopHead(iteration + 1, stm') /\ pc = "dispatching"
        /\ steps' = Append(steps, [call |-> current, ok |-> TRUE])
        /\ UNCHANGED <<step_replans, total_replans>>
    BY <1>6 DEF ToolSucceeds, SuccessStep
  <2>2. current \in Calls /\ iteration \in Nat
    BY <2>1 DEF ExecutorInv, ControlTypes
  <2>3. pc' \in {"done", "recording", "summarizing", "reasoning"}
    BY <2>1, <2>2, LoopHeadShape
  <2>4. steps'[Len(steps')].ok
    BY <1>0, <2>1, <2>2, AppendedStep
  <2>5. Cardinality(FailuresFrom(steps', 1)) = Cardinality(FailuresFrom(steps, 1))
    BY <1>0, <2>1, <2>2, AppendedFailures
  <2> QED
    BY <2>1, <2>3, <2>4, <2>5 DEF EndsWithSuccess
<1>7. ASSUME NEW n \in Sizes, ToolFails(n) PROVE CountsInv'
  <2>1. /\ pc = "dispatching"
        /\ steps' = Append(steps, FailureStep(current))
        /\ step_replans' = step_replans + 1
        /\ total_replans' = total_replans + 1
        /\ pc' \in {"done", "replanning"}
    BY <1>7 DEF ToolFails, Return, GoOn
  <2>2. current \in Calls
    BY <2>1 DEF ExecutorInv, ControlTypes
  <2>3. total_replans' = Cardinality(FailuresFrom(steps', 1))
    BY <1>0, <2>1, <2>2, AppendedFailures DEF FailureStep
  <2>4. PICK i \in 0..Len(steps) :
             LastSuccess(steps, i) /\ step_replans = Len(steps) - i
    BY <2>1
  <2>5. LastSuccess(steps', i) /\ Len(steps') - i = Len(steps) - i + 1
    BY <1>0, <2>1, <2>2, <2>4, FailureAfterSuccess
  <2>6. i \in 0..Len(steps') /\ step_replans' = Len(steps') - i
    BY <2>1, <2>4, <2>5 DEF LastSuccess
  <2> QED
    BY <2>1, <2>3, <2>5, <2>6
<1>8. ASSUME InsertAnswered \/ Deadline PROVE CountsInv'
  BY <1>8 DEF InsertAnswered, Deadline, Return, loopVars
<1>9. ASSUME NEW status \in {"committed", "failed"}, InsertEnds(status)
      PROVE  CountsInv'
  BY <1>9 DEF InsertEnds, loopVars
<1>10. CASE UNCHANGED vars
  BY <1>10 DEF vars, loopVars
<1> QED
  BY <1>1, <1>2, <1>3, <1>4, <1>5, <1>6, <1>7, <1>8, <1>9, <1>10
     DEF Next, Answer, InsertStep

\* total_replans is the number of failed steps that the result reports, and
\* step_replans the number of failures since the last success, whatever
\* succeeded, failed and was replanned in between.
THEOREM ReplansCountFailuresHolds == Spec => []ReplansCountFailures
<1>1. Spec => []CountsInv
  BY CountsInit, CountsStep, ExecutorInvariant, PTL DEF Spec
<1> QED
  BY <1>1, CountsAreReplans, PTL

-----------------------------------------------------------------------------

(***************************************************************************)
(* The calls made and the window of the loop detector.                     *)
(***************************************************************************)

\* The executor asks the detector that AgentMemoryProofs is about.
LEMMA DetectorOperations ==
    /\ Detector!Capacity = AgentMemory!Capacity
    /\ \A w, c : Detector!Recorded(w, c) = AgentMemory!Recorded(w, c)
    /\ \A w : Detector!IsLooping(w) = AgentMemory!IsLooping(w)
    /\ \A S : Cardinality(S) = AgentMemory!Cardinality(S)
<1>1. Detector!Capacity = AgentMemory!Capacity
  BY DEF Detector!Capacity, AgentMemory!Capacity
<1>2. \A w, c : Detector!Recorded(w, c) = AgentMemory!Recorded(w, c)
  BY DEF Detector!Recorded, AgentMemory!Recorded
<1>3. \A S : Detector!Cardinality(S) = AgentMemory!Cardinality(S)
  BY DEF Detector!Cardinality, AgentMemory!Cardinality
<1>4. \A c, s : Detector!Occurrences(c, s) = AgentMemory!Occurrences(c, s)
  BY <1>3 DEF Detector!Occurrences, AgentMemory!Occurrences
<1>5. \A w : Detector!IsLooping(w) = AgentMemory!IsLooping(w)
  BY <1>4 DEF Detector!IsLooping, AgentMemory!IsLooping
<1>6. \A S : Cardinality(S) = AgentMemory!Cardinality(S)
  BY DEF Cardinality, AgentMemory!Cardinality
<1> QED
  BY <1>1, <1>2, <1>5, <1>6

\* The calls of steps st, and with the one being dispatched if there is one.
CallsOf(st) == [i \in 1..Len(st) |-> st[i].call]

WithCurrent(p, st, call) ==
    IF p = "dispatching" THEN Append(CallsOf(st), call) ELSE CallsOf(st)

\* The calls of steps are a sequence of calls.
LEMMA CallsOfTyped ==
    ASSUME NEW st \in Seq(TaskSteps)
    PROVE  /\ CallsOf(st) \in Seq(Calls)
           /\ Len(CallsOf(st)) = Len(st) /\ Len(st) \in Nat
           /\ \A i \in 1..Len(st) : CallsOf(st)[i] = st[i].call
<1>1. \A i \in 1..Len(st) : st[i] \in TaskSteps
  OBVIOUS
<1>2. \A r \in TaskSteps : r.call \in Calls
  BY DEF TaskSteps
<1>3. \A i \in 1..Len(st) : st[i].call \in Calls
  BY <1>1, <1>2
<1> QED
  BY <1>3 DEF CallsOf

\* One more step is one more call, however it ended.
LEMMA CallsAppended ==
    ASSUME NEW st \in Seq(TaskSteps), NEW call \in Calls, NEW ok \in BOOLEAN,
           NEW t, t = Append(st, [call |-> call, ok |-> ok])
    PROVE  CallsOf(t) = Append(CallsOf(st), call)
<1> DEFINE n == Len(st)
           s == Append(CallsOf(st), call)
<1>1. /\ t \in Seq(TaskSteps) /\ n \in Nat /\ Len(t) = n + 1
      /\ \A i \in 1..n : t[i] = st[i]
      /\ t[n + 1].call = call
  <2>1. [call |-> call, ok |-> ok] \in TaskSteps
    BY DEF TaskSteps
  <2> QED
    BY <2>1
<1>2. /\ CallsOf(t) \in Seq(Calls) /\ Len(CallsOf(t)) = n + 1
      /\ \A i \in 1..(n + 1) : CallsOf(t)[i] = t[i].call
  BY <1>1, CallsOfTyped
<1>3. /\ CallsOf(st) \in Seq(Calls) /\ Len(CallsOf(st)) = n
      /\ \A i \in 1..n : CallsOf(st)[i] = st[i].call
  BY CallsOfTyped
<1>4. /\ s \in Seq(Calls) /\ Len(s) = n + 1 /\ s[n + 1] = call
      /\ \A i \in 1..n : s[i] = st[i].call
  BY <1>1, <1>3
<1> HIDE DEF s, n
<1>5. \A i \in 1..(n + 1) : CallsOf(t)[i] = s[i]
  BY <1>1, <1>2, <1>4
<1>6. CallsOf(t) = s
  BY <1>1, <1>2, <1>4, <1>5, SeqEqual
<1> QED
  BY <1>6 DEF s

\* The calls dispatched so far, as PlanExecutor puts them together.
LEMMA DispatchedCalls ==
    ASSUME NEW st \in Seq(TaskSteps), NEW call, NEW p,
           p = "dispatching" => call \in Calls
    PROVE  CallsOf(st) \o (IF p = "dispatching" THEN <<call>> ELSE <<>>)
             = WithCurrent(p, st, call)
<1>1. CallsOf(st) \in Seq(Calls)
  BY CallsOfTyped
<1>2. CASE p = "dispatching"
  BY <1>1, <1>2, AppendIsConcat DEF WithCurrent
<1>3. CASE p # "dispatching"
  BY <1>1, <1>3, ConcatEmptySeq DEF WithCurrent
<1> QED
  BY <1>2, <1>3

\* While the task runs, the window holds the latest calls dispatched, and
\* they are no flood at any time.
FloodInv ==
    /\ pc # "done" =>
          AgentMemory!IsWindowOf(window, WithCurrent(pc, steps, current))
    /\ AgentMemory!FloodFree(WithCurrent(pc, steps, current))

\* The property is that the calls dispatched are no flood.
LEMMA FloodIsReported ==
    ASSUME ControlTypes
    PROVE  FloodInv => NoFloodOfOneCall
<1> DEFINE d == WithCurrent(pc, steps, current)
<1>1. Dispatched = d
  BY DispatchedCalls DEF ControlTypes, Dispatched, CallsOf
<1>2. ASSUME AgentMemory!FloodFree(d),
             NEW first \in 1..Len(d), NEW c \in Calls
      PROVE  LET n == Cardinality({i \in {i \in 1..Len(d) :
                                             /\ first <= i
                                             /\ i < first + Detector!Capacity} :
                                      d[i] = c})
             IN  n <= 1 \/ n <= RepeatThreshold
  <2> DEFINE A == {i \in {i \in 1..Len(d) :
                             first <= i /\ i < first + Detector!Capacity} :
                      d[i] = c}
  <2>1. A = AgentMemory!CallsFrom(d, first, c)
    BY DetectorOperations DEF AgentMemory!CallsFrom
  <2>2. Cardinality(A) = AgentMemory!Cardinality(A)
    BY DetectorOperations
  <2> HIDE DEF d
  <2>3. \/ AgentMemory!Cardinality(AgentMemory!CallsFrom(d, first, c)) <= 1
        \/ AgentMemory!Cardinality(AgentMemory!CallsFrom(d, first, c))
              <= RepeatThreshold
    BY <1>2 DEF AgentMemory!FloodFree
  <2> QED
    BY <2>1, <2>2, <2>3
<1> HIDE DEF d
<1> QED
  BY <1>1, <1>2 DEF FloodInv, NoFloodOfOneCall, d

\* A step that changes neither the calls dispatched nor the window.
LEMMA SameCalls ==
    ASSUME FloodInv, UNCHANGED window, pc # "done" \/ pc' = "done",
           WithCurrent(pc', steps', current') = WithCurrent(pc, steps, current)
    PROVE  FloodInv'
  BY DEF FloodInv

\* Nothing has been dispatched at the start.
LEMMA FloodInit == Init => FloodInv
<1> SUFFICES ASSUME Init PROVE FloodInv
  OBVIOUS
<1> USE MemoryAssumption, MessageSizes
<1>1. window = <<>> /\ WithCurrent(pc, steps, current) = <<>>
  BY DEF Init, WithCurrent, CallsOf
<1>2. AgentMemory!IsWindowOf(<<>>, <<>>)
  BY AgentMemory!CapacityPositive DEF AgentMemory!IsWindowOf
<1> QED
  BY <1>1, <1>2, AgentMemory!EmptyFloodFree DEF FloodInv

\* The head of a dispatch refuses a call that would be a flood.
LEMMA DispatchHeadFlood ==
    ASSUME ControlTypes, FloodInv, pc \in {"reasoning", "replanning"},
           NEW c \in Calls, DispatchHead(c), UNCHANGED steps
    PROVE  FloodInv'
<1> USE MemoryAssumption, MessageSizes
<1>1. /\ AgentMemory!IsWindowOf(window, CallsOf(steps))
      /\ AgentMemory!FloodFree(CallsOf(steps))
      /\ WithCurrent(pc, steps, current) = CallsOf(steps)
  BY DEF FloodInv, WithCurrent
<1>2. CASE Detector!IsLooping(window)
  BY <1>1, <1>2, SameCalls DEF DispatchHead, Return, WithCurrent
<1>3. CASE ~Detector!IsLooping(window)
  <2>1. /\ window' = AgentMemory!Recorded(window, c)
        /\ WithCurrent(pc', steps', current') = Append(CallsOf(steps), c)
    BY <1>3, DetectorOperations
       DEF DispatchHead, GoOn, Detector!Record, WithCurrent
  <2>2. AgentMemory!IsWindowOf(window', Append(CallsOf(steps), c))
    BY <1>1, <2>1, AgentMemory!RecordedWindow
  <2>3. ~AgentMemory!IsLooping(window)
    BY <1>3, DetectorOperations
  <2>4. AgentMemory!FloodFree(Append(CallsOf(steps), c))
    BY <1>1, <2>3, AgentMemory!FloodFreeAppend
  <2> QED
    BY <2>1, <2>2, <2>4 DEF FloodInv
<1> QED
  BY <1>2, <1>3

\* Only the head of a dispatch adds to the calls dispatched, and the deadline may
\* take back the one it interrupts.
LEMMA FloodStep ==
    ASSUME ExecutorInv, FloodInv, [Next]_vars
    PROVE  FloodInv'
<1>0. ControlTypes /\ steps \in Seq(TaskSteps)
  BY DEF ExecutorInv, ControlTypes
<1>1. ASSUME NEW n \in Sizes, Start(n) PROVE FloodInv'
  <2>1. /\ LoopHead(0, stm') /\ pc = "new"
        /\ UNCHANGED <<steps, window>>
    BY <1>1 DEF Start
  <2>2. pc' \in {"done", "recording", "summarizing", "reasoning"}
    BY <2>1, LoopHeadShape
  <2> QED
    BY <2>1, <2>2, SameCalls DEF WithCurrent
<1>2. ASSUME NEW n \in Sizes, Summarize(n) PROVE FloodInv'
  BY <1>2, SameCalls DEF Summarize, GoOn, WithCurrent
<1>3. ASSUME NEW t \in ThoughtSizes,
             IpcFails(t) \/ ReasonFinal(t) \/ ReplanFinal(t)
      PROVE  FloodInv'
  BY <1>3, SameCalls DEF IpcFails, ReasonFinal, ReplanFinal, RecordAndReturn,
     Return, WithCurrent
<1>4. ASSUME NEW t \in ThoughtSizes, NEW c \in Calls,
             ReasonAction(t, c) \/ ReplanAction(t, c)
      PROVE  FloodInv'
  BY <1>0, <1>4, DispatchHeadFlood DEF ReasonAction, ReplanAction
<1>5. ASSUME NEW n \in Sizes, ToolSucceeds(n) \/ ToolFails(n)
      PROVE  FloodInv'
  <2>1. /\ pc = "dispatching" /\ current \in Calls /\ iteration \in Nat
        /\ \E ok \in BOOLEAN :
              steps' = Append(steps, [call |-> current, ok |-> ok])
        /\ UNCHANGED window
    BY <1>5 DEF ToolSucceeds, ToolFails, SuccessStep, FailureStep,
       ExecutorInv, ControlTypes
  <2>2. pc' # "dispatching"
    <3>1. CASE ToolSucceeds(n)
      <4>1. LoopHead(iteration + 1, stm')
        BY <3>1 DEF ToolSucceeds
      <4> QED
        BY <2>1, <4>1, LoopHeadShape
    <3>2. CASE ToolFails(n)
      BY <3>2 DEF ToolFails, Return, GoOn
    <3> QED
      BY <1>5, <3>1, <3>2
  <2>3. CallsOf(steps') = Append(CallsOf(steps), current)
    BY <1>0, <2>1, CallsAppended
  <2> QED
    BY <2>1, <2>2, <2>3, SameCalls DEF WithCurrent
<1>6. ASSUME NEW status \in {"committed", "failed"}, InsertEnds(status)
      PROVE  FloodInv'
  BY <1>6, SameCalls DEF InsertEnds, loopVars
<1>7. CASE InsertAnswered
  BY <1>7, SameCalls DEF InsertAnswered, Return, loopVars, WithCurrent
<1>8. CASE Deadline
  <2>1. /\ pc' = "done" /\ UNCHANGED <<steps, current, window>>
    BY <1>8 DEF Deadline, Return, loopVars
  <2>2. CASE pc = "dispatching"
    <3> USE MemoryAssumption, MessageSizes
    <3> DEFINE s == CallsOf(steps)
    <3>1. current \in Calls /\ s \in Seq(Calls)
      BY <1>0, <2>2, CallsOfTyped DEF ControlTypes
    <3>2. AgentMemory!FloodFree(Append(s, current))
      BY <2>2 DEF FloodInv, WithCurrent
    <3>3. /\ Append(s, current) \in Seq(Calls)
          /\ Len(s) <= Len(Append(s, current))
          /\ \A i \in 1..Len(s) : s[i] = Append(s, current)[i]
      BY <3>1
    <3>4. AgentMemory!FloodFree(s)
      BY <3>1, <3>2, <3>3, AgentMemory!FloodFreeFront
    <3> QED
      BY <2>1, <3>4 DEF FloodInv, WithCurrent
  <2>3. CASE pc # "dispatching"
    BY <2>1, <2>3, SameCalls DEF WithCurrent
  <2> QED
    BY <2>2, <2>3
<1>9. CASE UNCHANGED vars
  BY <1>9, SameCalls DEF vars, loopVars
<1> QED
  BY <1>1, <1>2, <1>3, <1>4, <1>5, <1>6, <1>7, <1>8, <1>9
     DEF Next, Answer, InsertStep

\* No call floods the executor: whatever the LLM asks for and however the
\* calls end, no call is dispatched more than RepeatThreshold times among any
\* Capacity consecutive ones.
THEOREM NoFloodOfOneCallHolds == Spec => []NoFloodOfOneCall
<1>1. Spec => []FloodInv
  BY FloodInit, FloodStep, ExecutorInvariant, PTL DEF Spec
<1>2. ExecutorInv /\ FloodInv => NoFloodOfOneCall
  BY FloodIsReported DEF ExecutorInv
<1> QED
  BY <1>1, <1>2, ExecutorInvariant, PTL

=============================================================================
