---------------------------- MODULE ParallelTasks ----------------------------
(***************************************************************************)
(* PlanExecutor::execute_parallel of runtime/src/planning/executor.rs: one *)
(* task per subtask in a JoinSet, each an executor of its own under the    *)
(* default task deadline, and a parent that joins them.                    *)
(*                                                                         *)
(* A branch is a tokio task.  It is polled by a worker thread and runs, in *)
(* parallel with its parent, until a call to the LLM or to a tool has to   *)
(* wait; one that is answered at once, such as a dispatch the registry     *)
(* rejects, does not suspend it.  AgentTask says what its execution may    *)
(* return.  An abort takes effect between two polls.                       *)
(***************************************************************************)
EXTENDS Naturals, FiniteSets, Sequences, SequencesExt

CONSTANTS
    Subtasks,           \* subtasks: Vec<String>, one branch each
    TaskTimeout,        \* TimeoutConfig::default().task_timeout, in ticks
    CallBudget,         \* bound on the calls of one branch, see AgentTask
    OwnErrors           \* errors with which a branch may end before its deadline

\* PlanError.  Nothing returns Tool or ParallelBranchFailed, and JoinError is
\* the panic of a branch.
PlanErrors == {"MaxIterationsReached", "MaxReplansPerStep", "MaxReplansPerTask",
               "Ipc", "Tool", "ParallelBranchFailed", "JoinError", "Loop",
               "Timeout"}

ASSUME ParallelAssumption ==
    /\ IsFiniteSet(Subtasks)
    /\ TaskTimeout \in Nat \ {0} /\ CallBudget \in Nat
    /\ OwnErrors \subseteq
           PlanErrors \ {"Timeout", "Tool", "ParallelBranchFailed"}

VARIABLES
    branch,             \* control state of each branch
    aborted,            \* branches whose abort was asked for
    age,                \* time since execute() of the branch made its deadline
    calls,              \* calls each branch has made
    outcome,            \* what each branch ended with
    results,            \* the branches whose results the parent has pushed
    parent,             \* "spawning", "joining", "returned" or "dropped"
    answer              \* what execute_parallel returned

parallelVars ==
    <<branch, aborted, age, calls, outcome, results, parent, answer>>

Outcomes == {"Success", "Timeout"} \cup OwnErrors

\* PlanError::category.
Category(error) ==
    CASE error = "Timeout" -> "Timeout"
      [] error = "Loop" -> "Loop"
      [] error = "Tool" -> "ToolError"
      [] error = "Ipc" -> "IpcFailure"
      [] error \in {"MaxIterationsReached", "MaxReplansPerStep",
                    "MaxReplansPerTask"} -> "ResourceExhaustion"
      [] error \in {"JoinError", "ParallelBranchFailed"} -> "InternalError"

IsRetryable(error) == Category(error) \in {"Timeout", "ToolError", "IpcFailure"}

Gone == {"returned", "dropped"}
Stopped == {"ended", "joined", "cancelled"}

-----------------------------------------------------------------------------

ParallelInit ==
    /\ branch = [b \in Subtasks |-> "none"]
    /\ aborted = {}
    /\ age = [b \in Subtasks |-> 0]
    /\ calls = [b \in Subtasks |-> 0]
    /\ outcome = [b \in Subtasks |-> "none"]
    /\ results = <<>>
    /\ parent = "spawning"
    /\ answer = "none"

Moves(b, from, to) == branch[b] = from /\ branch' = [branch EXCEPT ![b] = to]

\* The loop over the subtasks has no await: branches start before it is done.
Spawn(b) ==
    /\ parent = "spawning"
    /\ Moves(b, "none", "ready")
    /\ UNCHANGED <<aborted, age, calls, outcome, results, parent, answer>>

AwaitBranches ==
    /\ parent = "spawning"
    /\ \A b \in Subtasks : branch[b] # "none"
    /\ parent' = "joining"
    /\ UNCHANGED <<branch, aborted, age, calls, outcome, results, answer>>

\* Mutant: an aborted branch ends like any other.
PollEnding(b) ==
    /\ Moves(b, "ready", IF b \in aborted THEN "ended" ELSE "running")
    /\ UNCHANGED <<aborted, age, calls, outcome, results, parent, answer>>

\* A worker polls a branch that is ready, or drops it if its abort was asked
\* for.
Poll(b) ==
    /\ Moves(b, "ready", IF b \in aborted THEN "cancelled" ELSE "running")
    /\ UNCHANGED <<aborted, age, calls, outcome, results, parent, answer>>

Ended(b, r) == outcome' = [outcome EXCEPT ![b] = r]

\* The select! of execute may look at the deadline before it runs the branch.
Expire(b) ==
    /\ b \notin aborted /\ age[b] >= TaskTimeout
    /\ Moves(b, "ready", "ended") /\ Ended(b, "Timeout")
    /\ UNCHANGED <<aborted, age, calls, results, parent, answer>>

\* A running branch makes its next call.  It goes on if the answer is there at
\* once, and suspends otherwise.  The select! may look at the deadline then, and
\* drop the call.
Call(b) ==
    /\ branch[b] = "running" /\ calls[b] < CallBudget
    /\ calls' = [calls EXCEPT ![b] = @ + 1]
    /\ \/ UNCHANGED <<branch, outcome>>
       \/ /\ age[b] < TaskTimeout
          /\ Moves(b, "running", IF b \in aborted THEN "cancelled" ELSE "waiting")
          /\ UNCHANGED outcome
       \/ /\ age[b] >= TaskTimeout
          /\ Moves(b, "running", "ended") /\ Ended(b, "Timeout")
    /\ UNCHANGED <<aborted, age, results, parent, answer>>

\* A branch that reaches its end while it runs ends with its own result, even
\* when its abort has been asked for.  Before its first call it can only panic
\* (a token budget of 0) or have no iteration to make.
End(b) ==
    /\ Moves(b, "running", "ended")
    /\ \E r \in Outcomes \ {"Timeout"} :
          /\ r \in {"JoinError", "MaxIterationsReached"} \/ calls[b] > 0
          /\ Ended(b, r)
    /\ UNCHANGED <<aborted, age, calls, results, parent, answer>>

\* Mutant: only the answer of its call wakes a branch.
WakeByAnswer(b) ==
    /\ age[b] < TaskTimeout
    /\ Moves(b, "waiting", "ready")
    /\ UNCHANGED <<aborted, age, calls, outcome, results, parent, answer>>

\* The call of the branch was answered, its deadline fired, or its abort was
\* asked for.
Wake(b) ==
    /\ Moves(b, "waiting", "ready")
    /\ UNCHANGED <<aborted, age, calls, outcome, results, parent, answer>>

Unjoined == {b \in Subtasks : branch[b] # "joined"}

\* Mutant: a branch that failed is left out of the results.
JoinAnyOutcome(b) ==
    /\ parent = "joining"
    /\ Moves(b, "ended", "joined")
    /\ results' = IF outcome[b] = "Success" THEN Append(results, b) ELSE results
    /\ UNCHANGED <<aborted, age, calls, outcome, parent, answer>>

\* join_next hands the parent any branch that has ended.
JoinSuccess(b) ==
    /\ parent = "joining"
    /\ outcome[b] = "Success"
    /\ Moves(b, "ended", "joined")
    /\ results' = Append(results, b)
    /\ UNCHANGED <<aborted, age, calls, outcome, parent, answer>>

\* Mutant: the other branches are detached instead of aborted.
JoinFailureDetaching(b) ==
    /\ parent = "joining"
    /\ outcome[b] # "Success"
    /\ Moves(b, "ended", "joined")
    /\ parent' = "returned" /\ answer' = outcome[b]
    /\ UNCHANGED <<aborted, age, calls, outcome, results>>

\* The two question marks return the first failure or panic that is joined,
\* and returning drops the JoinSet, which aborts the branches in it.
JoinFailure(b) ==
    /\ parent = "joining"
    /\ outcome[b] # "Success"
    /\ Moves(b, "ended", "joined")
    /\ parent' = "returned" /\ answer' = outcome[b]
    /\ aborted' = aborted \cup (Unjoined \ {b})
    /\ UNCHANGED <<age, calls, outcome, results>>

\* join_next answers None when the JoinSet is empty.
Collect ==
    /\ parent = "joining"
    /\ Unjoined = {}
    /\ parent' = "returned" /\ answer' = "Ok"
    /\ UNCHANGED <<branch, aborted, age, calls, outcome, results>>

\* The future of execute_parallel is dropped at its await.
DropParent ==
    /\ parent = "joining"
    /\ parent' = "dropped"
    /\ aborted' = aborted \cup Unjoined
    /\ UNCHANGED <<branch, age, calls, outcome, results, answer>>

\* The deadline is made when the branch is first polled.
Aging ==
    {b \in Subtasks : \/ branch[b] \in {"running", "waiting"}
                     \/ (branch[b] = "ready" /\ calls[b] > 0)}

PassTime ==
    /\ \E b \in Aging : age[b] < TaskTimeout
    /\ age' = [b \in Subtasks |-> IF b \in Aging /\ age[b] < TaskTimeout
                                  THEN age[b] + 1 ELSE age[b]]
    /\ UNCHANGED <<branch, aborted, calls, outcome, results, parent, answer>>

Branch(b) == Poll(b) \/ Expire(b) \/ Call(b) \/ End(b)

Join == (\E b \in Subtasks : JoinSuccess(b) \/ JoinFailure(b)) \/ Collect

\* The branch is woken by the runtime, not only by whom it calls.
MustWake(b) == (age[b] >= TaskTimeout \/ b \in aborted) /\ Wake(b)

ParallelNext ==
    \/ \E b \in Subtasks : Spawn(b) \/ Branch(b) \/ Wake(b)
    \/ AwaitBranches \/ Join \/ DropParent \/ PassTime

\* Workers poll what is ready, the code between two awaits ends, timers and
\* aborts wake their task, and time passes.  No call need be answered.
ParallelFairness ==
    /\ WF_parallelVars(\E b \in Subtasks : Spawn(b))
    /\ WF_parallelVars(AwaitBranches)
    /\ WF_parallelVars(Join)
    /\ WF_parallelVars(PassTime)
    /\ \A b \in Subtasks : WF_parallelVars(Branch(b)) /\ WF_parallelVars(MustWake(b))

ParallelSpec == ParallelInit /\ [][ParallelNext]_parallelVars

FairParallelSpec == ParallelSpec /\ ParallelFairness

-----------------------------------------------------------------------------

(***************************************************************************)
(* Properties                                                              *)
(***************************************************************************)

\* Type and representation invariant: a branch has an outcome exactly if it
\* ended by itself, and only a branch whose abort was asked for is cancelled.
ParallelTypeOK ==
    /\ branch \in [Subtasks -> {"none", "ready", "running", "waiting"} \cup Stopped]
    /\ aborted \subseteq Subtasks
    /\ age \in [Subtasks -> 0..TaskTimeout]
    /\ calls \in [Subtasks -> 0..CallBudget]
    /\ outcome \in [Subtasks -> Outcomes \cup {"none"}]
    /\ results \in Seq(Subtasks)
    /\ parent \in {"spawning", "joining"} \cup Gone
    /\ answer \in Outcomes \cup {"none", "Ok"}
    /\ \A b \in Subtasks :
          /\ outcome[b] # "none" <=> branch[b] \in {"ended", "joined"}
          /\ branch[b] = "cancelled" => b \in aborted

\* The caller of execute_parallel hears Ok exactly when every branch
\* succeeded, with the result of each of them once.  An error it hears is one
\* that a branch ended with on its own, never the abort of a branch, and an
\* error that is said to be retryable is of a branch that made a call.
AnswerIsOfBranches ==
    parent = "returned" =>
        IF answer = "Ok"
        THEN /\ \A b \in Subtasks : outcome[b] = "Success"
             /\ ToSet(results) = Subtasks
             /\ Len(results) = Cardinality(Subtasks)
        ELSE \E b \in Subtasks :
                /\ branch[b] = "joined" /\ outcome[b] = answer
                /\ IsRetryable(answer) => calls[b] > 0

\* Once execute_parallel has returned an error, or was dropped, no branch is
\* run again and only those that a worker is just running make calls: the ones
\* that are answered at once and the first that is not, with which their poll
\* ends.  The work of a failed plan stops though none of its branches is asked.
WorkStopsWithParent ==
    [][\A b \in Subtasks :
          parent \in Gone /\ branch[b] # "running" =>
              calls'[b] = calls[b] /\ branch'[b] # "running"]_parallelVars

\* execute_parallel returns or is dropped, and all branches stop for good, though
\* no call is ever answered.
ParallelEnds ==
    <>[](parent \in Gone /\ \A b \in Subtasks : branch[b] \in Stopped)

\* "Results are collected after all branches complete" (executor.rs:287): when
\* execute_parallel returns, no branch is still at work.
ReturnsAfterBranches ==
    parent = "returned" => \A b \in Subtasks : branch[b] \in Stopped
=============================================================================
