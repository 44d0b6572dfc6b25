----------------------------- MODULE AgentTask -----------------------------
(***************************************************************************)
(* What the caller of PlanExecutor::execute and the readers of the         *)
(* episodic log may rely on, whatever the LLM, the tools, the database and *)
(* the clock do: the task dispatches a bounded number of tool calls, ends  *)
(* with one result, and leaves at most one row in the episodic log, which  *)
(* agrees with the result unless the task deadline hid it.                 *)
(***************************************************************************)
EXTENDS Naturals

CONSTANT DispatchBudget     \* tool calls a task may finish

VARIABLES
    result,                 \* "none" until the task ends
    row,                    \* "none", "success" or "failure"
    dispatched              \* tool calls finished

vars == <<result, row, dispatched>>

Results == {"Success", "MaxIterationsReached", "MaxReplansPerStep",
            "MaxReplansPerTask", "Ipc", "Loop", "Timeout"}

Init == result = "none" /\ row = "none" /\ dispatched = 0

\* A tool call finishes, maybe ending the task by exhausting a limit.
FinishCall ==
    /\ result = "none" /\ row = "none"
    /\ dispatched < DispatchBudget
    /\ dispatched' = dispatched + 1
    /\ result' \in {"none", "MaxReplansPerStep", "MaxReplansPerTask",
                    "MaxIterationsReached"}
    /\ UNCHANGED row

\* The row is appended before the result is known, or after a timeout that
\* fired while the row was being written.
AppendRow ==
    /\ row = "none"
    /\ result \in {"none", "Timeout"}
    /\ row' \in {"success", "failure"}
    /\ UNCHANGED <<result, dispatched>>

End ==
    /\ result = "none"
    /\ result' \in Results
    /\ row = "success" => result' \in {"Success", "Timeout"}
    /\ row = "failure" => result' \in {"MaxIterationsReached", "Timeout"}
    /\ UNCHANGED <<row, dispatched>>

Next == FinishCall \/ AppendRow \/ End

Spec == Init /\ [][Next]_vars
=============================================================================
