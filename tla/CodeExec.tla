------------------------------ MODULE CodeExec ------------------------------
(***************************************************************************)
(* One execution of the code_exec tool                                     *)
(* (runtime/src/tools/code_exec.rs): the life of its Docker container,     *)
(* under the tool's own timeout, the registry's timeout and the            *)
(* cancellation of the task that awaits it.                                *)
(*                                                                         *)
(* The tool is a future suspended at its requests to the Docker daemon.    *)
(* A timeout drops the future, or the part of it inside run_container, at  *)
(* such a request; the daemon may still serve a request nobody awaits.     *)
(***************************************************************************)
EXTENDS Integers

CONSTANT ExitCodes      \* exit codes of the code, 137 (OOM kill) among them

ASSUME ExitCodesAssumption == 137 \in ExitCodes /\ ExitCodes \subseteq 0..255

VARIABLES
    pc,             \* the request or stream the tool awaits
    request,        \* the last request: in flight, "served" or "broken"
    orphan,         \* a start request nobody awaits may still be served
    container,      \* the container, in the daemon
    exit_code,      \* of the exited container
    stream,         \* history: the log stream "ended" or was "broken"
    inspected,      \* the exit code in the daemon's answer to inspect
    container_id,   \* the tool knows the id of its container
    outcome,        \* result of run_container
    reported,       \* the exit code in a result Ok of run_container
    removal,        \* "none", "removed" or "failed": what the tool was told
    result,         \* what execute_with_timeout returned
    dropped         \* history: the tool's future was dropped

codeVars == <<pc, request, orphan, container, exit_code, stream, inspected,
              container_id, outcome, reported, removal, result, dropped>>

Operations == {"create", "start", "inspect", "remove"}

\* The awaits of execute, and those inside run_container.
RunPoints == {"start", "logs", "inspect"}
Awaits == {"create", "remove"} \cup RunPoints

NoExit == 256           \* stands for no exit code

\* What inspect shows of a container that has not exited: exit_code Some(0).
RunningExitCode == 0

OomKilled == 137

EXIT_CODE_UNKNOWN == -1

-----------------------------------------------------------------------------

CodeExecInit ==
    /\ pc = "idle"
    /\ request = "none"
    /\ orphan = FALSE
    /\ container = "absent"
    /\ exit_code = NoExit
    /\ stream = "none"
    /\ inspected = NoExit
    /\ container_id = FALSE
    /\ outcome = "none"
    /\ reported = NoExit
    /\ removal = "none"
    /\ result = "none"
    /\ dropped = FALSE

\* A request is sent once the one before it was answered.
Ask(op) == pc' = op /\ request' = op

Finish(r) == pc' = "done" /\ result' = r

\* Steps 1 to 3 of execute: an unsupported language or an unreachable daemon
\* ends it before anything exists.
Refuse ==
    /\ pc = "idle"
    /\ \E r \in {"InvalidInput", "ExecutionFailed"} : Finish(r)
    /\ UNCHANGED <<request, orphan, container, exit_code, stream, inspected,
                   container_id, outcome, reported, removal, dropped>>

Create ==
    /\ pc = "idle"
    /\ Ask("create")
    /\ UNCHANGED <<orphan, container, exit_code, stream, inspected,
                   container_id, outcome, reported, removal, result, dropped>>

-----------------------------------------------------------------------------

(***************************************************************************)
(* The daemon and the container.  External: modelled from how the tool     *)
(* uses them.                                                              *)
(***************************************************************************)

\* The daemon serves the request in flight.  The answer reaches the tool if
\* the tool still awaits it.
Serve ==
    /\ request \in Operations
    /\ container' = CASE request = "create" -> "created"
                      [] request = "start" /\ container = "created" -> "running"
                      [] request = "remove" -> "removed"
                      [] OTHER -> container
    /\ IF request = "inspect"
       THEN inspected' \in {IF container = "exited" THEN exit_code
                            ELSE RunningExitCode, NoExit}
       ELSE UNCHANGED inspected
    /\ request' = "served"
    /\ UNCHANGED <<pc, orphan, exit_code, stream, container_id, outcome,
                   reported, removal, result, dropped>>

\* The daemon refuses the request, or the connection breaks before or after
\* the request was served.
Break ==
    /\ request \in Operations \cup {"served"}
    /\ request' = "broken"
    /\ UNCHANGED <<pc, orphan, container, exit_code, stream, inspected,
                   container_id, outcome, reported, removal, result, dropped>>

\* The daemon gets to a start request that the tool's timeout dropped.  There
\* is nothing to start once the container is removed.
ServeOrphan ==
    /\ orphan
    /\ orphan' = FALSE
    /\ container' = IF container = "created" THEN "running" ELSE container
    /\ UNCHANGED <<pc, request, exit_code, stream, inspected, container_id,
                   outcome, reported, removal, result, dropped>>

\* The code ends, or is killed at its memory limit.
Exit ==
    /\ container = "running"
    /\ container' = "exited"
    /\ exit_code' \in ExitCodes
    /\ UNCHANGED <<pc, request, orphan, stream, inspected, container_id,
                   outcome, reported, removal, result, dropped>>

-----------------------------------------------------------------------------

(***************************************************************************)
(* The tool.                                                               *)
(***************************************************************************)

CreateAnswered ==
    /\ pc = "create"
    /\ \/ /\ request = "served"
          /\ container_id' = TRUE
          /\ Ask("start")
          /\ UNCHANGED result
       \/ /\ request = "broken"
          /\ Finish("ExecutionFailed")
          /\ UNCHANGED <<request, container_id>>
    /\ UNCHANGED <<orphan, container, exit_code, stream, inspected, outcome,
                   reported, removal, dropped>>

\* run_container returns, and execute goes on to the removal.
RunEnds(o) ==
    /\ outcome' = o
    /\ Ask("remove")

\* Mutant: an error of the start request is returned at once.
StartAnsweredEarly ==
    /\ pc = "start"
    /\ \/ /\ request = "served"
          /\ pc' = "logs" /\ request' = "none"
          /\ UNCHANGED result
       \/ /\ request = "broken"
          /\ Finish("ExecutionFailed")
          /\ UNCHANGED request
    /\ UNCHANGED <<orphan, container, exit_code, stream, inspected,
                   container_id, outcome, reported, removal, dropped>>

\* The log stream is opened by the first poll of the loop.
StartAnswered ==
    /\ pc = "start"
    /\ \/ /\ request = "served"
          /\ pc' = "logs" /\ request' = "none"
          /\ UNCHANGED outcome
       \/ /\ request = "broken"
          /\ RunEnds("ExecutionFailed")
    /\ UNCHANGED <<orphan, container, exit_code, stream, inspected,
                   container_id, reported, removal, result, dropped>>

\* The loop over the log goes on after an error and ends with the stream, which
\* a broken connection ends before the container has exited.
LogsBreak ==
    /\ pc = "logs"
    /\ stream' = "broken"
    /\ Ask("inspect")
    /\ UNCHANGED <<orphan, container, exit_code, inspected, container_id,
                   outcome, reported, removal, result, dropped>>

\* A followed log ends when its container has exited.
LogsEnd ==
    /\ pc = "logs"
    /\ container = "exited"
    /\ stream' = "ended"
    /\ Ask("inspect")
    /\ UNCHANGED <<orphan, container, exit_code, inspected, container_id,
                   outcome, reported, removal, result, dropped>>

\* Mutant: an exit code that the daemon does not tell is taken to be 0.
InspectAnsweredDefaulting ==
    /\ pc = "inspect"
    /\ LET code == IF inspected = NoExit THEN 0 ELSE inspected
       IN  \/ /\ request = "served" /\ code # OomKilled
              /\ RunEnds("Ok") /\ reported' = code
           \/ /\ \/ request = "broken"
                 \/ request = "served" /\ code = OomKilled
              /\ RunEnds("ExecutionFailed") /\ UNCHANGED reported
    /\ UNCHANGED <<orphan, container, exit_code, stream, inspected,
                   container_id, removal, result, dropped>>

\* The daemon may not tell a state or an exit code.
InspectAnswered ==
    /\ pc = "inspect"
    /\ LET code == IF inspected = NoExit THEN EXIT_CODE_UNKNOWN ELSE inspected
       IN  \/ /\ request = "served" /\ code # OomKilled
              /\ RunEnds("Ok") /\ reported' = code
           \/ /\ \/ request = "broken"
                 \/ request = "served" /\ code = OomKilled
              /\ RunEnds("ExecutionFailed") /\ UNCHANGED reported
    /\ UNCHANGED <<orphan, container, exit_code, stream, inspected,
                   container_id, removal, result, dropped>>

\* Mutant: the timeout does not cover the log stream.
ToolTimeoutOfRequests ==
    /\ pc \in RunPoints \ {"logs"}
    /\ RunEnds("ExecutionFailed")
    /\ orphan' = (request = "start")
    /\ UNCHANGED <<container, exit_code, stream, inspected, container_id,
                   reported, removal, result, dropped>>

\* The timeout of run_container drops run_container_inner, and with it the
\* request it awaits.  The removal follows.
ToolTimeout ==
    /\ pc \in RunPoints
    /\ RunEnds("ExecutionFailed")
    /\ orphan' = (request = "start")
    /\ UNCHANGED <<container, exit_code, stream, inspected, container_id,
                   reported, removal, result, dropped>>

\* A failed removal is logged and the outcome of the run is returned.
RemoveAnswered ==
    /\ pc = "remove"
    /\ request \in {"served", "broken"}
    /\ removal' = IF request = "served" THEN "removed" ELSE "failed"
    /\ Finish(outcome)
    /\ UNCHANGED <<request, orphan, container, exit_code, stream, inspected,
                   container_id, outcome, reported, dropped>>

\* The registry's timeout, or the end of the awaiting task, drops the whole
\* future of execute at its await.
Drop ==
    /\ pc \in Awaits
    /\ \E r \in {"Timeout", "Cancelled"} : Finish(r)
    /\ dropped' = TRUE
    /\ UNCHANGED <<request, orphan, container, exit_code, stream, inspected,
                   container_id, outcome, reported, removal>>

RequestAnswered ==
    CreateAnswered \/ StartAnswered \/ InspectAnswered \/ RemoveAnswered

Daemon == Serve \/ Break

CodeExecNext ==
    \/ Refuse \/ Create
    \/ RequestAnswered \/ LogsBreak \/ LogsEnd \/ ToolTimeout \/ Drop
    \/ Daemon \/ ServeOrphan \/ Exit

CodeExecSpec == CodeExecInit /\ [][CodeExecNext]_codeVars

\* The daemon serves or breaks every request, the tool is polled when it has an
\* answer, and the timer of run_container runs.  The code need not end.
CodeExecFairness ==
    /\ WF_codeVars(Daemon)
    /\ WF_codeVars(RequestAnswered)
    /\ WF_codeVars(ToolTimeout)

-----------------------------------------------------------------------------

(***************************************************************************)
(* Properties                                                              *)
(***************************************************************************)

\* Type invariant.
CodeExecTypeOK ==
    /\ pc \in {"idle", "done"} \cup Awaits
    /\ request \in {"none", "served", "broken"} \cup Operations
    /\ container \in {"absent", "created", "running", "exited", "removed"}
    /\ orphan \in BOOLEAN
    /\ exit_code \in ExitCodes \cup {NoExit}
    /\ stream \in {"none", "ended", "broken"}
    /\ inspected \in ExitCodes \cup {NoExit, RunningExitCode}
    /\ container_id \in BOOLEAN
    /\ outcome \in {"none", "Ok", "ExecutionFailed"}
    /\ reported \in ExitCodes \cup {NoExit, RunningExitCode, EXIT_CODE_UNKNOWN}
    /\ removal \in {"none", "removed", "failed"}
    /\ result \in {"none", "Ok", "ExecutionFailed", "InvalidInput", "Timeout",
                   "Cancelled"}
    /\ dropped \in BOOLEAN

\* Every path of execute that returns on its own, the timeout of the tool and
\* the errors of start, logs and inspect included, returns after the daemon
\* removed the container, or after it reported that it could not, or before a
\* container exists.  The one exception is a create request whose answer is
\* lost: the tool never learns the id, and the container stays, though it is
\* never started (code_exec.rs:232-237).
ReturnsAfterCleanup ==
    pc = "done" /\ ~dropped =>
        \/ removal = "removed" /\ container = "removed"
        \/ removal = "failed"
        \/ ~container_id /\ container = "absent"
        \/ ~container_id /\ container = "created" /\ request = "broken"

\* The exit code of a reported success is the one the code ended with, and not
\* that of an OOM kill.  Two codes are not told by the container: -1, which says
\* so, and 0 after a log stream that broke, where the inspected container may
\* still be running (code_exec.rs:318, 332).
ReportsTrueExit ==
    result = "Ok" =>
        /\ reported \notin {RunningExitCode, EXIT_CODE_UNKNOWN} => reported = exit_code
        /\ stream = "ended" /\ reported # EXIT_CODE_UNKNOWN =>
              reported = exit_code /\ exit_code # OomKilled

\* Code that never ends is stopped by the tool's timeout, unless the future is
\* dropped from outside or the daemon fails a request.
RunawayCodeIsStopped ==
    container = "running" ~>
        container # "running" \/ dropped \/ removal = "failed"

-----------------------------------------------------------------------------

\* "After streaming logs with follow=true, the container has already exited. We
\* inspect the container to get the final exit code": an exit code that is
\* reported as known is the one the code ended with, however its log ended.
ReportsFinalExit ==
    result = "Ok" /\ reported # EXIT_CODE_UNKNOWN => reported = exit_code

\* "Automatic container cleanup on every exit path": once nothing is in flight
\* any more, a dropped execution has left no container behind.
DroppedRunsAreCleanedUp ==
    dropped /\ request \in {"none", "served", "broken"}
        => container \in {"absent", "removed"}
=============================================================================
