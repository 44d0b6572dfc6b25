--------------------------- MODULE TimeoutContext ---------------------------
(***************************************************************************)
(* The token tree of runtime/src/reliability/timeout.rs.  A token is made  *)
(* as a child of another; what a child token does is the library's:        *)
(* cancelling a token cancels its descendants, and a child of a cancelled  *)
(* token starts cancelled.                                                 *)
(***************************************************************************)
EXTENDS Naturals

CONSTANTS
    Steps, Tools,       \* the step and tool tokens a task may make
    TaskToken           \* task_token

ASSUME TokensAssumption ==
    Steps \cap Tools = {} /\ TaskToken \notin Steps \cup Tools

VARIABLES
    up,                 \* the token each token is a child of, itself if none
    level,              \* history: the step a tool call belongs to, the task
                        \* a step belongs to
    asked,              \* history: tokens on which cancel was called
    cancelled           \* tokens that are cancelled

timeoutVars == <<up, level, asked, cancelled>>

Tokens == {TaskToken} \cup Steps \cup Tools

Made == {t \in Tokens : up[t] # t} \cup {TaskToken}

\* t is at or below s in the tree f; three levels are all there are.
Below(f, t, s) == s \in {t, f[t], f[f[t]]}

-----------------------------------------------------------------------------

TimeoutInit ==
    /\ up = [t \in Tokens |-> t]
    /\ level = [t \in Tokens |-> t]
    /\ asked = {}
    /\ cancelled = {}

\* child_token: the library's.
ChildToken(t, s) ==
    /\ s \in Made /\ t \notin Made
    /\ up' = [up EXCEPT ![t] = s]
    /\ cancelled' = IF s \in cancelled THEN cancelled \cup {t} ELSE cancelled
    /\ UNCHANGED asked

NewStepToken(step) ==
    /\ ChildToken(step, TaskToken)
    /\ level' = [level EXCEPT ![step] = TaskToken]

\* Mutant: the tool's token hangs under the task.
NewToolTokenOfTask(tool, step) ==
    /\ step \in Made
    /\ ChildToken(tool, TaskToken)
    /\ level' = [level EXCEPT ![tool] = step]

NewToolToken(tool, step) ==
    /\ ChildToken(tool, step)
    /\ level' = [level EXCEPT ![tool] = step]

\* cancel of a token: the library's.
Cancelled(s) ==
    /\ s \in Made \ asked
    /\ asked' = asked \cup {s}
    /\ cancelled' = cancelled \cup {t \in Made : Below(up, t, s)}
    /\ UNCHANGED <<up, level>>

CancelTask == Cancelled(TaskToken)

TimeoutNext ==
    \/ \E step \in Steps : NewStepToken(step)
    \/ \E tool \in Tools, step \in Steps : NewToolToken(tool, step)
    \/ CancelTask
    \/ \E t \in Steps \cup Tools : Cancelled(t)

TimeoutSpec == TimeoutInit /\ [][TimeoutNext]_timeoutVars

-----------------------------------------------------------------------------

\* Type invariant.
TimeoutTypeOK ==
    /\ up \in [Tokens -> Tokens] /\ level \in [Tokens -> Tokens]
    /\ asked \subseteq Made /\ cancelled \subseteq Made

\* A tool call is cancelled exactly when it, its step or its task is, in
\* whatever order tokens are made and cancelled, and no other step or call is.
CancelReachesOwnLevels ==
    cancelled = {t \in Made : \E s \in asked : Below(level, t, s)}
=============================================================================
