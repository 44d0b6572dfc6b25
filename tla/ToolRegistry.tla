---------------------------- MODULE ToolRegistry ----------------------------
(***************************************************************************)
(* The tool registry of runtime/src/tools/registry.rs: registration, and   *)
(* the dispatch of tool calls by concurrent tasks through one circuit      *)
(* breaker per tool, with input validation, a timeout and cancellation.    *)
(*                                                                         *)
(* execute_with_timeout has one await, the execution of the tool.  What    *)
(* comes before it is one action and what comes after it another; the      *)
(* operations of the breakers are atomic here, which module CircuitBreaker *)
(* justifies for one worker thread.                                        *)
(***************************************************************************)
EXTENDS Integers, FiniteSets

CONSTANTS
    Tasks,              \* the tasks that dispatch tool calls
    Names,              \* tool names, registered or not
    NoTool,             \* stands for no tool
    FailureThreshold,   \* CircuitBreakerConfig.failure_threshold
    RecoveryTimeout,    \* CircuitBreakerConfig.recovery_timeout, in ticks
    MaxSetBack          \* bound on how far the clock is set back, in ticks

ASSUME RegistryAssumption ==
    /\ NoTool \notin Names
    /\ FailureThreshold \in Nat
    /\ RecoveryTimeout \in Nat /\ MaxSetBack \in Nat

VARIABLES
    tools,              \* names of the registered tools
    breakers,           \* circuit_breakers: one per registered tool
    serving,            \* the registry is shared and no longer mutable
    executing,          \* the tool each task awaits, NoTool if none
    reply,              \* what the last dispatch of each task returned
    set_back,           \* how far the wall clock has been set back so far
    rested,             \* history: time each breaker has had since its last
                        \* failure, whatever the wall clock says
    failed              \* history: executions of each tool that failed since
                        \* it last succeeded, saturated at FailureThreshold

registryVars ==
    <<tools, breakers, serving, executing, reply, set_back, rested, failed>>

Replies == {"none", "Ok", "NotFound", "CircuitOpen", "InvalidInput",
            "ExecutionFailed", "Timeout"}

-----------------------------------------------------------------------------

(***************************************************************************)
(* The operations of a breaker, as CircuitBreakerFSM states them.          *)
(***************************************************************************)

\* The code compares the age of last_failure with recovery_timeout and nothing
\* else, so an age this large need not grow.
MaxAge == RecoveryTimeout + MaxSetBack

NewBreaker == [state |-> "Closed", failure_count |-> 0, age |-> MaxAge]

\* Mutant: the subtraction wraps when last_failure lies in the future.
CanExecuteWrapping(b) ==
    b.state # "Open" \/ b.age >= RecoveryTimeout \/ b.age < 0

\* The age is negative while the clock, set back, has not reached the time of
\* last_failure again; the saturating subtraction takes it for 0.
Elapsed(b) == IF b.age < 0 THEN 0 ELSE b.age

CanExecute(b) == b.state # "Open" \/ Elapsed(b) >= RecoveryTimeout

Admitted(b) == IF b.state = "Open" THEN [b EXCEPT !.state = "HalfOpen"] ELSE b

\* Mutant: a success takes one failure back instead of resetting the count.
AfterSuccessDecrement(b) ==
    IF b.state = "Open" THEN b
    ELSE [b EXCEPT !.state = "Closed", !.failure_count = @ - 1]

AfterSuccess(b) ==
    IF b.state = "Open" THEN b
    ELSE [b EXCEPT !.state = "Closed", !.failure_count = 0]

AfterFailure(b) ==
    LET count == b.failure_count + (IF b.state = "Closed" THEN 1 ELSE 0)
        trips == b.state # "Closed" \/ count >= FailureThreshold
    IN  [state |-> IF trips THEN "Open" ELSE "Closed",
         failure_count |-> count,
         age |-> 0]

Breaker(n) ==
    INSTANCE CircuitBreakerFSM
        WITH state <- breakers[n].state,
             failure_count <- breakers[n].failure_count,
             age <- IF rested[n] < RecoveryTimeout
                    THEN rested[n] ELSE RecoveryTimeout,
             MaxPause <- 0

-----------------------------------------------------------------------------

RegistryInit ==
    /\ tools = {}
    /\ breakers = [n \in Names |-> NewBreaker]
    /\ serving = FALSE
    /\ executing = [t \in Tasks |-> NoTool]
    /\ reply = [t \in Tasks |-> "none"]
    /\ set_back = 0
    /\ rested = [n \in Names |-> MaxAge]
    /\ failed = [n \in Names |-> 0]

\* register needs a mutable registry.  A name that is taken is an error and
\* leaves its tool and its breaker alone.
Register(n) ==
    /\ ~serving
    /\ n \notin tools
    /\ tools' = tools \cup {n}
    /\ breakers' = [breakers EXCEPT ![n] = NewBreaker]
    /\ UNCHANGED <<serving, executing, reply, set_back, rested, failed>>

\* The registry is wrapped in an Arc and handed to the executors.
Share ==
    /\ ~serving
    /\ serving' = TRUE
    /\ UNCHANGED <<tools, breakers, executing, reply, set_back, rested, failed>>

Idle(t) == serving /\ executing[t] = NoTool

Replied(t, r) == reply' = [reply EXCEPT ![t] = r]

RejectUnknown(t, n) ==
    /\ Idle(t)
    /\ n \notin tools
    /\ Replied(t, "NotFound")
    /\ UNCHANGED <<tools, breakers, serving, executing, set_back, rested, failed>>

RejectOpen(t, n) ==
    /\ Idle(t)
    /\ n \in tools /\ ~CanExecute(breakers[n])
    /\ Replied(t, "CircuitOpen")
    /\ UNCHANGED <<tools, breakers, serving, executing, set_back, rested, failed>>

\* The breaker is asked before the input is validated, so an invalid input can
\* take an Open breaker to HalfOpen.  It reports nothing to the breaker.
RejectInvalid(t, n) ==
    /\ Idle(t)
    /\ n \in tools /\ CanExecute(breakers[n])
    /\ breakers' = [breakers EXCEPT ![n] = Admitted(@)]
    /\ Replied(t, "InvalidInput")
    /\ UNCHANGED <<tools, serving, executing, set_back, rested, failed>>

Execute(t, n) ==
    /\ Idle(t)
    /\ n \in tools /\ CanExecute(breakers[n])
    /\ breakers' = [breakers EXCEPT ![n] = Admitted(@)]
    /\ executing' = [executing EXCEPT ![t] = n]
    /\ Replied(t, "none")
    /\ UNCHANGED <<tools, serving, set_back, rested, failed>>

\* The task's future leaves the await of the tool.
Resumed(t) ==
    /\ executing[t] # NoTool
    /\ executing' = [executing EXCEPT ![t] = NoTool]

Succeed(t) ==
    /\ Resumed(t)
    /\ breakers' = [breakers EXCEPT ![executing[t]] = AfterSuccess(@)]
    /\ failed' = [failed EXCEPT ![executing[t]] = 0]
    /\ Replied(t, "Ok")
    /\ UNCHANGED <<tools, serving, set_back, rested>>

\* The tool returned an error, or the timeout dropped its future.
Fail(t, r) ==
    /\ Resumed(t)
    /\ breakers' = [breakers EXCEPT ![executing[t]] = AfterFailure(@)]
    /\ failed' = [failed EXCEPT ![executing[t]] =
                    IF @ < FailureThreshold THEN @ + 1 ELSE @]
    /\ rested' = [rested EXCEPT ![executing[t]] = 0]
    /\ Replied(t, r)
    /\ UNCHANGED <<tools, serving, set_back>>

\* Mutant: a cancelled call counts as a failure of the tool.
CancelCounting(t) ==
    /\ Resumed(t)
    /\ breakers' = [breakers EXCEPT ![executing[t]] = AfterFailure(@)]
    /\ Replied(t, "none")
    /\ UNCHANGED <<tools, serving, set_back, rested, failed>>

\* The task is dropped at the await: its deadline fired, or the JoinSet that
\* owns it was dropped.  Neither record operation runs.
Cancel(t) ==
    /\ Resumed(t)
    /\ Replied(t, "none")
    /\ UNCHANGED <<tools, breakers, serving, set_back, rested, failed>>

Older(x) == IF x < MaxAge THEN x + 1 ELSE x

Tick ==
    /\ \E n \in tools : breakers[n].age < MaxAge
    /\ breakers' = [n \in Names |->
                      [breakers[n] EXCEPT !.age = Older(@)]]
    /\ rested' = [n \in Names |-> Older(rested[n])]
    /\ UNCHANGED <<tools, serving, executing, reply, set_back, failed>>

\* The wall clock is set back.  An age at its bound stands for any larger one;
\* as the bound allows for all that the clock is set back, such an age stays
\* beyond the timeout.
ClockSetBack ==
    /\ serving /\ set_back < MaxSetBack
    /\ set_back' = set_back + 1
    /\ breakers' = [n \in Names |-> [breakers[n] EXCEPT !.age = @ - 1]]
    /\ UNCHANGED <<tools, serving, executing, reply, rested, failed>>

DispatchStep(t) ==
    \/ \E n \in Names : \/ RejectUnknown(t, n) \/ RejectOpen(t, n)
                        \/ RejectInvalid(t, n) \/ Execute(t, n)
    \/ Succeed(t)
    \/ \E r \in {"InvalidInput", "ExecutionFailed", "Timeout"} : Fail(t, r)
    \/ Cancel(t)

RegistryNext ==
    \/ \E n \in Names : Register(n)
    \/ Share
    \/ \E t \in Tasks : DispatchStep(t)
    \/ Tick \/ ClockSetBack

RegistrySpec == RegistryInit /\ [][RegistryNext]_registryVars

-----------------------------------------------------------------------------

(***************************************************************************)
(* Properties                                                              *)
(***************************************************************************)

\* What the breakers take for the time since a failure is never more than the
\* real time, and less by at most what the clock was set back.
SetBackOnlyDelays ==
    \A n \in Names : /\ breakers[n].age <= rested[n]
                     /\ rested[n] <= breakers[n].age + set_back

\* Type and representation invariant.
RegistryTypeOK ==
    /\ tools \subseteq Names
    /\ breakers \in [Names -> [state : {"Closed", "Open", "HalfOpen"},
                               failure_count : Nat,
                               age : (-MaxSetBack)..MaxAge]]
    /\ serving \in BOOLEAN
    /\ executing \in [Tasks -> Names \cup {NoTool}]
    /\ reply \in [Tasks -> Replies]
    /\ set_back \in 0..MaxSetBack
    /\ rested \in [Names -> 0..MaxAge]
    /\ failed \in [Names -> 0..FailureThreshold]
    /\ SetBackOnlyDelays

\* Every breaker of the registry is used as the sequential machine, with the
\* dispatches, timeouts and cancellations of all tasks interleaved, and the time
\* the machine rests after a failure is real: no setting back of the wall clock
\* lets a probe through before recovery_timeout has passed.
BreakersImplementFSM ==
    /\ \A n \in Names : Breaker(n)!Init
    /\ [][\A n \in Names : [Breaker(n)!Next]_(Breaker(n)!vars)]_registryVars

\* A breaker that leaves Closed does so at the end of FailureThreshold failed
\* executions of its own tool in a row.
TripsOnlyFailingTools ==
    [][\A n \in Names :
        breakers[n].state = "Closed" /\ breakers'[n].state # "Closed"
            => failed'[n] = FailureThreshold]_registryVars
=============================================================================
