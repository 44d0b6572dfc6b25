--------------------------- MODULE CircuitBreaker ---------------------------
(***************************************************************************)
(* The circuit breaker of runtime/src/reliability/circuit_breaker.rs, one  *)
(* action per atomic instruction, called by concurrent dispatches of the   *)
(* tool registry (runtime/src/tools/registry.rs).                          *)
(*                                                                         *)
(* Callers are tokio tasks.  The operations of the breaker contain no      *)
(* await, so a task inside one keeps its worker thread until the operation *)
(* returns: at most Workers callers are inside an operation at any time.   *)
(* A task whose tool call is running is suspended and holds no worker.     *)
(*                                                                         *)
(* The atomics are interleaved sequentially consistently.                  *)
(***************************************************************************)
EXTENDS Naturals, FiniteSets

CONSTANTS
    Callers,            \* the tasks that dispatch to this tool
    Workers,            \* worker threads of the tokio runtime
    FailureThreshold,   \* config.failure_threshold
    RecoveryTimeout,    \* config.recovery_timeout, in ticks
    MaxPause            \* bound: ticks a thread may be preempted between
                        \* reading the clock and using what it read

ASSUME CallersAssumption == IsFiniteSet(Callers)
ASSUME WorkersAssumption == Workers \in Nat \ {0}
ASSUME ThresholdAssumption == FailureThreshold \in Nat
ASSUME TimeoutAssumption == RecoveryTimeout \in Nat
ASSUME PauseAssumption == MaxPause \in Nat \ {0}

VARIABLES
    state,              \* state: AtomicU8
    failure_count,      \* failure_count: AtomicUsize
    age,                \* now - last_failure, saturated at MaxAge
    pc,                 \* where each caller is
    stamp,              \* age of the clock value each caller holds, 0 once used
    streak              \* history: failed calls since the last successful
                        \* one, saturated at FailureThreshold

vars == <<state, failure_count, age, pc, stamp, streak>>

States == {"Closed", "Open", "HalfOpen"}

\* Both differences the code takes with the clock stay exact below MaxAge.
MaxAge == RecoveryTimeout + MaxPause

\* Program points inside can_execute, record_success and record_failure.
CanExecutePoints == {"reset_clock", "reset_check", "reset_store"}
SuccessPoints == {"success_load", "success_close", "success_zero"}
FailurePoints == {"failure_clock", "failure_stamp", "failure_load",
                  "failure_count", "failure_open"}
OperationPoints == CanExecutePoints \cup SuccessPoints \cup FailurePoints

\* Points at which a caller holds a clock value it has yet to use.
ClockPoints == {"reset_check", "failure_stamp"}

\* An admitted call is in flight: admitted by a Closed breaker, or by one that
\* was HalfOpen or turned HalfOpen for it.
InFlightPoints == {"calling", "probing"}

Points == {"idle"} \cup InFlightPoints \cup OperationPoints

Busy == {c \in Callers : pc[c] \in OperationPoints}

\* A task needs a free worker to be polled.
WorkerFree == Cardinality(Busy) < Workers

Goto(c, from, to) ==
    /\ pc[c] = from
    /\ pc' = [pc EXCEPT ![c] = to]

-----------------------------------------------------------------------------

Init ==
    /\ state = "Closed"
    /\ failure_count = 0
    /\ age = MaxAge
    /\ pc = [c \in Callers |-> "idle"]
    /\ stamp = [c \in Callers |-> 0]
    /\ streak = 0

\* can_execute, the load of state and the match on it.
CanExecute(c) ==
    /\ WorkerFree
    /\ \/ /\ state = "Closed"
          /\ Goto(c, "idle", "calling")
       \/ /\ state = "HalfOpen"
          /\ Goto(c, "idle", "probing")
       \/ /\ state = "Open"
          /\ Goto(c, "idle", "reset_clock")
    /\ UNCHANGED <<state, failure_count, age, stamp, streak>>

\* should_attempt_reset reads the clock, then loads last_failure.
ReadResetClock(c) ==
    /\ Goto(c, "reset_clock", "reset_check")
    /\ stamp' = [stamp EXCEPT ![c] = 0]
    /\ UNCHANGED <<state, failure_count, age, streak>>

\* now.saturating_sub(last_failure) >= recovery_timeout, with a now that is
\* stamp[c] ticks old by the time last_failure is loaded.
CooledDown(c) == RecoveryTimeout = 0 \/ age >= stamp[c] + RecoveryTimeout

\* Mutant: a rejected caller restarts the cooldown.
AttemptResetRestarting(c) ==
    /\ IF CooledDown(c)
       THEN Goto(c, "reset_check", "reset_store") /\ UNCHANGED age
       ELSE Goto(c, "reset_check", "idle") /\ age' = 0
    /\ stamp' = [stamp EXCEPT ![c] = 0]
    /\ UNCHANGED <<state, failure_count, streak>>

AttemptReset(c) ==
    /\ IF CooledDown(c)
       THEN Goto(c, "reset_check", "reset_store")
       ELSE Goto(c, "reset_check", "idle")
    /\ stamp' = [stamp EXCEPT ![c] = 0]
    /\ UNCHANGED <<state, failure_count, age, streak>>

\* The store does not compare: it overwrites whatever state is by now.
StoreHalfOpen(c) ==
    /\ Goto(c, "reset_store", "probing")
    /\ state' = "HalfOpen"
    /\ UNCHANGED <<failure_count, age, stamp, streak>>

-----------------------------------------------------------------------------

\* The admitted call ends without either record operation: its input fails
\* validation, or the task that awaits it is cancelled.
Abandon(c) ==
    /\ \E p \in InFlightPoints : Goto(c, p, "idle")
    /\ UNCHANGED <<state, failure_count, age, stamp, streak>>

\* The tool returned a result and its task is polled again.
ToolSucceeds(c) ==
    /\ WorkerFree
    /\ \E p \in InFlightPoints : Goto(c, p, "success_load")
    /\ streak' = 0
    /\ UNCHANGED <<state, failure_count, age, stamp>>

\* The tool returned an error or ran into its timeout.
ToolFails(c) ==
    /\ WorkerFree
    /\ \E p \in InFlightPoints : Goto(c, p, "failure_clock")
    /\ streak' = IF streak < FailureThreshold THEN streak + 1 ELSE streak
    /\ UNCHANGED <<state, failure_count, age, stamp>>

-----------------------------------------------------------------------------

\* Mutant: a successful probe does not close the breaker.
SuccessLoadStaying(c) ==
    /\ IF state = "Closed"
       THEN Goto(c, "success_load", "success_zero")
       ELSE Goto(c, "success_load", "idle")
    /\ UNCHANGED <<state, failure_count, age, stamp, streak>>

SuccessLoad(c) ==
    /\ \/ /\ state = "Closed"
          /\ Goto(c, "success_load", "success_zero")
       \/ /\ state = "HalfOpen"
          /\ Goto(c, "success_load", "success_close")
       \/ /\ state = "Open"
          /\ Goto(c, "success_load", "idle")
    /\ UNCHANGED <<state, failure_count, age, stamp, streak>>

\* Mutant: closing after a probe leaves the count as it was.
SuccessCloseOnly(c) ==
    /\ Goto(c, "success_close", "idle")
    /\ state' = "Closed"
    /\ UNCHANGED <<failure_count, age, stamp, streak>>

SuccessClose(c) ==
    /\ Goto(c, "success_close", "success_zero")
    /\ state' = "Closed"
    /\ UNCHANGED <<failure_count, age, stamp, streak>>

\* Mutant: a success takes one failure back instead of resetting the count.
SuccessZeroDecrement(c) ==
    /\ Goto(c, "success_zero", "idle")
    /\ failure_count' = failure_count - 1
    /\ UNCHANGED <<state, age, stamp, streak>>

SuccessZero(c) ==
    /\ Goto(c, "success_zero", "idle")
    /\ failure_count' = 0
    /\ UNCHANGED <<state, age, stamp, streak>>

ReadFailureClock(c) ==
    /\ Goto(c, "failure_clock", "failure_stamp")
    /\ stamp' = [stamp EXCEPT ![c] = 0]
    /\ UNCHANGED <<state, failure_count, age, streak>>

\* last_failure is stored before state is looked at, in every state.
StampFailure(c) ==
    /\ Goto(c, "failure_stamp", "failure_load")
    /\ age' = stamp[c]
    /\ stamp' = [stamp EXCEPT ![c] = 0]
    /\ UNCHANGED <<state, failure_count, streak>>

\* Mutant: a failed probe is counted like a failure in Closed.
FailureLoadCounting(c) ==
    /\ IF state = "Open"
       THEN Goto(c, "failure_load", "idle")
       ELSE Goto(c, "failure_load", "failure_count")
    /\ UNCHANGED <<state, failure_count, age, stamp, streak>>

FailureLoad(c) ==
    /\ \/ /\ state = "Closed"
          /\ Goto(c, "failure_load", "failure_count")
       \/ /\ state = "HalfOpen"
          /\ Goto(c, "failure_load", "failure_open")
       \/ /\ state = "Open"
          /\ Goto(c, "failure_load", "idle")
    /\ UNCHANGED <<state, failure_count, age, stamp, streak>>

CountFailure(c) ==
    /\ failure_count' = failure_count + 1
    /\ IF failure_count' >= FailureThreshold
       THEN Goto(c, "failure_count", "failure_open")
       ELSE Goto(c, "failure_count", "idle")
    /\ UNCHANGED <<state, age, stamp, streak>>

StoreOpen(c) ==
    /\ Goto(c, "failure_open", "idle")
    /\ state' = "Open"
    /\ UNCHANGED <<failure_count, age, stamp, streak>>

-----------------------------------------------------------------------------

\* One tick of the clock, for last_failure and for every clock value a caller
\* still holds.  A caller that has held one for MaxPause ticks goes first.
Tick ==
    /\ \A c \in Callers : pc[c] \in ClockPoints => stamp[c] < MaxPause
    /\ age' = IF age < MaxAge THEN age + 1 ELSE age
    /\ stamp' = [c \in Callers |->
                    IF pc[c] \in ClockPoints THEN stamp[c] + 1 ELSE stamp[c]]
    /\ UNCHANGED <<state, failure_count, pc, streak>>

\* The steps of a caller that is inside an operation.
OperationStep(c) ==
    \/ ReadResetClock(c) \/ AttemptReset(c) \/ StoreHalfOpen(c)
    \/ SuccessLoad(c) \/ SuccessClose(c) \/ SuccessZero(c)
    \/ ReadFailureClock(c) \/ StampFailure(c) \/ FailureLoad(c)
    \/ CountFailure(c) \/ StoreOpen(c)

\* The end of an admitted call.
CallEnds(c) == Abandon(c) \/ ToolSucceeds(c) \/ ToolFails(c)

Next ==
    \/ \E c \in Callers : CanExecute(c) \/ CallEnds(c) \/ OperationStep(c)
    \/ Tick

Spec == Init /\ [][Next]_vars

\* The OS runs every worker thread, time passes, and every admitted call ends
\* because the registry puts a timeout on it.  Nothing makes a caller call.
Fairness ==
    /\ \A c \in Callers : WF_vars(OperationStep(c)) /\ SF_vars(CallEnds(c))
    /\ WF_vars(Tick)

FairSpec == Spec /\ Fairness

-----------------------------------------------------------------------------

(***************************************************************************)
(* Properties                                                              *)
(***************************************************************************)

\* Type invariant.  An age never exceeds its saturation value, and a caller
\* holds a clock value only between reading and using it.
TypeOK ==
    /\ state \in States
    /\ failure_count \in Nat
    /\ age \in 0..MaxAge
    /\ pc \in [Callers -> Points]
    /\ stamp \in [Callers -> 0..MaxPause]
    /\ \A c \in Callers : pc[c] \notin ClockPoints => stamp[c] = 0
    /\ streak \in 0..FailureThreshold

AtPoint(p) == \E c \in Callers : pc[c] = p

\* Whatever the interleaving of however many workers, the breaker is Closed
\* with a count at or past its threshold only while the caller that will
\* reset the count, or the caller that will open the breaker, is about to do
\* so: no race leaves a breaker that should have opened Closed for good.
NeverClosedPastThreshold ==
    state = "Closed" /\ failure_count > 0 /\ failure_count >= FailureThreshold
        => AtPoint("success_zero") \/ AtPoint("failure_open")

\* "Entered after N consecutive failures": a breaker that was Closed opens
\* only if the last FailureThreshold calls to report all reported a failure.
OpensAfterStreak ==
    [][state = "Closed" /\ state' = "Open" => streak >= FailureThreshold]_vars

\* The transitions of the diagram at the head of circuit_breaker.rs.
LegalTransitions ==
    [][state' # state =>
        <<state, state'>> \in {<<"Closed", "Open">>, <<"Open", "HalfOpen">>,
                               <<"HalfOpen", "Closed">>, <<"HalfOpen", "Open">>}
      ]_vars

\* The first step of any dispatch.
Dispatch == \E c \in Callers : CanExecute(c)

\* However the threads interleave, a breaker that is Open leaves Open as long
\* as dispatches keep arriving: late failures restart the cooldown, but each
\* needs a call that was in flight when the breaker opened.
NoLockout == []<><<Dispatch>>_vars => (state = "Open" ~> state # "Open")

\* A tool that stops failing gets its breaker back: if from some time on no
\* call fails and successes keep being reported, the breaker ends up Closed
\* for good, whatever stale stores were pending.
Recovery ==
    /\ <>[][\A c \in Callers : ~ToolFails(c)]_vars
    /\ []<><<\E c \in Callers : ToolSucceeds(c)>>_vars
    => <>[](state = "Closed")

-----------------------------------------------------------------------------

(***************************************************************************)
(* With one worker the operations are atomic: the breaker implements the   *)
(* sequential machine.  record_failure takes effect when it stamps         *)
(* last_failure, record_success when the count is about to be reset, and   *)
(* can_execute when it stores HalfOpen.                                    *)
(***************************************************************************)

\* A caller has stamped a failure that it is going to count.
Counting ==
    state = "Closed" /\ (AtPoint("failure_load") \/ AtPoint("failure_count"))

AbstractCount ==
    IF AtPoint("success_zero") THEN 0
    ELSE IF Counting THEN failure_count + 1
    ELSE failure_count

AbstractState ==
    IF \/ AtPoint("failure_open")
       \/ state = "HalfOpen" /\ AtPoint("failure_load")
       \/ Counting /\ AbstractCount >= FailureThreshold
    THEN "Open"
    ELSE state

FSM == INSTANCE CircuitBreakerFSM
        WITH state <- AbstractState, failure_count <- AbstractCount

\* Every step of the interleaved breaker is a step of the sequential machine
\* or changes nothing the sequential machine shows.
ImplementsFSM == FSM!Spec

-----------------------------------------------------------------------------

(***************************************************************************)
(* Why one worker is enough: nothing happens between the load of state and *)
(* the store that depends on it.                                           *)
(***************************************************************************)

\* A caller about to act on a state it loaded finds the breaker still in that
\* state, and one about to store HalfOpen finds it still cooled down.
ViewsAreCurrent ==
    \A c \in Callers :
        /\ pc[c] \in CanExecutePoints => state = "Open"
        /\ pc[c] = "reset_store" => age >= RecoveryTimeout
        /\ pc[c] = "success_close" => state = "HalfOpen"
        /\ pc[c] \in {"success_zero", "failure_count"} => state = "Closed"
        /\ pc[c] = "failure_open" =>
              \/ state = "HalfOpen"
              \/ state = "Closed" /\ failure_count >= FailureThreshold

\* k failures in a row have been reported, or as many as the history records.
InARow(k) == k <= streak \/ streak = FailureThreshold

\* The count of a Closed breaker is explained by the failures reported since
\* the last success, including the one a caller is about to add.
CountIsStreak ==
    state = "Closed" /\ (\A p \in SuccessPoints : ~AtPoint(p))
        => /\ InARow(failure_count)
           /\ (\E p \in FailurePoints \ {"failure_open"} : AtPoint(p))
                => InARow(failure_count + 1)
=============================================================================
