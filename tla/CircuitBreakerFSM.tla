------------------------- MODULE CircuitBreakerFSM -------------------------
(***************************************************************************)
(* The circuit breaker of runtime/src/reliability/circuit_breaker.rs as a  *)
(* sequential object: each of its three operations is one step.  This is   *)
(* what a caller of the breaker relies on.  Module CircuitBreaker gives    *)
(* the atomic instructions these operations are made of and shows when     *)
(* their interleavings still implement this machine.                       *)
(*                                                                         *)
(* Time is the age of last_failure, in ticks.  The code compares that age  *)
(* with recovery_timeout and nothing else, so it saturates at MaxAge.      *)
(***************************************************************************)
EXTENDS Naturals

CONSTANTS
    FailureThreshold,   \* config.failure_threshold, any usize
    RecoveryTimeout,    \* config.recovery_timeout, in ticks
    MaxPause            \* longest time between an operation's clock read and
                        \* its use of the value, in ticks

VARIABLES
    state,              \* "Closed", "Open" or "HalfOpen"
    failure_count,      \* failures counted while Closed
    age                 \* now - last_failure, saturated at MaxAge

vars == <<state, failure_count, age>>

States == {"Closed", "Open", "HalfOpen"}

MaxAge == RecoveryTimeout + MaxPause

\* last_failure starts at the epoch, so its age is larger than any timeout.
Init ==
    /\ state = "Closed"
    /\ failure_count = 0
    /\ age = MaxAge

\* can_execute admits a caller without a change when Closed or HalfOpen, and
\* rejects it without a change when Open and not cooled down: stutters.  This
\* is the remaining case, the move to HalfOpen.
Probe ==
    /\ state = "Open"
    /\ age >= RecoveryTimeout
    /\ state' = "HalfOpen"
    /\ UNCHANGED <<failure_count, age>>

RecordSuccess ==
    /\ state # "Open"
    /\ state' = "Closed"
    /\ failure_count' = 0
    /\ UNCHANGED age

\* The stamp of a failure is the time at which record_failure read the clock.
RecordFailure ==
    /\ age' \in 0..MaxPause
    /\ \/ /\ state = "Closed"
          /\ failure_count' = failure_count + 1
          /\ state' = IF failure_count + 1 >= FailureThreshold
                      THEN "Open" ELSE "Closed"
       \/ /\ state \in {"Open", "HalfOpen"}
          /\ state' = "Open"
          /\ UNCHANGED failure_count

Tick ==
    /\ age < MaxAge
    /\ age' = age + 1
    /\ UNCHANGED <<state, failure_count>>

Next == Probe \/ RecordSuccess \/ RecordFailure \/ Tick

Spec == Init /\ [][Next]_vars
=============================================================================
