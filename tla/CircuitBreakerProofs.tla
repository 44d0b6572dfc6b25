------------------------ MODULE CircuitBreakerProofs ------------------------
(***************************************************************************)
(* Proofs about module CircuitBreaker, for every set of callers, number of *)
(* workers, threshold and timeout.                                         *)
(***************************************************************************)
EXTENDS CircuitBreaker, FiniteSetTheorems, TLAPS

\* Every variable stays in its set, and an age never passes its saturation
\* value.
THEOREM TypeCorrect == Spec => []TypeOK
<1> USE ThresholdAssumption, TimeoutAssumption, PauseAssumption DEF TypeOK
<1>1. Init => TypeOK
  BY DEF Init, States, Points, MaxAge
<1>2. TypeOK /\ [Next]_vars => TypeOK'
  <2> SUFFICES ASSUME TypeOK, [Next]_vars
               PROVE  TypeOK'
    OBVIOUS
  <2> USE DEF Goto, States, MaxAge, Points, InFlightPoints, OperationPoints,
              CanExecutePoints, SuccessPoints, FailurePoints, ClockPoints
  <2>1. ASSUME NEW c \in Callers, CanExecute(c) PROVE TypeOK'
    BY <2>1 DEF CanExecute
  <2>2. ASSUME NEW c \in Callers, Abandon(c) PROVE TypeOK'
    BY <2>2 DEF Abandon
  <2>3. ASSUME NEW c \in Callers, ToolSucceeds(c) PROVE TypeOK'
    BY <2>3 DEF ToolSucceeds
  <2>4. ASSUME NEW c \in Callers, ToolFails(c) PROVE TypeOK'
    BY <2>4 DEF ToolFails
  <2>5. ASSUME NEW c \in Callers, ReadResetClock(c) PROVE TypeOK'
    BY <2>5 DEF ReadResetClock
  <2>6. ASSUME NEW c \in Callers, AttemptReset(c) PROVE TypeOK'
    BY <2>6 DEF AttemptReset
  <2>7. ASSUME NEW c \in Callers, StoreHalfOpen(c) PROVE TypeOK'
    BY <2>7 DEF StoreHalfOpen
  <2>8. ASSUME NEW c \in Callers, SuccessLoad(c) PROVE TypeOK'
    BY <2>8 DEF SuccessLoad
  <2>9. ASSUME NEW c \in Callers, SuccessClose(c) PROVE TypeOK'
    BY <2>9 DEF SuccessClose
  <2>10. ASSUME NEW c \in Callers, SuccessZero(c) PROVE TypeOK'
    BY <2>10 DEF SuccessZero
  <2>11. ASSUME NEW c \in Callers, ReadFailureClock(c) PROVE TypeOK'
    BY <2>11 DEF ReadFailureClock
  <2>12. ASSUME NEW c \in Callers, StampFailure(c) PROVE TypeOK'
    BY <2>12 DEF StampFailure
  <2>13. ASSUME NEW c \in Callers, FailureLoad(c) PROVE TypeOK'
    BY <2>13 DEF FailureLoad
  <2>14. ASSUME NEW c \in Callers, CountFailure(c) PROVE TypeOK'
    BY <2>14 DEF CountFailure
  <2>15. ASSUME NEW c \in Callers, StoreOpen(c) PROVE TypeOK'
    BY <2>15 DEF StoreOpen
  <2>16. CASE Tick
    BY <2>16 DEF Tick
  <2>17. CASE UNCHANGED vars
    BY <2>17 DEF vars
  <2>18. QED
    BY <2>1, <2>2, <2>3, <2>4, <2>5, <2>6, <2>7, <2>8, <2>9, <2>10, <2>11,
       <2>12, <2>13, <2>14, <2>15, <2>16, <2>17
       DEF Next, CallEnds, OperationStep
<1>3. QED
  BY <1>1, <1>2, PTL DEF Spec

-----------------------------------------------------------------------------

\* No race between any number of workers leaves a Closed breaker at or past
\* its threshold.  The invariant is inductive given the types: only
\* SuccessClose makes the breaker Closed, only CountFailure raises the count,
\* and each leaves its caller at the point the invariant asks for.
THEOREM NeverClosedPastThresholdHolds == Spec => []NeverClosedPastThreshold
<1> USE ThresholdAssumption DEF NeverClosedPastThreshold, AtPoint
<1>1. Init => NeverClosedPastThreshold
  BY DEF Init
<1>2. TypeOK /\ NeverClosedPastThreshold /\ [Next]_vars
        => NeverClosedPastThreshold'
  <2> SUFFICES ASSUME TypeOK, NeverClosedPastThreshold, [Next]_vars
               PROVE  NeverClosedPastThreshold'
    OBVIOUS
  <2> USE DEF Goto, TypeOK, InFlightPoints
  <2>1. ASSUME NEW c \in Callers,
               CanExecute(c) \/ CallEnds(c)
        PROVE  NeverClosedPastThreshold'
    BY <2>1 DEF CanExecute, CallEnds, Abandon, ToolSucceeds, ToolFails
  <2>2. ASSUME NEW c \in Callers,
               ReadResetClock(c) \/ AttemptReset(c) \/ StoreHalfOpen(c)
        PROVE  NeverClosedPastThreshold'
    BY <2>2 DEF ReadResetClock, AttemptReset, StoreHalfOpen
  <2>3. ASSUME NEW c \in Callers, SuccessLoad(c)
        PROVE  NeverClosedPastThreshold'
    BY <2>3 DEF SuccessLoad
  <2>4. ASSUME NEW c \in Callers, SuccessClose(c) \/ SuccessZero(c)
        PROVE  NeverClosedPastThreshold'
    BY <2>4 DEF SuccessClose, SuccessZero
  <2>5. ASSUME NEW c \in Callers,
               ReadFailureClock(c) \/ StampFailure(c) \/ FailureLoad(c)
        PROVE  NeverClosedPastThreshold'
    BY <2>5 DEF ReadFailureClock, StampFailure, FailureLoad
  <2>6. ASSUME NEW c \in Callers, CountFailure(c)
        PROVE  NeverClosedPastThreshold'
    BY <2>6 DEF CountFailure
  <2>7. ASSUME NEW c \in Callers, StoreOpen(c)
        PROVE  NeverClosedPastThreshold'
    BY <2>7 DEF StoreOpen
  <2>8. CASE Tick \/ UNCHANGED vars
    BY <2>8 DEF Tick, vars
  <2>9. QED
    BY <2>1, <2>2, <2>3, <2>4, <2>5, <2>6, <2>7, <2>8
       DEF Next, OperationStep
<1>3. QED
  BY <1>1, <1>2, TypeCorrect, PTL DEF Spec

-----------------------------------------------------------------------------

(***************************************************************************)
(* One worker.                                                             *)
(***************************************************************************)

\* A task is polled only if no other task is inside an operation.
LEMMA WorkerFreeMeansIdle ==
    ASSUME Workers = 1, WorkerFree
    PROVE  \A c \in Callers : pc[c] \notin OperationPoints
<1>1. Busy \subseteq Callers /\ IsFiniteSet(Busy)
  BY CallersAssumption, FS_Subset DEF Busy
<1>2. Cardinality(Busy) = 0
  BY <1>1, FS_CardinalityType DEF WorkerFree
<1>3. Busy = {}
  BY <1>1, <1>2, FS_EmptySet
<1>4. QED
  BY <1>3 DEF Busy

\* At most one caller is inside an operation.
Alone ==
    \A c, d \in Callers :
        pc[c] \in OperationPoints /\ pc[d] \in OperationPoints => c = d

OneWorkerInv == TypeOK /\ Alone /\ ViewsAreCurrent /\ CountIsStreak

\* With one worker thread, no caller is at work at the start.
LEMMA OneWorkerInit == Init => Alone /\ ViewsAreCurrent /\ CountIsStreak
  BY ThresholdAssumption
     DEF Init, Alone, ViewsAreCurrent, CountIsStreak, InARow, AtPoint,
         OperationPoints, CanExecutePoints, SuccessPoints, FailurePoints

\* A step keeps at most one caller inside an operation.
LEMMA AloneStep ==
    ASSUME Workers = 1, TypeOK, Alone, [Next]_vars
    PROVE  Alone'
<1> USE DEF Goto, TypeOK, Alone, InFlightPoints, OperationPoints,
            CanExecutePoints, SuccessPoints, FailurePoints
<1>1. ASSUME NEW c \in Callers,
             CanExecute(c) \/ ToolSucceeds(c) \/ ToolFails(c)
      PROVE  Alone'
  <2>1. \A d \in Callers : pc[d] \notin OperationPoints
    BY <1>1, WorkerFreeMeansIdle DEF CanExecute, ToolSucceeds, ToolFails
  <2>2. \A d \in Callers : d # c => pc'[d] = pc[d]
    BY <1>1 DEF CanExecute, ToolSucceeds, ToolFails
  <2>3. QED
    BY <2>1, <2>2
<1>2. ASSUME NEW c \in Callers, Abandon(c) \/ OperationStep(c)
      PROVE  Alone'
  BY <1>2 DEF Abandon, OperationStep, ReadResetClock, AttemptReset,
     StoreHalfOpen, SuccessLoad, SuccessClose, SuccessZero, ReadFailureClock,
     StampFailure, FailureLoad, CountFailure, StoreOpen
<1>3. CASE Tick \/ UNCHANGED vars
  BY <1>3 DEF Tick, vars
<1>4. QED
  BY <1>1, <1>2, <1>3 DEF Next, CallEnds

\* A step keeps every caller's view of the breaker current: the only caller
\* that can change the breaker is the one whose view it is.
LEMMA ViewsStep ==
    ASSUME Workers = 1, TypeOK, Alone, ViewsAreCurrent, [Next]_vars
    PROVE  ViewsAreCurrent'
<1> USE ThresholdAssumption, TimeoutAssumption, PauseAssumption
    DEF Goto, TypeOK, Alone, ViewsAreCurrent, InFlightPoints, OperationPoints,
        CanExecutePoints, SuccessPoints, FailurePoints, States
<1>1. ASSUME NEW c \in Callers, CanExecute(c) PROVE ViewsAreCurrent'
  BY <1>1 DEF CanExecute
<1>2. ASSUME NEW c \in Callers, CallEnds(c) PROVE ViewsAreCurrent'
  BY <1>2 DEF CallEnds, Abandon, ToolSucceeds, ToolFails
<1>3. ASSUME NEW c \in Callers, ReadResetClock(c) PROVE ViewsAreCurrent'
  BY <1>3 DEF ReadResetClock
<1>4. ASSUME NEW c \in Callers, AttemptReset(c) PROVE ViewsAreCurrent'
  BY <1>4 DEF AttemptReset, CooledDown, MaxAge
<1>5. ASSUME NEW c \in Callers, StoreHalfOpen(c) PROVE ViewsAreCurrent'
  BY <1>5 DEF StoreHalfOpen
<1>6. ASSUME NEW c \in Callers, SuccessLoad(c) PROVE ViewsAreCurrent'
  BY <1>6 DEF SuccessLoad
<1>7. ASSUME NEW c \in Callers, SuccessClose(c) \/ SuccessZero(c)
      PROVE  ViewsAreCurrent'
  BY <1>7 DEF SuccessClose, SuccessZero
<1>8. ASSUME NEW c \in Callers, ReadFailureClock(c) \/ StampFailure(c)
      PROVE  ViewsAreCurrent'
  BY <1>8 DEF ReadFailureClock, StampFailure
<1>9. ASSUME NEW c \in Callers, FailureLoad(c) PROVE ViewsAreCurrent'
  BY <1>9 DEF FailureLoad
<1>10. ASSUME NEW c \in Callers, CountFailure(c) PROVE ViewsAreCurrent'
  BY <1>10 DEF CountFailure
<1>11. ASSUME NEW c \in Callers, StoreOpen(c) PROVE ViewsAreCurrent'
  BY <1>11 DEF StoreOpen
<1>12. CASE Tick
  BY <1>12 DEF Tick, MaxAge
<1>13. CASE UNCHANGED vars
  BY <1>13 DEF vars
<1>14. QED
  BY <1>1, <1>2, <1>3, <1>4, <1>5, <1>6, <1>7, <1>8, <1>9, <1>10, <1>11,
     <1>12, <1>13 DEF Next, OperationStep

\* A step keeps the count of a Closed breaker explained by the streak of
\* failures.
LEMMA CountStep ==
    ASSUME Workers = 1, TypeOK, Alone, ViewsAreCurrent, CountIsStreak,
           [Next]_vars
    PROVE  CountIsStreak'
<1> USE ThresholdAssumption
    DEF Goto, TypeOK, Alone, CountIsStreak, InARow, AtPoint, InFlightPoints,
        OperationPoints, CanExecutePoints, SuccessPoints, FailurePoints, States
<1>1. ASSUME NEW c \in Callers, CanExecute(c) PROVE CountIsStreak'
  BY <1>1, WorkerFreeMeansIdle DEF CanExecute
<1>2. ASSUME NEW c \in Callers, Abandon(c) PROVE CountIsStreak'
  BY <1>2 DEF Abandon
<1>3. ASSUME NEW c \in Callers, ToolSucceeds(c) PROVE CountIsStreak'
  BY <1>3 DEF ToolSucceeds
<1>4. ASSUME NEW c \in Callers, ToolFails(c) PROVE CountIsStreak'
  <2>1. \A d \in Callers : pc[d] \notin OperationPoints
    BY <1>4, WorkerFreeMeansIdle DEF ToolFails
  <2>2. \A p \in SuccessPoints : ~AtPoint(p)
    BY <2>1
  <2>3. state = "Closed" => InARow(failure_count)
    BY <2>2
  <2>4. state = "Closed" => InARow(failure_count)' /\ InARow(failure_count + 1)'
    BY <1>4, <2>3 DEF ToolFails
  <2>5. QED
    BY <1>4, <2>4 DEF ToolFails
<1>5. ASSUME NEW c \in Callers, ReadResetClock(c) PROVE CountIsStreak'
  BY <1>5 DEF ReadResetClock
<1>6. ASSUME NEW c \in Callers, AttemptReset(c) PROVE CountIsStreak'
  BY <1>6 DEF AttemptReset
<1>7. ASSUME NEW c \in Callers, StoreHalfOpen(c) \/ StoreOpen(c)
      PROVE  CountIsStreak'
  BY <1>7 DEF StoreHalfOpen, StoreOpen
<1>8. ASSUME NEW c \in Callers, SuccessLoad(c) PROVE CountIsStreak'
  BY <1>8 DEF SuccessLoad
<1>9. ASSUME NEW c \in Callers, SuccessClose(c) PROVE CountIsStreak'
  BY <1>9 DEF SuccessClose
<1>10. ASSUME NEW c \in Callers, SuccessZero(c) PROVE CountIsStreak'
  BY <1>10 DEF SuccessZero
<1>11. ASSUME NEW c \in Callers, ReadFailureClock(c) \/ StampFailure(c)
       PROVE  CountIsStreak'
  BY <1>11 DEF ReadFailureClock, StampFailure
<1>12. ASSUME NEW c \in Callers, FailureLoad(c) PROVE CountIsStreak'
  BY <1>12 DEF FailureLoad
<1>13. ASSUME NEW c \in Callers, CountFailure(c) PROVE CountIsStreak'
  BY <1>13 DEF CountFailure, ViewsAreCurrent
<1>14. CASE Tick \/ UNCHANGED vars
  BY <1>14 DEF Tick, vars
<1>15. QED
  BY <1>1, <1>2, <1>3, <1>4, <1>5, <1>6, <1>7, <1>8, <1>9, <1>10, <1>11,
     <1>12, <1>13, <1>14 DEF Next, CallEnds, OperationStep

\* With one worker every caller's view of the breaker is current, and the
\* count is the streak.
THEOREM OneWorkerInvariant ==
    ASSUME Workers = 1
    PROVE  Spec => []OneWorkerInv
<1>1. Init => Alone /\ ViewsAreCurrent /\ CountIsStreak
  BY OneWorkerInit
<1>2. TypeOK /\ Alone /\ ViewsAreCurrent /\ CountIsStreak /\ [Next]_vars
        => (Alone /\ ViewsAreCurrent /\ CountIsStreak)'
  BY AloneStep, ViewsStep, CountStep
<1>3. QED
  BY <1>1, <1>2, TypeCorrect, PTL DEF Spec, OneWorkerInv

\* With one worker no caller acts on a state that another caller has changed.
THEOREM ViewsAreCurrentHolds ==
    ASSUME Workers = 1
    PROVE  Spec => []ViewsAreCurrent
<1>1. OneWorkerInv => ViewsAreCurrent
  BY DEF OneWorkerInv
<1>2. QED
  BY <1>1, OneWorkerInvariant, PTL

\* With one worker the count of a Closed breaker is the streak of failures.
THEOREM CountIsStreakHolds ==
    ASSUME Workers = 1
    PROVE  Spec => []CountIsStreak
<1>1. OneWorkerInv => CountIsStreak
  BY DEF OneWorkerInv
<1>2. QED
  BY <1>1, OneWorkerInvariant, PTL

\* With one worker a Closed breaker opens only after FailureThreshold failures
\* in a row.
THEOREM OpensAfterStreakHolds ==
    ASSUME Workers = 1
    PROVE  Spec => OpensAfterStreak
<1>1. OneWorkerInv /\ [Next]_vars
        => [state = "Closed" /\ state' = "Open" => streak >= FailureThreshold]_vars
  <2> SUFFICES ASSUME OneWorkerInv, [Next]_vars,
                      state = "Closed", state' = "Open"
               PROVE  streak >= FailureThreshold
    OBVIOUS
  <2>1. PICK c \in Callers : StoreOpen(c)
    BY DEF Next, CallEnds, OperationStep, vars, CanExecute, Abandon,
       ToolSucceeds, ToolFails, ReadResetClock, AttemptReset, StoreHalfOpen,
       SuccessLoad, SuccessClose, SuccessZero, ReadFailureClock, StampFailure,
       FailureLoad, CountFailure, Tick
  <2>2. pc[c] = "failure_open"
    BY <2>1 DEF StoreOpen, Goto
  <2>3. failure_count >= FailureThreshold
    BY <2>2 DEF OneWorkerInv, ViewsAreCurrent
  <2>4. \A p \in SuccessPoints : ~AtPoint(p)
    BY <2>2 DEF OneWorkerInv, Alone, AtPoint, OperationPoints, SuccessPoints,
       FailurePoints
  <2>5. InARow(failure_count)
    BY <2>4 DEF OneWorkerInv, CountIsStreak
  <2>6. QED
    BY <2>3, <2>5, ThresholdAssumption DEF InARow, OneWorkerInv, TypeOK
<1>2. QED
  BY <1>1, OneWorkerInvariant, PTL DEF Spec, OpensAfterStreak

-----------------------------------------------------------------------------

(***************************************************************************)
(* Refinement.                                                             *)
(***************************************************************************)

\* With one worker every step of the interleaved breaker maps to a step of
\* the sequential machine or leaves its state unchanged.
LEMMA StepSimulation ==
    ASSUME Workers = 1, OneWorkerInv, [Next]_vars
    PROVE  [FSM!Next]_(FSM!vars)
<1> DEFINE Shown == <<AbstractState, AbstractCount, age>>
<1> USE ThresholdAssumption, TimeoutAssumption, PauseAssumption
    DEF Goto, OneWorkerInv, TypeOK, Alone, ViewsAreCurrent, AtPoint,
        InFlightPoints, OperationPoints, CanExecutePoints, SuccessPoints,
        FailurePoints, States, AbstractState, AbstractCount, Counting
<1>1. ASSUME NEW c \in Callers,
             CanExecute(c) \/ Abandon(c) \/ ToolSucceeds(c) \/ ToolFails(c)
      PROVE  UNCHANGED Shown
  BY <1>1 DEF CanExecute, Abandon, ToolSucceeds, ToolFails
<1>2. ASSUME NEW c \in Callers, ReadResetClock(c) \/ AttemptReset(c)
      PROVE  UNCHANGED Shown
  BY <1>2 DEF ReadResetClock, AttemptReset
<1>3. ASSUME NEW c \in Callers, StoreHalfOpen(c)
      PROVE  FSM!Probe
  BY <1>3 DEF StoreHalfOpen, FSM!Probe
<1>4. ASSUME NEW c \in Callers, SuccessLoad(c)
      PROVE  FSM!RecordSuccess \/ UNCHANGED Shown
  BY <1>4 DEF SuccessLoad, FSM!RecordSuccess
<1>5. ASSUME NEW c \in Callers, SuccessClose(c)
      PROVE  FSM!RecordSuccess
  BY <1>5 DEF SuccessClose, FSM!RecordSuccess
<1>6. ASSUME NEW c \in Callers, SuccessZero(c)
      PROVE  UNCHANGED Shown
  BY <1>6 DEF SuccessZero
<1>7. ASSUME NEW c \in Callers, ReadFailureClock(c)
      PROVE  UNCHANGED Shown
  BY <1>7 DEF ReadFailureClock
<1>8. ASSUME NEW c \in Callers, StampFailure(c)
      PROVE  FSM!RecordFailure
  BY <1>8 DEF StampFailure, FSM!RecordFailure
<1>9. ASSUME NEW c \in Callers, FailureLoad(c)
      PROVE  UNCHANGED Shown
  BY <1>9 DEF FailureLoad
<1>10. ASSUME NEW c \in Callers, CountFailure(c)
       PROVE  UNCHANGED Shown
  BY <1>10 DEF CountFailure
<1>11. ASSUME NEW c \in Callers, StoreOpen(c)
       PROVE  UNCHANGED Shown
  BY <1>11 DEF StoreOpen
<1>12. ASSUME Tick
       PROVE  FSM!Tick \/ UNCHANGED Shown
  <2>1. UNCHANGED <<AbstractState, AbstractCount>>
    BY <1>12 DEF Tick
  <2>2. age \in 0..MaxAge /\ FSM!MaxAge = MaxAge
    BY DEF MaxAge, FSM!MaxAge
  <2>3. (age < MaxAge /\ age' = age + 1) \/ age' = age
    BY <1>12 DEF Tick
  <2> HIDE DEF AbstractState, AbstractCount
  <2>4. QED
    BY <2>1, <2>2, <2>3 DEF FSM!Tick
<1>13. ASSUME UNCHANGED vars
       PROVE  UNCHANGED Shown
  BY <1>13, Zenon DEF vars
<1> HIDE DEF AbstractState, AbstractCount
<1>14. QED
  BY <1>1, <1>2, <1>3, <1>4, <1>5, <1>6, <1>7, <1>8, <1>9, <1>10, <1>11,
     <1>12, <1>13 DEF Next, CallEnds, OperationStep, FSM!Next, FSM!vars

\* With one worker the breaker implements the sequential machine, for every
\* set of callers, threshold and timeout.
THEOREM OneWorkerImplementsFSM ==
    ASSUME Workers = 1
    PROVE  Spec => ImplementsFSM
<1>1. Init => FSM!Init
  BY DEF Init, FSM!Init, AbstractState, AbstractCount, Counting, AtPoint,
     MaxAge, FSM!MaxAge
<1>2. OneWorkerInv /\ [Next]_vars => [FSM!Next]_(FSM!vars)
  BY StepSimulation
<1>3. QED
  BY <1>1, <1>2, OneWorkerInvariant, PTL DEF Spec, ImplementsFSM, FSM!Spec
=============================================================================
