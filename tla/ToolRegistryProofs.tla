------------------------- MODULE ToolRegistryProofs -------------------------
(***************************************************************************)
(* Proofs about ToolRegistry, for every set of tasks and tools, threshold, *)
(* recovery timeout and amount by which the wall clock is set back.        *)
(***************************************************************************)
EXTENDS ToolRegistry, TLAPS

Ages == (-MaxSetBack)..MaxAge

BreakerType == [state : {"Closed", "Open", "HalfOpen"}, failure_count : Nat, age : Ages]

(***************************************************************************)
(* What the operations do to the record of a breaker.                      *)
(***************************************************************************)

\* A new breaker is Closed, and its last failure lies infinitely far back.
LEMMA NewBreakerTyped == NewBreaker \in BreakerType
  BY RegistryAssumption DEF NewBreaker, BreakerType, Ages, MaxAge

\* can_execute changes nothing but an Open state, to HalfOpen.
LEMMA AdmittedEffect ==
    ASSUME NEW b \in BreakerType
    PROVE  /\ Admitted(b) \in BreakerType
           /\ Admitted(b).state = (IF b.state = "Open" THEN "HalfOpen" ELSE b.state)
           /\ Admitted(b).failure_count = b.failure_count
           /\ Admitted(b).age = b.age
  BY DEF Admitted, BreakerType

\* record_success closes a breaker that is not Open and zeroes its count.
LEMMA AfterSuccessEffect ==
    ASSUME NEW b \in BreakerType
    PROVE  /\ AfterSuccess(b) \in BreakerType
           /\ AfterSuccess(b).age = b.age
           /\ b.state = "Open" => AfterSuccess(b) = b
           /\ b.state # "Open" => /\ AfterSuccess(b).state = "Closed"
                                  /\ AfterSuccess(b).failure_count = 0
  BY DEF AfterSuccess, BreakerType

\* record_failure stamps the failure, counts it while Closed, and opens the
\* breaker at the threshold and whenever it is not Closed.
LEMMA AfterFailureEffect ==
    ASSUME NEW b \in BreakerType
    PROVE  /\ AfterFailure(b) \in BreakerType
           /\ AfterFailure(b).age = 0
           /\ b.state # "Closed" => /\ AfterFailure(b).state = "Open"
                                    /\ AfterFailure(b).failure_count = b.failure_count
           /\ b.state = "Closed" =>
                 /\ AfterFailure(b).failure_count = b.failure_count + 1
                 /\ AfterFailure(b).state =
                       IF b.failure_count + 1 >= FailureThreshold THEN "Open" ELSE "Closed"
  BY RegistryAssumption DEF AfterFailure, BreakerType, Ages, MaxAge

\* Time and the setting back of the clock change the age alone.
LEMMA AgeEffect ==
    ASSUME NEW b \in BreakerType, NEW a \in Ages
    PROVE  /\ [b EXCEPT !.age = a] \in BreakerType
           /\ [b EXCEPT !.age = a].age = a
           /\ [b EXCEPT !.age = a].state = b.state
           /\ [b EXCEPT !.age = a].failure_count = b.failure_count
  BY DEF BreakerType

-----------------------------------------------------------------------------

(***************************************************************************)
(* The invariant.  The registry is registered to before it is shared, and  *)
(* tools run and the clock is set back only after; the age of a failure is *)
(* short of the real time by no more than the clock was set back; and a    *)
(* Closed breaker has counted failures of its own tool only.               *)
(***************************************************************************)

FreshBeforeServing ==
    ~serving =>
        /\ set_back = 0
        /\ \A n \in Names : breakers[n] = NewBreaker /\ rested[n] = MaxAge
        /\ \A t \in Tasks : executing[t] = NoTool

CountsOwnFailures ==
    \A n \in Names :
        breakers[n].state = "Closed" => breakers[n].failure_count <= failed[n]

RegistryInv == RegistryTypeOK /\ FreshBeforeServing /\ CountsOwnFailures

\* The facts of the type invariant that the steps below use.
LEMMA Typed ==
    ASSUME RegistryInv
    PROVE  /\ tools \subseteq Names /\ serving \in BOOLEAN
           /\ breakers \in [Names -> BreakerType]
           /\ executing \in [Tasks -> Names \cup {NoTool}]
           /\ set_back \in 0..MaxSetBack
           /\ rested \in [Names -> 0..MaxAge]
           /\ failed \in [Names -> 0..FailureThreshold]
           /\ \A n \in Names :
                 /\ breakers[n].age \in Int /\ rested[n] \in Nat
                 /\ breakers[n].age <= rested[n]
                 /\ rested[n] <= breakers[n].age + set_back
  BY DEF RegistryInv, RegistryTypeOK, SetBackOnlyDelays, BreakerType, Ages, MaxAge

\* Nothing is registered, and nothing has failed.
LEMMA RegistryInitEstablishes == RegistryInit => RegistryInv
<1> SUFFICES ASSUME RegistryInit PROVE RegistryInv
  OBVIOUS
<1>1. MaxAge \in Nat /\ 0 \in 0..MaxSetBack /\ 0 \in 0..FailureThreshold
  BY RegistryAssumption DEF MaxAge
<1>2. NewBreaker.age = MaxAge /\ NewBreaker.failure_count = 0
  BY DEF NewBreaker
<1>3. /\ breakers \in [Names -> BreakerType] /\ rested \in [Names -> 0..MaxAge]
      /\ \A n \in Names : breakers[n] = NewBreaker /\ rested[n] = MaxAge /\ failed[n] = 0
  BY <1>1, NewBreakerTyped DEF RegistryInit
<1>4. SetBackOnlyDelays
  BY <1>1, <1>2, <1>3 DEF RegistryInit, SetBackOnlyDelays
<1>5. RegistryTypeOK
  BY <1>1, <1>3, <1>4 DEF RegistryInit, RegistryTypeOK, Replies, BreakerType, Ages
<1>6. FreshBeforeServing
  BY <1>3 DEF RegistryInit, FreshBeforeServing
<1>7. CountsOwnFailures
  BY <1>2, <1>3 DEF CountsOwnFailures
<1> QED
  BY <1>5, <1>6, <1>7 DEF RegistryInv

\* A step that leaves the ages and the clock alone, and raises no count, keeps
\* the invariant.
LEMMA AgesStay ==
    ASSUME RegistryInv, serving,
           UNCHANGED <<tools, serving, set_back, rested>>,
           executing' \in [Tasks -> Names \cup {NoTool}],
           reply' \in [Tasks -> Replies],
           breakers' \in [Names -> BreakerType],
           failed' \in [Names -> 0..FailureThreshold],
           \A n \in Names :
              /\ breakers'[n].age = breakers[n].age
              /\ breakers'[n].state = "Closed" => breakers'[n].failure_count <= failed'[n]
    PROVE  RegistryInv'
<1>1. SetBackOnlyDelays'
  BY Typed DEF SetBackOnlyDelays
<1>2. RegistryTypeOK'
  BY <1>1, Typed DEF RegistryTypeOK, BreakerType, Ages
<1>3. FreshBeforeServing' /\ CountsOwnFailures'
  BY DEF FreshBeforeServing, CountsOwnFailures
<1> QED
  BY <1>2, <1>3 DEF RegistryInv

\* The tool a resumed task was executing is a tool, and is served.
LEMMA ResumedTool ==
    ASSUME RegistryInv, NEW t \in Tasks, Resumed(t)
    PROVE  /\ executing[t] \in Names /\ serving
           /\ executing' \in [Tasks -> Names \cup {NoTool}]
  BY Typed DEF Resumed, RegistryInv, FreshBeforeServing

\* A reply to a task is a reply.
LEMMA RepliesTyped ==
    ASSUME RegistryInv, NEW t \in Tasks, NEW r \in Replies, Replied(t, r)
    PROVE  reply' \in [Tasks -> Replies]
  BY DEF Replied, RegistryInv, RegistryTypeOK

\* A step of a task keeps the invariant.
LEMMA DispatchKeeps ==
    ASSUME RegistryInv, NEW t \in Tasks, DispatchStep(t)
    PROVE  RegistryInv'
<1>a. \A r : r \in {"none", "Ok", "NotFound", "CircuitOpen", "InvalidInput",
                  "ExecutionFailed", "Timeout"} => r \in Replies
  BY DEF Replies
<1>b. /\ breakers \in [Names -> BreakerType]
      /\ executing \in [Tasks -> Names \cup {NoTool}]
      /\ failed \in [Names -> 0..FailureThreshold]
      /\ FailureThreshold \in Nat
  BY Typed, RegistryAssumption
<1>c. \A n \in Names :
         breakers[n].state = "Closed" => breakers[n].failure_count <= failed[n]
  BY DEF RegistryInv, CountsOwnFailures
<1>1. ASSUME NEW n \in Names, RejectUnknown(t, n) \/ RejectOpen(t, n)
      PROVE  RegistryInv'
  <2>1. /\ UNCHANGED <<tools, breakers, serving, executing, set_back, rested, failed>>
        /\ serving /\ \E r \in Replies : Replied(t, r)
    BY <1>1, <1>a DEF RejectUnknown, RejectOpen, Idle
  <2>2. reply' \in [Tasks -> Replies]
    BY <2>1, RepliesTyped
  <2> QED
    BY <1>b, <1>c, <2>1, <2>2, AgesStay
<1>2. ASSUME NEW n \in Names, RejectInvalid(t, n) \/ Execute(t, n)
      PROVE  RegistryInv'
  <2>1. /\ UNCHANGED <<tools, serving, set_back, rested, failed>> /\ serving
        /\ breakers' = [breakers EXCEPT ![n] = Admitted(breakers[n])]
        /\ executing' \in [Tasks -> Names \cup {NoTool}]
        /\ \E r \in Replies : Replied(t, r)
    BY <1>2, <1>a, <1>b DEF RejectInvalid, Execute, Idle
  <2>2. reply' \in [Tasks -> Replies]
    BY <2>1, RepliesTyped
  <2>3. /\ breakers[n] \in BreakerType /\ Admitted(breakers[n]) \in BreakerType
        /\ Admitted(breakers[n]).age = breakers[n].age
        /\ Admitted(breakers[n]).failure_count = breakers[n].failure_count
        /\ Admitted(breakers[n]).state = "Closed" => breakers[n].state = "Closed"
    BY <1>b, AdmittedEffect
  <2>4. \A m \in Names : IF m = n THEN breakers'[m] = Admitted(breakers[n])
                         ELSE breakers'[m] = breakers[m]
    BY <1>b, <2>1
  <2>5. breakers' \in [Names -> BreakerType]
    BY <1>b, <2>1, <2>3
  <2>6. \A m \in Names :
           /\ breakers'[m].age = breakers[m].age
           /\ breakers'[m].state = "Closed" => breakers'[m].failure_count <= failed'[m]
    BY <1>c, <2>1, <2>3, <2>4
  <2> QED
    BY <1>b, <2>1, <2>2, <2>5, <2>6, AgesStay
<1>3. ASSUME Succeed(t) PROVE RegistryInv'
  <2> DEFINE n == executing[t]
  <2>1. /\ n \in Names /\ serving /\ executing' \in [Tasks -> Names \cup {NoTool}]
        /\ UNCHANGED <<tools, serving, set_back, rested>>
        /\ breakers' = [breakers EXCEPT ![n] = AfterSuccess(breakers[n])]
        /\ failed' = [failed EXCEPT ![n] = 0]
        /\ reply' \in [Tasks -> Replies]
    BY <1>3, <1>a, ResumedTool, RepliesTyped DEF Succeed
  <2> HIDE DEF n
  <2>2. /\ AfterSuccess(breakers[n]) \in BreakerType
        /\ AfterSuccess(breakers[n]).age = breakers[n].age
        /\ AfterSuccess(breakers[n]).state = "Closed"
              => AfterSuccess(breakers[n]).failure_count = 0
    <3>1. breakers[n] \in BreakerType
      BY <1>b, <2>1
    <3>2. CASE breakers[n].state = "Open"
      BY <3>1, <3>2, AfterSuccessEffect
    <3>3. CASE breakers[n].state # "Open"
      BY <3>1, <3>3, AfterSuccessEffect
    <3> QED
      BY <3>2, <3>3
  <2>3. \A m \in Names : IF m = n THEN /\ breakers'[m] = AfterSuccess(breakers[n])
                                       /\ failed'[m] = 0
                         ELSE breakers'[m] = breakers[m] /\ failed'[m] = failed[m]
    BY <1>b, <2>1
  <2>4. /\ breakers' \in [Names -> BreakerType]
        /\ failed' \in [Names -> 0..FailureThreshold]
    BY <1>b, <2>1, <2>2
  <2>5. \A m \in Names :
           /\ breakers'[m].age = breakers[m].age
           /\ breakers'[m].state = "Closed" => breakers'[m].failure_count <= failed'[m]
    BY <1>c, <2>2, <2>3
  <2> QED
    BY <2>1, <2>4, <2>5, AgesStay
<1>4. ASSUME NEW r \in {"InvalidInput", "ExecutionFailed", "Timeout"}, Fail(t, r)
      PROVE  RegistryInv'
  <2> DEFINE n == executing[t]
  <2>1. /\ n \in Names /\ serving /\ executing' \in [Tasks -> Names \cup {NoTool}]
        /\ UNCHANGED <<tools, serving, set_back>>
        /\ breakers' = [breakers EXCEPT ![n] = AfterFailure(breakers[n])]
        /\ failed' = [failed EXCEPT ![n] =
                         IF failed[n] < FailureThreshold THEN failed[n] + 1 ELSE failed[n]]
        /\ rested' = [rested EXCEPT ![n] = 0]
        /\ reply' \in [Tasks -> Replies]
    BY <1>4, <1>a, ResumedTool, RepliesTyped DEF Fail
  <2> HIDE DEF n
  <2>2. breakers[n] \in BreakerType /\ AfterFailure(breakers[n]) \in BreakerType
        /\ AfterFailure(breakers[n]).age = 0
    BY <1>b, <2>1, AfterFailureEffect
  <2>3. AfterFailure(breakers[n]).state = "Closed"
           => /\ breakers[n].state = "Closed"
              /\ AfterFailure(breakers[n]).failure_count = breakers[n].failure_count + 1
              /\ breakers[n].failure_count + 1 < FailureThreshold
    <3>0. breakers[n].failure_count \in Nat
      BY <2>2 DEF BreakerType
    <3>1. CASE breakers[n].state = "Closed"
      BY <1>b, <2>2, <3>0, <3>1, AfterFailureEffect
    <3>2. CASE breakers[n].state # "Closed"
      BY <2>2, <3>2, AfterFailureEffect
    <3> QED
      BY <3>1, <3>2
  <2>4. \A m \in Names \ {n} : /\ breakers'[m] = breakers[m] /\ failed'[m] = failed[m]
                               /\ rested'[m] = rested[m]
    BY <1>b, <2>1, Typed
  <2>5. /\ breakers'[n] = AfterFailure(breakers[n]) /\ rested'[n] = 0
        /\ failed'[n] = IF failed[n] < FailureThreshold THEN failed[n] + 1 ELSE failed[n]
    BY <1>b, <2>1, Typed
  <2>6. /\ breakers' \in [Names -> BreakerType]
        /\ rested' \in [Names -> 0..MaxAge]
    BY <1>b, <2>1, <2>2, Typed, RegistryAssumption DEF MaxAge
  <2>7. failed' \in [Names -> 0..FailureThreshold]
    BY <1>b, <2>1
  <2>8. SetBackOnlyDelays'
    <3>1. \A m \in Names : breakers'[m].age <= rested'[m] /\ rested'[m] <= breakers'[m].age + set_back'
      BY <2>1, <2>2, <2>4, <2>5, Typed
    <3> QED
      BY <3>1 DEF SetBackOnlyDelays
  <2>9. CountsOwnFailures'
    <3>1. breakers[n].failure_count \in Nat /\ failed[n] \in 0..FailureThreshold
      BY <1>b, <2>1 DEF BreakerType
    <3>2. breakers'[n].state = "Closed" => breakers'[n].failure_count <= failed'[n]
      BY <1>b, <1>c, <2>1, <2>3, <2>5, <3>1
    <3> QED
      BY <1>c, <2>4, <3>2 DEF CountsOwnFailures
  <2>10. RegistryTypeOK'
    BY <2>1, <2>6, <2>7, <2>8, Typed DEF RegistryTypeOK, BreakerType, Ages
  <2> QED
    BY <2>1, <2>9, <2>10 DEF RegistryInv, FreshBeforeServing
<1>5. ASSUME Cancel(t) PROVE RegistryInv'
  <2>1. /\ serving /\ executing' \in [Tasks -> Names \cup {NoTool}]
        /\ UNCHANGED <<tools, breakers, serving, set_back, rested, failed>>
        /\ reply' \in [Tasks -> Replies]
    BY <1>5, <1>a, ResumedTool, RepliesTyped DEF Cancel
  <2> QED
    BY <1>b, <1>c, <2>1, AgesStay
<1> QED
  BY <1>1, <1>2, <1>3, <1>4, <1>5 DEF DispatchStep

\* A step that gives the breakers other ages keeps the invariant, if the ages
\* still follow the real time.
LEMMA AgesMove ==
    ASSUME RegistryInv, UNCHANGED <<tools, serving, executing, reply, failed>>,
           set_back' \in 0..MaxSetBack, rested' \in [Names -> 0..MaxAge],
           NEW f \in [Names -> Ages],
           breakers' = [n \in Names |-> [breakers[n] EXCEPT !.age = f[n]]],
           \A n \in Names : f[n] <= rested'[n] /\ rested'[n] <= f[n] + set_back',
           ~serving => /\ set_back' = 0
                       /\ \A n \in Names : f[n] = MaxAge /\ rested'[n] = MaxAge
    PROVE  RegistryInv'
<1>1. breakers \in [Names -> BreakerType]
  BY Typed
<1>2. \A n \in Names : /\ breakers'[n] \in BreakerType /\ breakers'[n].age = f[n]
                       /\ breakers'[n].state = breakers[n].state
                       /\ breakers'[n].failure_count = breakers[n].failure_count
  <2> SUFFICES ASSUME NEW n \in Names
               PROVE  /\ breakers'[n] \in BreakerType /\ breakers'[n].age = f[n]
                      /\ breakers'[n].state = breakers[n].state
                      /\ breakers'[n].failure_count = breakers[n].failure_count
    OBVIOUS
  <2>1. /\ breakers'[n] = [breakers[n] EXCEPT !.age = f[n]]
        /\ breakers[n] \in BreakerType /\ f[n] \in Ages
    BY <1>1
  <2> QED
    BY <2>1, AgeEffect
<1>3. breakers' \in [Names -> BreakerType]
  BY <1>2
<1>4. SetBackOnlyDelays'
  BY <1>2 DEF SetBackOnlyDelays
<1>5. RegistryTypeOK'
  BY <1>3, <1>4 DEF RegistryInv, RegistryTypeOK, BreakerType, Ages
<1>6. CountsOwnFailures'
  BY <1>2 DEF RegistryInv, CountsOwnFailures
<1>7. FreshBeforeServing'
  <2> SUFFICES ASSUME ~serving PROVE /\ set_back' = 0
                                     /\ \A n \in Names : breakers'[n] = NewBreaker
                                                         /\ rested'[n] = MaxAge
                                     /\ \A t \in Tasks : executing[t] = NoTool
    BY DEF FreshBeforeServing
  <2>1. \A n \in Names : breakers[n] = NewBreaker /\ f[n] = MaxAge
    BY DEF RegistryInv, FreshBeforeServing
  <2>2. [NewBreaker EXCEPT !.age = MaxAge] = NewBreaker
    BY DEF NewBreaker
  <2>3. \A n \in Names : breakers'[n] = NewBreaker
    BY <2>1, <2>2
  <2> QED
    BY <2>3 DEF RegistryInv, FreshBeforeServing
<1> QED
  BY <1>5, <1>6, <1>7 DEF RegistryInv

\* Every step keeps the invariant.
LEMMA RegistryStep == RegistryInv /\ [RegistryNext]_registryVars => RegistryInv'
<1> SUFFICES ASSUME RegistryInv, [RegistryNext]_registryVars PROVE RegistryInv'
  OBVIOUS
<1>a. MaxAge \in Nat /\ MaxSetBack \in Nat /\ RecoveryTimeout \in Nat
  BY RegistryAssumption DEF MaxAge
<1>1. ASSUME NEW n \in Names, Register(n) PROVE RegistryInv'
  <2>1. breakers' = breakers
    BY <1>1, Typed DEF Register, RegistryInv, FreshBeforeServing
  <2> QED
    BY <1>1, <2>1 DEF Register, RegistryInv, RegistryTypeOK, SetBackOnlyDelays,
                      FreshBeforeServing, CountsOwnFailures
<1>2. CASE Share
  BY <1>2 DEF Share, RegistryInv, RegistryTypeOK, SetBackOnlyDelays,
              FreshBeforeServing, CountsOwnFailures
<1>3. ASSUME NEW t \in Tasks, DispatchStep(t) PROVE RegistryInv'
  BY <1>3, DispatchKeeps
<1>4. CASE Tick
  <2> DEFINE f == [n \in Names |-> Older(breakers[n].age)]
  <2>0. \A n \in Names : /\ breakers[n].age \in Ages /\ rested[n] \in 0..MaxAge
                         /\ breakers[n].age <= rested[n]
                         /\ rested[n] <= breakers[n].age + set_back
    BY Typed DEF BreakerType
  <2>1. set_back \in 0..MaxSetBack
    BY Typed
  <2>2. f \in [Names -> Ages]
    BY <1>a, <2>0 DEF Older, Ages
  <2>3. rested' \in [Names -> 0..MaxAge]
        /\ \A n \in Names : f[n] <= rested'[n] /\ rested'[n] <= f[n] + set_back
    BY <1>4, <1>a, <2>0, <2>1 DEF Tick, Older, Ages
  <2>4. ASSUME ~serving
        PROVE  set_back = 0 /\ \A n \in Names : f[n] = MaxAge /\ rested'[n] = MaxAge
    BY <1>4, <1>a, <2>4 DEF Tick, Older, NewBreaker, RegistryInv, FreshBeforeServing
  <2>5. /\ UNCHANGED <<tools, serving, executing, reply, failed, set_back>>
        /\ breakers' = [n \in Names |-> [breakers[n] EXCEPT !.age = f[n]]]
    BY <1>4 DEF Tick
  <2> HIDE DEF f
  <2> QED
    BY <2>1, <2>2, <2>3, <2>4, <2>5, AgesMove
<1>5. CASE ClockSetBack
  <2> DEFINE f == [n \in Names |-> breakers[n].age - 1]
  <2>0. \A n \in Names : /\ breakers[n].age \in Ages /\ rested[n] \in 0..MaxAge
                         /\ breakers[n].age <= rested[n]
                         /\ rested[n] <= breakers[n].age + set_back
    BY Typed DEF BreakerType
  <2>1. /\ set_back \in 0..MaxSetBack /\ set_back' = set_back + 1
        /\ set_back < MaxSetBack /\ serving
        /\ UNCHANGED <<tools, serving, executing, reply, failed, rested>>
        /\ breakers' = [n \in Names |-> [breakers[n] EXCEPT !.age = f[n]]]
    BY <1>5, Typed DEF ClockSetBack
  <2>2. f \in [Names -> Ages]
    BY <1>a, <2>0, <2>1 DEF Ages
  <2>3. \A n \in Names : f[n] <= rested'[n] /\ rested'[n] <= f[n] + set_back'
    BY <1>a, <2>0, <2>1 DEF Ages
  <2>4. set_back' \in 0..MaxSetBack /\ rested' \in [Names -> 0..MaxAge]
    BY <1>a, <2>1, Typed
  <2> HIDE DEF f
  <2> QED
    BY <2>1, <2>2, <2>3, <2>4, AgesMove
<1>6. CASE UNCHANGED registryVars
  BY <1>6 DEF registryVars, RegistryInv, RegistryTypeOK, SetBackOnlyDelays,
              FreshBeforeServing, CountsOwnFailures
<1> QED
  BY <1>1, <1>2, <1>3, <1>4, <1>5, <1>6 DEF RegistryNext

\* The registry keeps its types, and the ages follow the real time.
THEOREM RegistryInvariant == RegistrySpec => []RegistryInv
  BY RegistryInitEstablishes, RegistryStep, PTL DEF RegistrySpec

\* What a breaker takes for the time since a failure is never more than the real
\* time, and less by at most what the wall clock was set back.
THEOREM RegistryTypesHold == RegistrySpec => []RegistryTypeOK
<1>1. RegistryInv => RegistryTypeOK
  BY DEF RegistryInv
<1> QED
  BY <1>1, RegistryInvariant, PTL

-----------------------------------------------------------------------------

(***************************************************************************)
(* When a breaker trips.                                                   *)
(***************************************************************************)

\* A breaker leaves Closed only at a failure of its own tool, which is the last
\* of FailureThreshold ones in a row.
LEMMA TripStep ==
    ASSUME RegistryInv, [RegistryNext]_registryVars, NEW n \in Names,
           breakers[n].state = "Closed", breakers'[n].state # "Closed"
    PROVE  failed'[n] = FailureThreshold
<1>a. /\ breakers \in [Names -> BreakerType]
      /\ failed \in [Names -> 0..FailureThreshold]
      /\ FailureThreshold \in Nat
  BY Typed, RegistryAssumption
<1>b. breakers[n] \in BreakerType
  BY <1>a
<1>1. breakers' # breakers
  OBVIOUS
<1>2. ASSUME NEW m \in Names, Register(m) PROVE FALSE
  <2>1. breakers'[n] = breakers[n] \/ breakers'[n] = NewBreaker
    BY <1>2, <1>a DEF Register
  <2> QED
    BY <2>1 DEF NewBreaker
<1>3. ASSUME NEW t \in Tasks, NEW m \in Names,
             RejectInvalid(t, m) \/ Execute(t, m)
      PROVE  FALSE
  <2>1. breakers'[n] = breakers[n] \/ breakers'[n] = Admitted(breakers[n])
    BY <1>3, <1>a DEF RejectInvalid, Execute
  <2> QED
    BY <2>1, <1>b, AdmittedEffect
<1>4. ASSUME NEW t \in Tasks, Succeed(t) PROVE FALSE
  <2>1. breakers'[n] = breakers[n] \/ breakers'[n] = AfterSuccess(breakers[n])
    BY <1>4, <1>a DEF Succeed
  <2> QED
    BY <2>1, <1>b, AfterSuccessEffect
<1>5. ASSUME NEW t \in Tasks, NEW r, Fail(t, r)
      PROVE  failed'[n] = FailureThreshold
  <2>1. executing[t] = n /\ breakers'[n] = AfterFailure(breakers[n])
    BY <1>5, <1>a DEF Fail
  <2>2. failed'[n] = IF failed[n] < FailureThreshold THEN failed[n] + 1 ELSE failed[n]
    BY <1>5, <1>a, <2>1 DEF Fail
  <2>3. breakers[n].failure_count + 1 >= FailureThreshold
    BY <1>b, <2>1, AfterFailureEffect
  <2>4. breakers[n].failure_count <= failed[n]
    BY DEF RegistryInv, CountsOwnFailures
  <2>5. breakers[n].failure_count \in Nat /\ failed[n] \in 0..FailureThreshold
    BY <1>a DEF BreakerType
  <2> QED
    BY <1>a, <2>2, <2>3, <2>4, <2>5
<1>6. ASSUME Tick \/ ClockSetBack PROVE FALSE
  <2>1. \E a : breakers'[n] = [breakers[n] EXCEPT !.age = a]
    BY <1>6 DEF Tick, ClockSetBack
  <2> QED
    BY <1>b, <2>1 DEF BreakerType
<1>7. ASSUME NEW t \in Tasks, NEW m \in Names,
             RejectUnknown(t, m) \/ RejectOpen(t, m) \/ Cancel(t)
      PROVE  FALSE
  BY <1>1, <1>7 DEF RejectUnknown, RejectOpen, Cancel
<1>8. CASE Share \/ UNCHANGED registryVars
  BY <1>1, <1>8 DEF Share, registryVars
<1>9. ASSUME NEW t \in Tasks, DispatchStep(t) PROVE failed'[n] = FailureThreshold
  BY <1>3, <1>4, <1>5, <1>7, <1>9 DEF DispatchStep
<1> QED
  BY <1>2, <1>6, <1>8, <1>9 DEF RegistryNext

\* With the dispatches of all tasks interleaved, a breaker leaves Closed only at
\* the end of FailureThreshold failures of its own tool in a row.
THEOREM TripsOnlyFailingToolsHolds == RegistrySpec => TripsOnlyFailingTools
<1>1. RegistryInv /\ [RegistryNext]_registryVars
        => [\A n \in Names :
              breakers[n].state = "Closed" /\ breakers'[n].state # "Closed"
                  => failed'[n] = FailureThreshold]_registryVars
  BY TripStep
<1> QED
  BY <1>1, RegistryInvariant, PTL DEF RegistrySpec, TripsOnlyFailingTools

-----------------------------------------------------------------------------

(***************************************************************************)
(* Refinement of the sequential breaker.                                   *)
(***************************************************************************)

\* A new breaker is the machine in its initial state.
LEMMA FSMInit == RegistryInit => \A n \in Names : Breaker(n)!Init
  BY RegistryAssumption
     DEF RegistryInit, NewBreaker, MaxAge, Breaker!Init, Breaker!MaxAge

\* The time the machine sees: real, and no longer counted beyond the timeout.
Rest(n) == IF rested[n] < RecoveryTimeout THEN rested[n] ELSE RecoveryTimeout

\* The steps of the machine in terms of the breaker's record, and the stutter.
LEMMA FSMMoves ==
    ASSUME NEW n \in Names
    PROVE  /\ /\ breakers[n].state = "Open" /\ Rest(n) >= RecoveryTimeout
              /\ breakers'[n].state = "HalfOpen"
              /\ breakers'[n].failure_count = breakers[n].failure_count
              /\ Rest(n)' = Rest(n)
              => Breaker(n)!Next
           /\ /\ breakers[n].state # "Open" /\ breakers'[n].state = "Closed"
              /\ breakers'[n].failure_count = 0
              /\ Rest(n)' = Rest(n)
              => Breaker(n)!Next
           /\ /\ Rest(n)' = 0 /\ breakers[n].state = "Closed"
              /\ breakers'[n].failure_count = breakers[n].failure_count + 1
              /\ breakers'[n].state = (IF breakers[n].failure_count + 1 >= FailureThreshold
                                       THEN "Open" ELSE "Closed")
              => Breaker(n)!Next
           /\ /\ Rest(n)' = 0 /\ breakers[n].state \in {"Open", "HalfOpen"}
              /\ breakers'[n].failure_count = breakers[n].failure_count
              /\ breakers'[n].state = "Open"
              => Breaker(n)!Next
           /\ /\ Rest(n) < RecoveryTimeout /\ Rest(n)' = Rest(n) + 1
              /\ breakers'[n].state = breakers[n].state
              /\ breakers'[n].failure_count = breakers[n].failure_count
              => Breaker(n)!Next
           /\ /\ breakers'[n].state = breakers[n].state
              /\ breakers'[n].failure_count = breakers[n].failure_count
              /\ Rest(n)' = Rest(n)
              => UNCHANGED (Breaker(n)!vars)
<1>1. /\ breakers[n].state = "Open" /\ Rest(n) >= RecoveryTimeout
      /\ breakers'[n].state = "HalfOpen"
      /\ breakers'[n].failure_count = breakers[n].failure_count
      /\ Rest(n)' = Rest(n)
      => Breaker(n)!Probe
  BY DEF Breaker!Probe, Rest
<1>2. /\ breakers[n].state # "Open" /\ breakers'[n].state = "Closed"
      /\ breakers'[n].failure_count = 0
      /\ Rest(n)' = Rest(n)
      => Breaker(n)!RecordSuccess
  BY DEF Breaker!RecordSuccess, Rest
<1>3. /\ Rest(n)' = 0 /\ breakers[n].state = "Closed"
      /\ breakers'[n].failure_count = breakers[n].failure_count + 1
      /\ breakers'[n].state = (IF breakers[n].failure_count + 1 >= FailureThreshold
                               THEN "Open" ELSE "Closed")
      => Breaker(n)!RecordFailure
  BY DEF Breaker!RecordFailure, Rest
<1>4. /\ Rest(n)' = 0 /\ breakers[n].state \in {"Open", "HalfOpen"}
      /\ breakers'[n].failure_count = breakers[n].failure_count
      /\ breakers'[n].state = "Open"
      => Breaker(n)!RecordFailure
  BY DEF Breaker!RecordFailure, Rest
<1>5. /\ Rest(n) < RecoveryTimeout /\ Rest(n)' = Rest(n) + 1
      /\ breakers'[n].state = breakers[n].state
      /\ breakers'[n].failure_count = breakers[n].failure_count
      => Breaker(n)!Tick
  BY RegistryAssumption DEF Breaker!Tick, Breaker!MaxAge, Rest
<1>6. /\ breakers'[n].state = breakers[n].state
      /\ breakers'[n].failure_count = breakers[n].failure_count
      /\ Rest(n)' = Rest(n)
      => UNCHANGED (Breaker(n)!vars)
  BY DEF Breaker!vars, Rest
<1> QED
  BY <1>1, <1>2, <1>3, <1>4, <1>5, <1>6 DEF Breaker!Next

\* Every step of the registry is, for every breaker, a step of the machine or
\* none.
LEMMA FSMStep ==
    ASSUME RegistryInv, [RegistryNext]_registryVars, NEW n \in Names
    PROVE  [Breaker(n)!Next]_(Breaker(n)!vars)
<1>a. /\ breakers \in [Names -> BreakerType] /\ breakers[n] \in BreakerType
      /\ breakers[n].state \in {"Closed", "Open", "HalfOpen"}
      /\ rested \in [Names -> 0..MaxAge] /\ breakers[n].age \in Int
      /\ breakers[n].age <= rested[n]
      /\ RecoveryTimeout \in Nat /\ MaxAge \in Nat /\ RecoveryTimeout <= MaxAge
  BY Typed, RegistryAssumption DEF BreakerType, MaxAge
<1> DEFINE Stutters == /\ breakers'[n].state = breakers[n].state
                       /\ breakers'[n].failure_count = breakers[n].failure_count
                       /\ Rest(n)' = Rest(n)
<1>b. Stutters => [Breaker(n)!Next]_(Breaker(n)!vars)
  BY FSMMoves
<1>1. CASE UNCHANGED <<breakers, rested>>
  <2>1. Stutters
    BY <1>1 DEF Rest
  <2> QED
    BY <1>b, <2>1
<1>2. ASSUME NEW m \in Names, Register(m) PROVE Stutters
  <2>1. breakers' = breakers /\ rested' = rested
    BY <1>2, <1>a DEF Register, RegistryInv, FreshBeforeServing
  <2> QED
    BY <2>1 DEF Rest
<1>3. ASSUME NEW t \in Tasks, NEW m \in Names,
             RejectInvalid(t, m) \/ Execute(t, m)
      PROVE  [Breaker(n)!Next]_(Breaker(n)!vars)
  <2>1. /\ rested' = rested /\ CanExecute(breakers[m])
        /\ breakers' = [breakers EXCEPT ![m] = Admitted(breakers[m])]
    BY <1>3 DEF RejectInvalid, Execute
  <2>2. CASE m # n
    BY <1>a, <1>b, <2>1, <2>2 DEF Rest
  <2>3. CASE m = n /\ breakers[n].state = "Open"
    <3>1. rested[n] >= RecoveryTimeout
      BY <1>a, <2>1, <2>3 DEF CanExecute, Elapsed
    <3>2. Rest(n) >= RecoveryTimeout /\ Rest(n)' = Rest(n)
      BY <1>a, <2>1, <3>1 DEF Rest
    <3>3. /\ breakers'[n].state = "HalfOpen"
          /\ breakers'[n].failure_count = breakers[n].failure_count
      BY <1>a, <2>1, <2>3, AdmittedEffect
    <3> QED
      BY <2>3, <3>2, <3>3, FSMMoves
  <2>4. CASE m = n /\ breakers[n].state # "Open"
    <3>1. Stutters
      BY <1>a, <2>1, <2>4, AdmittedEffect DEF Rest
    <3> QED
      BY <1>b, <3>1
  <2> QED
    BY <2>2, <2>3, <2>4
<1>4. ASSUME NEW t \in Tasks, Succeed(t)
      PROVE  [Breaker(n)!Next]_(Breaker(n)!vars)
  <2>1. /\ rested' = rested
        /\ breakers' = [breakers EXCEPT ![executing[t]] = AfterSuccess(breakers[executing[t]])]
    BY <1>4 DEF Succeed
  <2>2. Rest(n)' = Rest(n)
    BY <2>1 DEF Rest
  <2>3. CASE executing[t] # n \/ breakers[n].state = "Open"
    <3>1. breakers'[n] = breakers[n]
      BY <1>a, <2>1, <2>3, AfterSuccessEffect
    <3> QED
      BY <1>b, <2>2, <3>1
  <2>4. CASE executing[t] = n /\ breakers[n].state # "Open"
    <3>1. breakers'[n].state = "Closed" /\ breakers'[n].failure_count = 0
      BY <1>a, <2>1, <2>4, AfterSuccessEffect
    <3> QED
      BY <2>2, <2>4, <3>1, FSMMoves
  <2> QED
    BY <2>3, <2>4
<1>5. ASSUME NEW t \in Tasks, NEW r, Fail(t, r)
      PROVE  [Breaker(n)!Next]_(Breaker(n)!vars)
  <2>1. /\ breakers' = [breakers EXCEPT ![executing[t]] = AfterFailure(breakers[executing[t]])]
        /\ rested' = [rested EXCEPT ![executing[t]] = 0]
    BY <1>5 DEF Fail
  <2>2. CASE executing[t] # n
    <3>1. breakers'[n] = breakers[n] /\ rested'[n] = rested[n]
      BY <1>a, <2>1, <2>2
    <3> QED
      BY <1>b, <3>1 DEF Rest
  <2>3. CASE executing[t] = n
    <3>1. breakers'[n] = AfterFailure(breakers[n]) /\ rested'[n] = 0
      BY <1>a, <2>1, <2>3
    <3>2. Rest(n)' = 0
      BY <1>a, <3>1 DEF Rest
    <3>3. CASE breakers[n].state = "Closed"
      BY <1>a, <3>1, <3>2, <3>3, AfterFailureEffect, FSMMoves
    <3>4. CASE breakers[n].state # "Closed"
      <4>1. breakers[n].state \in {"Open", "HalfOpen"}
        BY <1>a, <3>4
      <4>2. breakers'[n].state = "Open" /\ breakers'[n].failure_count = breakers[n].failure_count
        BY <1>a, <3>1, <3>4, AfterFailureEffect
      <4> QED
        BY <3>2, <4>1, <4>2, FSMMoves
    <3> QED
      BY <3>3, <3>4
  <2> QED
    BY <2>2, <2>3
<1>6. ASSUME Tick \/ ClockSetBack
      PROVE  [Breaker(n)!Next]_(Breaker(n)!vars)
  <2>1. /\ breakers'[n].state = breakers[n].state
        /\ breakers'[n].failure_count = breakers[n].failure_count
    BY <1>6, <1>a DEF Tick, ClockSetBack, BreakerType
  <2>2. rested'[n] = rested[n] \/ (rested[n] < MaxAge /\ rested'[n] = rested[n] + 1)
    BY <1>6, <1>a DEF Tick, ClockSetBack, Older
  <2>3. Rest(n)' = Rest(n) \/ (Rest(n) < RecoveryTimeout /\ Rest(n)' = Rest(n) + 1)
    BY <1>a, <2>2 DEF Rest
  <2> QED
    BY <1>b, <2>1, <2>3, FSMMoves
<1>7. ASSUME NEW t \in Tasks, DispatchStep(t)
      PROVE  [Breaker(n)!Next]_(Breaker(n)!vars)
  <2>1. ASSUME NEW m \in Names, RejectUnknown(t, m) \/ RejectOpen(t, m)
        PROVE  UNCHANGED <<breakers, rested>>
    BY <2>1 DEF RejectUnknown, RejectOpen
  <2>2. ASSUME Cancel(t) PROVE UNCHANGED <<breakers, rested>>
    BY <2>2 DEF Cancel
  <2> HIDE DEF Stutters
  <2> QED
    BY <1>1, <1>3, <1>4, <1>5, <1>7, <2>1, <2>2 DEF DispatchStep
<1>8. ASSUME Share \/ UNCHANGED registryVars PROVE UNCHANGED <<breakers, rested>>
  BY <1>8 DEF Share, registryVars
<1> HIDE DEF Stutters
<1> QED
  BY <1>b, <1>1, <1>2, <1>6, <1>7, <1>8 DEF RegistryNext

\* Every breaker of the registry implements the sequential machine on real time:
\* no setting back of the wall clock lets a probe through early.
THEOREM BreakersImplementFSMHolds == RegistrySpec => BreakersImplementFSM
<1>1. RegistryInv /\ [RegistryNext]_registryVars
        => [\A n \in Names : [Breaker(n)!Next]_(Breaker(n)!vars)]_registryVars
  BY FSMStep
<1> QED
  BY <1>1, FSMInit, RegistryInvariant, PTL DEF RegistrySpec, BreakersImplementFSM

=============================================================================
