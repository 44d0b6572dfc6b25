------------------------ MODULE ParallelTasksProofs ------------------------
(***************************************************************************)
(* Proofs about ParallelTasks, for every set of subtasks and every set of  *)
(* errors a branch may end with, about TimeoutContext, for every set of    *)
(* tokens, and about the two side by side.                                 *)
(***************************************************************************)
EXTENDS MCParallelTasks, FiniteSetTheorems, TLAPS

(***************************************************************************)
(* Types.                                                                  *)
(***************************************************************************)

\* The strings the outcome and the answer are told apart by.
LEMMA OutcomesApart ==
    /\ "none" \notin Outcomes /\ "Ok" \notin Outcomes
    /\ {"Success", "Timeout"} \subseteq Outcomes
  BY ParallelAssumption DEF Outcomes, PlanErrors

\* No branch exists yet.
LEMMA ParallelTypeInit == ParallelInit => ParallelTypeOK
  BY ParallelAssumption, OutcomesApart
     DEF ParallelInit, ParallelTypeOK, Stopped, Gone

\* Each step of a branch, of the parent and of time keeps the types.
LEMMA ParallelTypeStep ==
    ParallelTypeOK /\ [ParallelNext]_parallelVars => ParallelTypeOK'
<1> SUFFICES ASSUME ParallelTypeOK, [ParallelNext]_parallelVars
             PROVE  ParallelTypeOK'
  OBVIOUS
<1> USE ParallelAssumption, OutcomesApart DEF Stopped, Gone
<1>1. ASSUME NEW b \in Subtasks, Spawn(b) PROVE ParallelTypeOK'
  BY <1>1 DEF Spawn, Moves, ParallelTypeOK
<1>2. ASSUME NEW b \in Subtasks, Poll(b) PROVE ParallelTypeOK'
  BY <1>2 DEF Poll, Moves, ParallelTypeOK
<1>3. ASSUME NEW b \in Subtasks, Call(b) PROVE ParallelTypeOK'
  <2>1. /\ UNCHANGED <<aborted, age, results, parent, answer>>
        /\ calls' \in [Subtasks -> 0..CallBudget]
    BY <1>3 DEF Call, ParallelTypeOK
  <2>2. \/ UNCHANGED <<branch, outcome>>
        \/ /\ branch' = [branch EXCEPT ![b] = "cancelled"]
           /\ b \in aborted /\ outcome' = outcome
        \/ branch' = [branch EXCEPT ![b] = "waiting"] /\ outcome' = outcome
        \/ /\ branch' = [branch EXCEPT ![b] = "ended"]
           /\ outcome' = [outcome EXCEPT ![b] = "Timeout"]
    BY <1>3 DEF Call, Moves, Ended
  <2>3. branch[b] = "running"
    BY <1>3 DEF Call
  <2>4. branch' \in [Subtasks -> {"none", "ready", "running", "waiting"} \cup Stopped]
        /\ outcome' \in [Subtasks -> Outcomes \cup {"none"}]
    BY <2>2 DEF ParallelTypeOK
  <2>5. \A c \in Subtasks :
           /\ outcome'[c] # "none" <=> branch'[c] \in {"ended", "joined"}
           /\ branch'[c] = "cancelled" => c \in aborted
    BY <2>2, <2>3 DEF ParallelTypeOK
  <2> QED
    BY <2>1, <2>4, <2>5 DEF ParallelTypeOK
<1>4. ASSUME NEW b \in Subtasks, End(b) PROVE ParallelTypeOK'
  BY <1>4 DEF End, Moves, Ended, ParallelTypeOK
<1>13. ASSUME NEW b \in Subtasks, Expire(b) PROVE ParallelTypeOK'
  BY <1>13 DEF Expire, Moves, Ended, ParallelTypeOK
<1>5. ASSUME NEW b \in Subtasks, Wake(b) PROVE ParallelTypeOK'
  BY <1>5 DEF Wake, Moves, ParallelTypeOK
<1>6. CASE AwaitBranches
  BY <1>6 DEF AwaitBranches, ParallelTypeOK
<1>7. ASSUME NEW b \in Subtasks, JoinSuccess(b) PROVE ParallelTypeOK'
  BY <1>7 DEF JoinSuccess, Moves, ParallelTypeOK
<1>8. ASSUME NEW b \in Subtasks, JoinFailure(b) PROVE ParallelTypeOK'
  BY <1>8 DEF JoinFailure, Moves, Unjoined, ParallelTypeOK
<1>9. CASE Collect
  BY <1>9 DEF Collect, ParallelTypeOK
<1>10. CASE DropParent
  BY <1>10 DEF DropParent, Unjoined, ParallelTypeOK
<1>11. CASE PassTime
  BY <1>11 DEF PassTime, ParallelTypeOK
<1>12. CASE UNCHANGED parallelVars
  BY <1>12 DEF parallelVars, ParallelTypeOK
<1> QED
  BY <1>1, <1>2, <1>3, <1>4, <1>5, <1>6, <1>7, <1>8, <1>9, <1>10, <1>11, <1>12, <1>13
     DEF ParallelNext, Branch, Join

\* A branch has an outcome exactly if it ended by itself, and is cancelled only
\* if its abort was asked for.
THEOREM ParallelTypesHold == ParallelSpec => []ParallelTypeOK
  BY ParallelTypeInit, ParallelTypeStep, PTL DEF ParallelSpec

-----------------------------------------------------------------------------

(***************************************************************************)
(* The work of a plan stops with it.  Once the parent is gone the abort of *)
(* every branch in the JoinSet is asked for, so that a branch that has     *)
(* suspended is dropped when it would be polled next.                      *)
(***************************************************************************)

AbortedWithParent ==
    parent \in Gone => \A b \in Subtasks : branch[b] = "joined" \/ b \in aborted

StopInv == ParallelTypeOK /\ AbortedWithParent

\* The parent is not gone before it has begun.
LEMMA StopInit == ParallelInit => StopInv
  BY ParallelTypeInit DEF ParallelInit, StopInv, AbortedWithParent, Gone

\* A step of one branch that is not joined keeps the aborts of all branches.
LEMMA BranchStep ==
    ASSUME StopInv, NEW b \in Subtasks, branch[b] # "joined",
           UNCHANGED <<aborted, parent>>,
           \A c \in Subtasks \ {b} : branch'[c] = branch[c]
    PROVE  AbortedWithParent'
  BY DEF StopInv, AbortedWithParent

\* Each step keeps the aborts.
LEMMA StopStep == StopInv /\ [ParallelNext]_parallelVars => StopInv'
<1> SUFFICES ASSUME StopInv, [ParallelNext]_parallelVars PROVE AbortedWithParent'
  BY ParallelTypeStep DEF StopInv
<1>a. branch \in [Subtasks -> {"none", "ready", "running", "waiting"} \cup Stopped]
      /\ AbortedWithParent
  BY DEF StopInv, ParallelTypeOK
<1>1. ASSUME NEW b \in Subtasks, Spawn(b) \/ Wake(b) \/ Branch(b)
      PROVE  AbortedWithParent'
  <2>1. UNCHANGED <<aborted, parent>> /\ branch[b] # "joined"
    BY <1>1 DEF Spawn, Wake, Branch, Poll, Expire, Call, End, Moves
  <2>2. branch' = branch \/ \E to : branch' = [branch EXCEPT ![b] = to]
    BY <1>1 DEF Spawn, Wake, Branch, Poll, Expire, Call, End, Moves
  <2>3. \A c \in Subtasks \ {b} : branch'[c] = branch[c]
    BY <1>a, <2>2
  <2> QED
    BY <2>1, <2>3, BranchStep
<1>2. ASSUME NEW b \in Subtasks, JoinSuccess(b) PROVE AbortedWithParent'
  BY <1>2 DEF JoinSuccess, AbortedWithParent, Gone
<1>3. ASSUME NEW b \in Subtasks, JoinFailure(b) PROVE AbortedWithParent'
  BY <1>3, <1>a DEF JoinFailure, Moves, Unjoined, AbortedWithParent, Gone
<1>4. CASE AwaitBranches
  BY <1>4 DEF AwaitBranches, AbortedWithParent, Gone
<1>5. CASE Collect
  BY <1>5 DEF Collect, Unjoined, AbortedWithParent
<1>6. CASE DropParent
  BY <1>6 DEF DropParent, Unjoined, AbortedWithParent
<1>7. CASE PassTime \/ UNCHANGED parallelVars
  <2>1. UNCHANGED <<branch, aborted, parent>>
    BY <1>7 DEF PassTime, parallelVars
  <2> QED
    BY <2>1 DEF AbortedWithParent, StopInv
<1> QED
  BY <1>1, <1>2, <1>3, <1>4, <1>5, <1>6, <1>7 DEF ParallelNext, Join

\* A branch that is aborted leaves a poll it has not begun only by being dropped.
LEMMA StopsNow ==
    ASSUME StopInv, [ParallelNext]_parallelVars, parent \in Gone,
           NEW b \in Subtasks, branch[b] # "running"
    PROVE  calls'[b] = calls[b] /\ branch'[b] # "running"
<1>a. /\ branch \in [Subtasks -> {"none", "ready", "running", "waiting"} \cup Stopped]
      /\ calls \in [Subtasks -> 0..CallBudget]
      /\ branch[b] = "joined" \/ b \in aborted
  BY DEF StopInv, ParallelTypeOK, AbortedWithParent
<1>1. ASSUME NEW c \in Subtasks, Spawn(c) \/ JoinSuccess(c) \/ JoinFailure(c)
      PROVE  FALSE
  BY <1>1 DEF Spawn, JoinSuccess, JoinFailure, Gone
<1>2. CASE AwaitBranches \/ Collect \/ DropParent
  BY <1>2 DEF AwaitBranches, Collect, DropParent, Gone
<1>3. CASE PassTime \/ UNCHANGED parallelVars
  BY <1>3 DEF PassTime, parallelVars
<1>4. ASSUME NEW c \in Subtasks, Wake(c) \/ Expire(c)
      PROVE  calls'[b] = calls[b] /\ branch'[b] # "running"
  <2>1. calls' = calls /\ \E to \in {"ready", "ended"} :
                            branch' = [branch EXCEPT ![c] = to]
    BY <1>4 DEF Wake, Expire, Moves
  <2> QED
    BY <1>a, <2>1
<1>5. ASSUME NEW c \in Subtasks, Poll(c)
      PROVE  calls'[b] = calls[b] /\ branch'[b] # "running"
  <2>1. /\ calls' = calls /\ branch[c] = "ready"
        /\ branch' = [branch EXCEPT ![c] = IF c \in aborted THEN "cancelled"
                                           ELSE "running"]
    BY <1>5 DEF Poll, Moves
  <2>2. b = c => b \in aborted
    BY <1>a, <2>1
  <2> QED
    BY <1>a, <2>1, <2>2
<1>6. ASSUME NEW c \in Subtasks, Call(c) \/ End(c)
      PROVE  calls'[b] = calls[b] /\ branch'[b] # "running"
  <2>1. /\ branch[c] = "running"
        /\ branch' = branch \/ \E to : branch' = [branch EXCEPT ![c] = to]
        /\ calls' = calls \/ calls' = [calls EXCEPT ![c] = @ + 1]
    BY <1>6 DEF Call, End, Moves
  <2>2. b # c
    BY <2>1
  <2> QED
    BY <1>a, <2>1, <2>2
<1> QED
  BY <1>1, <1>2, <1>3, <1>4, <1>5, <1>6 DEF ParallelNext, Branch, Join

\* Once execute_parallel has returned an error or was dropped, no branch is run
\* again, and only what a worker is just running makes calls to the end of its
\* poll.
THEOREM WorkStopsWithParentHolds == ParallelSpec => WorkStopsWithParent
<1>1. StopInv /\ [ParallelNext]_parallelVars
         => [\A b \in Subtasks :
                parent \in Gone /\ branch[b] # "running" =>
                    calls'[b] = calls[b] /\ branch'[b] # "running"]_parallelVars
  BY StopsNow
<1> QED
  BY <1>1, StopInit, StopStep, PTL DEF ParallelSpec, WorkStopsWithParent

-----------------------------------------------------------------------------

(***************************************************************************)
(* The answer of a plan.  Until it returns, what the parent has joined are *)
(* successes, whose results it has pushed once each; and a branch that has *)
(* any outcome but its own panic or exhaustion has made a call.            *)
(***************************************************************************)

Joined == {b \in Subtasks : branch[b] = "joined"}

OutcomeNeedsCall ==
    \A b \in Subtasks :
        outcome[b] \in Outcomes \ {"JoinError", "MaxIterationsReached"} => calls[b] > 0

\* The results pushed are those of a set of branches, once each.
ResultsOfJoined ==
    /\ Len(results) = Cardinality(ToSet(results))
    /\ ToSet(results) = {b \in Joined : outcome[b] = "Success"}

AnswerSoFar ==
    /\ parent # "returned" => \A b \in Joined : outcome[b] = "Success"
    /\ parent = "returned" =>
          IF answer = "Ok" THEN \A b \in Subtasks : b \in Joined /\ outcome[b] = "Success"
          ELSE \E b \in Joined : outcome[b] = answer

\* Time passes for a branch from its first poll on, which ends with a call if it
\* does not end the branch.
AgeNeedsCall ==
    \A b \in Subtasks :
        /\ branch[b] \in {"none", "ready"} => age[b] = 0 \/ calls[b] > 0
        /\ branch[b] = "waiting" => calls[b] > 0

AnswerInv ==
    /\ ParallelTypeOK /\ OutcomeNeedsCall /\ AgeNeedsCall
    /\ ResultsOfJoined /\ AnswerSoFar

\* Nothing is joined and nothing has an outcome.
LEMMA AnswerInit == ParallelInit => AnswerInv
<1> SUFFICES ASSUME ParallelInit PROVE AnswerInv
  OBVIOUS
<1>1. ParallelTypeOK /\ Joined = {}
  BY ParallelTypeInit DEF ParallelInit, Joined
<1>2. OutcomeNeedsCall
  BY OutcomesApart DEF ParallelInit, OutcomeNeedsCall
<1>3. ToSet(results) = {} /\ Len(results) = 0
  BY DEF ParallelInit, ToSet
<1>4. ResultsOfJoined
  BY <1>1, <1>3, FS_EmptySet DEF ResultsOfJoined
<1>5. AnswerSoFar
  BY <1>1 DEF ParallelInit, AnswerSoFar
<1>6. AgeNeedsCall
  BY DEF ParallelInit, AgeNeedsCall
<1> QED
  BY <1>1, <1>2, <1>4, <1>5, <1>6 DEF AnswerInv

\* A branch suspends only at a call, and time passes for no branch before it.
LEMMA AgeStep ==
    ParallelTypeOK /\ AgeNeedsCall /\ [ParallelNext]_parallelVars => AgeNeedsCall'
<1> SUFFICES ASSUME ParallelTypeOK, AgeNeedsCall, [ParallelNext]_parallelVars
             PROVE  AgeNeedsCall'
  OBVIOUS
<1> USE ParallelAssumption DEF ParallelAssumption
<1>a. /\ branch \in [Subtasks -> {"none", "ready", "running", "waiting"} \cup Stopped]
      /\ age \in [Subtasks -> 0..TaskTimeout]
      /\ calls \in [Subtasks -> 0..CallBudget]
  BY DEF ParallelTypeOK
<1>1. ASSUME NEW b \in Subtasks, Call(b) PROVE AgeNeedsCall'
  <2>1. /\ branch[b] = "running" /\ age' = age /\ calls' = [calls EXCEPT ![b] = @ + 1]
        /\ branch' = branch \/ \E to : branch' = [branch EXCEPT ![b] = to]
    BY <1>1 DEF Call, Moves
  <2>2. calls'[b] > 0
    BY <1>a, <2>1
  <2>3. \A c \in Subtasks \ {b} : branch'[c] = branch[c] /\ calls'[c] = calls[c]
    BY <1>a, <2>1
  <2> QED
    BY <2>1, <2>2, <2>3 DEF AgeNeedsCall
<1>2. ASSUME NEW b \in Subtasks,
             Spawn(b) \/ Poll(b) \/ Expire(b) \/ End(b) \/ Wake(b)
                 \/ JoinSuccess(b) \/ JoinFailure(b)
      PROVE  AgeNeedsCall'
  <2>1. /\ UNCHANGED <<age, calls>>
        /\ \/ branch[b] \in {"none", "waiting"} /\ branch' = [branch EXCEPT ![b] = "ready"]
           \/ \E to \in {"running"} \cup Stopped : branch' = [branch EXCEPT ![b] = to]
    BY <1>2 DEF Spawn, Poll, Expire, End, Wake, JoinSuccess, JoinFailure, Moves, Stopped
  <2> QED
    BY <1>a, <2>1 DEF AgeNeedsCall, Stopped
<1>3. CASE AwaitBranches \/ Collect \/ DropParent \/ UNCHANGED parallelVars
  <2>1. UNCHANGED <<branch, age, calls>>
    BY <1>3 DEF AwaitBranches, Collect, DropParent, parallelVars
  <2> QED
    BY <2>1 DEF AgeNeedsCall
<1>4. CASE PassTime
  <2>1. /\ UNCHANGED <<branch, calls>>
        /\ \A b \in Subtasks \ Aging : age'[b] = age[b]
    BY <1>4 DEF PassTime
  <2>2. ASSUME NEW b \in Subtasks, branch[b] \in {"none", "ready"}
        PROVE  age'[b] = 0 \/ calls'[b] > 0
    BY <1>a, <2>1, <2>2 DEF AgeNeedsCall, Aging
  <2> QED
    BY <2>1, <2>2 DEF AgeNeedsCall
<1> QED
  BY <1>1, <1>2, <1>3, <1>4 DEF ParallelNext, Branch, Join

\* A branch that is not joined by a step keeps what was joined, its outcome and
\* its answer.
LEMMA UnjoinedStep ==
    ASSUME Joined' = Joined, \A b \in Joined : outcome'[b] = outcome[b],
           UNCHANGED results, AnswerInv
    PROVE  /\ ResultsOfJoined'
           /\ UNCHANGED <<parent, answer>> => AnswerSoFar'
<1> USE DEF AnswerInv
<1>1. ResultsOfJoined'
  <2>1. {b \in Joined' : outcome'[b] = "Success"} = {b \in Joined : outcome[b] = "Success"}
    OBVIOUS
  <2> QED
    BY <2>1 DEF ResultsOfJoined
<1>2. ASSUME UNCHANGED <<parent, answer>> PROVE AnswerSoFar'
  BY <1>2 DEF AnswerSoFar, Joined
<1> QED
  BY <1>1, <1>2

\* Appending an element adds it to the set of the elements.
LEMMA AppendAdds ==
    ASSUME NEW S, NEW seq \in Seq(S), NEW e \in S
    PROVE  /\ ToSet(Append(seq, e)) = ToSet(seq) \cup {e}
           /\ Len(Append(seq, e)) = Len(seq) + 1
<1> DEFINE new == Append(seq, e)
<1>1. /\ DOMAIN seq = 1..Len(seq) /\ Len(seq) \in Nat
      /\ DOMAIN new = 1..(Len(seq) + 1) /\ Len(new) = Len(seq) + 1
      /\ \A i \in 1..Len(seq) : new[i] = seq[i]
      /\ new[Len(seq) + 1] = e
  OBVIOUS
<1> HIDE DEF new
<1>2. ToSet(new) = ToSet(seq) \cup {e}
  <2>1. ASSUME NEW x \in ToSet(new) PROVE x \in ToSet(seq) \cup {e}
    BY <1>1, <2>1 DEF ToSet
  <2>2. ASSUME NEW x \in ToSet(seq) PROVE x \in ToSet(new)
    BY <1>1, <2>2 DEF ToSet
  <2>3. e \in ToSet(new)
    BY <1>1 DEF ToSet
  <2> QED
    BY <2>1, <2>2, <2>3
<1> QED
  BY <1>1, <1>2 DEF new

\* Each step keeps the outcomes, the results and the answer.
LEMMA AnswerStep == AnswerInv /\ [ParallelNext]_parallelVars => AnswerInv'
<1> SUFFICES ASSUME AnswerInv, [ParallelNext]_parallelVars
             PROVE  OutcomeNeedsCall' /\ ResultsOfJoined' /\ AnswerSoFar'
  BY ParallelTypeStep, AgeStep DEF AnswerInv
<1>a. /\ branch \in [Subtasks -> {"none", "ready", "running", "waiting"} \cup Stopped]
      /\ outcome \in [Subtasks -> Outcomes \cup {"none"}]
      /\ calls \in [Subtasks -> 0..CallBudget]
      /\ results \in Seq(Subtasks)
      /\ OutcomeNeedsCall /\ ResultsOfJoined /\ AnswerSoFar
  BY DEF AnswerInv, ParallelTypeOK
<1>b. "none" \notin Outcomes /\ "Ok" \notin Outcomes
  BY OutcomesApart
<1>1. ASSUME NEW b \in Subtasks, Spawn(b) \/ Poll(b) \/ Wake(b)
      PROVE  OutcomeNeedsCall' /\ ResultsOfJoined' /\ AnswerSoFar'
  <2>1. /\ UNCHANGED <<outcome, calls, results, parent, answer>>
        /\ branch[b] \in {"none", "ready", "waiting"}
        /\ \E to \in {"ready", "running", "cancelled"} : branch' = [branch EXCEPT ![b] = to]
    BY <1>1 DEF Spawn, Poll, Wake, Moves
  <2>2. Joined' = Joined
    BY <1>a, <2>1 DEF Joined
  <2> QED
    BY <1>a, <2>1, <2>2, UnjoinedStep DEF OutcomeNeedsCall
<1>3. ASSUME NEW b \in Subtasks, Call(b)
      PROVE  OutcomeNeedsCall' /\ ResultsOfJoined' /\ AnswerSoFar'
  <2>1. /\ UNCHANGED <<results, parent, answer>> /\ branch[b] = "running"
        /\ calls' = [calls EXCEPT ![b] = @ + 1]
        /\ branch' = branch \/ \E to \in {"waiting", "cancelled", "ended"} :
                                 branch' = [branch EXCEPT ![b] = to]
        /\ \A c \in Subtasks \ {b} : outcome'[c] = outcome[c]
    BY <1>3, <1>a DEF Call, Moves, Ended
  <2>2. Joined' = Joined /\ b \notin Joined
    BY <1>a, <2>1 DEF Joined
  <2>3. calls'[b] > 0 /\ \A c \in Subtasks \ {b} : calls'[c] = calls[c]
    BY <1>a, <2>1
  <2>4. OutcomeNeedsCall'
    BY <1>a, <2>1, <2>3 DEF OutcomeNeedsCall
  <2>5. \A c \in Joined : outcome'[c] = outcome[c]
    BY <2>1, <2>2 DEF Joined
  <2> QED
    BY <2>1, <2>2, <2>4, <2>5, UnjoinedStep
<1>2. ASSUME NEW b \in Subtasks, Expire(b)
      PROVE  OutcomeNeedsCall' /\ ResultsOfJoined' /\ AnswerSoFar'
  <2>1. /\ UNCHANGED <<calls, results, parent, answer>> /\ branch[b] = "ready"
        /\ branch' = [branch EXCEPT ![b] = "ended"]
        /\ outcome' = [outcome EXCEPT ![b] = "Timeout"]
        /\ age[b] >= TaskTimeout
    BY <1>2 DEF Expire, Moves, Ended
  <2>2. calls[b] > 0
    BY <1>a, <2>1, ParallelAssumption DEF AnswerInv, AgeNeedsCall, ParallelAssumption
  <2>3. Joined' = Joined /\ b \notin Joined
    BY <1>a, <2>1 DEF Joined
  <2>4. OutcomeNeedsCall'
    BY <1>a, <2>1, <2>2 DEF OutcomeNeedsCall
  <2>5. \A c \in Joined : outcome'[c] = outcome[c]
    BY <1>a, <2>1, <2>3 DEF Joined
  <2> QED
    BY <2>1, <2>3, <2>4, <2>5, UnjoinedStep
<1>4. ASSUME NEW b \in Subtasks, End(b)
      PROVE  OutcomeNeedsCall' /\ ResultsOfJoined' /\ AnswerSoFar'
  <2>1. /\ UNCHANGED <<calls, results, parent, answer>> /\ branch[b] = "running"
        /\ branch' = [branch EXCEPT ![b] = "ended"]
    BY <1>4 DEF End, Moves
  <2>2. PICK r \in Outcomes : /\ r \in {"JoinError", "MaxIterationsReached"} \/ calls[b] > 0
                              /\ outcome' = [outcome EXCEPT ![b] = r]
    BY <1>4 DEF End, Ended
  <2>3. Joined' = Joined /\ b \notin Joined
    BY <1>a, <2>1 DEF Joined
  <2>4. OutcomeNeedsCall'
    BY <1>a, <2>1, <2>2 DEF OutcomeNeedsCall
  <2>5. \A c \in Joined : outcome'[c] = outcome[c]
    BY <1>a, <2>2, <2>3 DEF Joined
  <2> QED
    BY <2>1, <2>3, <2>4, <2>5, UnjoinedStep
<1>5. CASE AwaitBranches \/ DropParent
  <2>1. UNCHANGED <<branch, outcome, calls, results, answer>>
        /\ parent # "returned" /\ parent' # "returned"
    BY <1>5 DEF AwaitBranches, DropParent
  <2>2. Joined' = Joined
    BY <2>1 DEF Joined
  <2>3. ResultsOfJoined' /\ OutcomeNeedsCall'
    BY <1>a, <2>1, <2>2, UnjoinedStep DEF OutcomeNeedsCall
  <2>4. AnswerSoFar'
    BY <1>a, <2>1, <2>2 DEF AnswerSoFar
  <2> QED
    BY <2>3, <2>4
<1>6. CASE PassTime \/ UNCHANGED parallelVars
  <2>1. UNCHANGED <<branch, outcome, calls, results, parent, answer>>
    BY <1>6 DEF PassTime, parallelVars
  <2>2. Joined' = Joined
    BY <2>1 DEF Joined
  <2> QED
    BY <1>a, <2>1, <2>2, UnjoinedStep DEF OutcomeNeedsCall
<1>7. ASSUME NEW b \in Subtasks, JoinSuccess(b)
      PROVE  OutcomeNeedsCall' /\ ResultsOfJoined' /\ AnswerSoFar'
  <2>1. /\ UNCHANGED <<outcome, calls, parent, answer>> /\ parent = "joining"
        /\ outcome[b] = "Success" /\ branch[b] = "ended"
        /\ branch' = [branch EXCEPT ![b] = "joined"]
        /\ results' = Append(results, b)
    BY <1>7 DEF JoinSuccess, Moves
  <2>2. Joined' = Joined \cup {b} /\ b \notin Joined
    BY <1>a, <2>1 DEF Joined
  <2>3. ToSet(results') = ToSet(results) \cup {b} /\ Len(results') = Len(results) + 1
    BY <1>a, <2>1, AppendAdds
  <2>4. ToSet(results) \subseteq Subtasks /\ b \notin ToSet(results)
    BY <1>a, <2>2 DEF ResultsOfJoined, Joined
  <2>5. Cardinality(ToSet(results) \cup {b}) = Cardinality(ToSet(results)) + 1
    BY <2>4, ParallelAssumption, FS_Subset, FS_AddElement DEF ParallelAssumption
  <2>6. ResultsOfJoined'
    <3>1. Len(results') = Cardinality(ToSet(results'))
      BY <1>a, <2>3, <2>5 DEF ResultsOfJoined
    <3>2. ToSet(results') = {c \in Joined' : outcome'[c] = "Success"}
      BY <1>a, <2>1, <2>2, <2>3 DEF ResultsOfJoined
    <3> QED
      BY <3>1, <3>2 DEF ResultsOfJoined
  <2>7. AnswerSoFar'
    BY <1>a, <2>1, <2>2 DEF AnswerSoFar
  <2> QED
    BY <1>a, <2>1, <2>6, <2>7 DEF OutcomeNeedsCall
<1>8. ASSUME NEW b \in Subtasks, JoinFailure(b)
      PROVE  OutcomeNeedsCall' /\ ResultsOfJoined' /\ AnswerSoFar'
  <2>1. /\ UNCHANGED <<outcome, calls, results>> /\ parent = "joining"
        /\ outcome[b] # "Success" /\ branch[b] = "ended"
        /\ branch' = [branch EXCEPT ![b] = "joined"]
        /\ parent' = "returned" /\ answer' = outcome[b]
    BY <1>8 DEF JoinFailure, Moves
  <2>2. Joined' = Joined \cup {b} /\ b \notin Joined
    BY <1>a, <2>1 DEF Joined
  <2>3. {c \in Joined' : outcome'[c] = "Success"} = {c \in Joined : outcome[c] = "Success"}
    BY <2>1, <2>2
  <2>4. ResultsOfJoined'
    BY <1>a, <2>1, <2>3 DEF ResultsOfJoined
  <2>5. answer' # "Ok"
    BY <1>a, <1>b, <2>1
  <2>6. AnswerSoFar'
    BY <2>1, <2>2, <2>5 DEF AnswerSoFar
  <2> QED
    BY <1>a, <2>1, <2>4, <2>6 DEF OutcomeNeedsCall
<1>9. CASE Collect
  <2>1. /\ UNCHANGED <<branch, outcome, calls, results>> /\ parent = "joining"
        /\ Unjoined = {} /\ parent' = "returned" /\ answer' = "Ok"
    BY <1>9 DEF Collect
  <2>2. Joined' = Joined /\ Joined = Subtasks
    BY <2>1 DEF Joined, Unjoined
  <2>3. ResultsOfJoined' /\ OutcomeNeedsCall'
    BY <1>a, <2>1, <2>2, UnjoinedStep DEF OutcomeNeedsCall
  <2>4. AnswerSoFar'
    BY <1>a, <2>1, <2>2 DEF AnswerSoFar
  <2> QED
    BY <2>3, <2>4
<1> QED
  BY <1>1, <1>2, <1>3, <1>4, <1>5, <1>6, <1>7, <1>8, <1>9
     DEF ParallelNext, Branch, Join

\* execute_parallel answers Ok exactly when every branch succeeded, with each of
\* their results once, and otherwise with what a branch ended with.
THEOREM AnswerIsOfBranchesHolds == ParallelSpec => []AnswerIsOfBranches
<1>1. AnswerInv => AnswerIsOfBranches
  <2> SUFFICES ASSUME AnswerInv, parent = "returned"
               PROVE  IF answer = "Ok"
                      THEN /\ \A b \in Subtasks : outcome[b] = "Success"
                           /\ ToSet(results) = Subtasks
                           /\ Len(results) = Cardinality(Subtasks)
                      ELSE \E b \in Subtasks :
                              /\ branch[b] = "joined" /\ outcome[b] = answer
                              /\ IsRetryable(answer) => calls[b] > 0
    BY DEF AnswerIsOfBranches
  <2>1. CASE answer = "Ok"
    <3>1. \A b \in Subtasks : b \in Joined /\ outcome[b] = "Success"
      BY <2>1 DEF AnswerInv, AnswerSoFar
    <3>2. ToSet(results) = Subtasks
      BY <3>1 DEF AnswerInv, ResultsOfJoined, Joined
    <3> QED
      BY <2>1, <3>1, <3>2 DEF AnswerInv, ResultsOfJoined
  <2>2. CASE answer # "Ok"
    <3>1. PICK b \in Joined : outcome[b] = answer
      BY <2>2 DEF AnswerInv, AnswerSoFar
    <3>2. b \in Subtasks /\ branch[b] = "joined"
      BY DEF Joined
    <3>3. answer \in Outcomes
      BY <3>1, <3>2 DEF AnswerInv, ParallelTypeOK
    <3>4. ASSUME IsRetryable(answer)
          PROVE  answer \notin {"JoinError", "MaxIterationsReached"}
      BY <3>4 DEF IsRetryable, Category
    <3>5. IsRetryable(answer) => calls[b] > 0
      BY <3>1, <3>2, <3>3, <3>4 DEF AnswerInv, OutcomeNeedsCall
    <3> QED
      BY <2>2, <3>1, <3>2, <3>5
  <2> QED
    BY <2>1, <2>2
<1> QED
  BY <1>1, AnswerInit, AnswerStep, PTL DEF ParallelSpec

-----------------------------------------------------------------------------

(***************************************************************************)
(* TimeoutContext.  The token a token is a child of is the level above it, *)
(* so that what a cancel reaches by the tree is what it is meant for.      *)
(***************************************************************************)

\* A token is made under its own level, which is made as well; a step under the
\* task.
TreeOfLevels ==
    /\ up = level
    /\ up[TaskToken] = TaskToken
    /\ \A s \in Steps : up[s] \in {s, TaskToken}
    /\ \A t \in Tools : up[t] = t \/ (up[t] \in Steps /\ up[up[t]] = TaskToken)

TimeoutInv == TimeoutTypeOK /\ TreeOfLevels /\ CancelReachesOwnLevels

\* Only the task's token exists, and it is not cancelled.
LEMMA TimeoutInitEstablishes == TimeoutInit => TimeoutInv
  BY TokensAssumption
     DEF TimeoutInit, TimeoutInv, TimeoutTypeOK, TreeOfLevels,
         CancelReachesOwnLevels, Tokens, Made, Below

\* A new token is reached by the cancels that reached the token it is made of.
LEMMA NewToken ==
    ASSUME TimeoutInv, NEW t \in Steps \cup Tools, NEW s \in Tokens, ChildToken(t, s),
           level' = [level EXCEPT ![t] = s],
           t \in Steps => s = TaskToken, t \in Tools => s \in Steps
    PROVE  TimeoutInv'
<1> USE TokensAssumption DEF Tokens
<1>1. /\ s \in Made /\ t \notin Made /\ t # s /\ asked' = asked
      /\ up' = [up EXCEPT ![t] = s]
      /\ up \in [Tokens -> Tokens] /\ level \in [Tokens -> Tokens]
      /\ asked \subseteq Made /\ TreeOfLevels
      /\ cancelled = {m \in Made : \E a \in asked : Below(level, m, a)}
      /\ cancelled' = IF s \in cancelled THEN cancelled \cup {t} ELSE cancelled
  BY DEF TimeoutInv, TimeoutTypeOK, CancelReachesOwnLevels, ChildToken
<1>2. Made' = Made \cup {t} /\ up' = level'
  BY <1>1 DEF Made, TreeOfLevels
<1>3. \A m \in Made : m # t /\ up[m] # t /\ up[up[m]] # t
  BY <1>1 DEF Made, TreeOfLevels
<1>4. \A m \in Made : up'[m] = up[m] /\ up'[up'[m]] = up[up[m]]
  BY <1>1, <1>3 DEF Made
<1>5. up'[t] = s /\ up'[s] = up[s] /\ up[up[s]] = up[s] /\ up[s] # t
  BY <1>1, <1>3 DEF Made, TreeOfLevels
<1>6. \A m \in Made : \A a : Below(level, m, a)' <=> Below(level, m, a)
  BY <1>1, <1>2, <1>4 DEF Below, TreeOfLevels
<1>7. \A a \in asked : Below(level, t, a)' <=> Below(level, s, a)
  BY <1>1, <1>2, <1>5 DEF Below, TreeOfLevels
<1>8. CancelReachesOwnLevels'
  <2>1. asked' = asked /\ t \notin Made /\ s \in Made /\ Made' = Made \cup {t}
    BY <1>1, <1>2
  <2>2. \A m \in Made : (\E a \in asked' : Below(level, m, a)') <=> m \in cancelled
    BY <1>1, <1>6
  <2>3. (\E a \in asked' : Below(level, t, a)') <=> s \in cancelled
    BY <1>1, <1>7
  <2>4. {m \in Made' : \E a \in asked' : Below(level, m, a)'} = cancelled'
    <3>1. cancelled \subseteq Made
      BY <1>1
    <3> QED
      BY <1>1, <2>1, <2>2, <2>3, <3>1
  <2> QED
    BY <2>4 DEF CancelReachesOwnLevels
<1>9. TimeoutTypeOK' /\ TreeOfLevels'
  BY <1>1, <1>2, <1>5 DEF TimeoutTypeOK, TreeOfLevels, Made
<1> QED
  BY <1>8, <1>9 DEF TimeoutInv

\* cancel reaches exactly the tokens at or below the one it is called on.
LEMMA CancelStep ==
    ASSUME TimeoutInv, NEW s \in Tokens, Cancelled(s)
    PROVE  TimeoutInv'
<1>1. /\ s \in Made /\ asked' = asked \cup {s} /\ up' = up /\ level' = level
      /\ TreeOfLevels /\ TimeoutTypeOK
      /\ cancelled = {m \in Made : \E a \in asked : Below(level, m, a)}
      /\ cancelled' = cancelled \cup {t \in Made : Below(level, t, s)}
  BY DEF TimeoutInv, CancelReachesOwnLevels, Cancelled, TreeOfLevels
<1>2. Made' = Made
  BY <1>1 DEF Made
<1>3. \A m, a : Below(level, m, a)' <=> Below(level, m, a)
  BY <1>1 DEF Below
<1>4. cancelled' = {m \in Made' : \E a \in asked' : Below(level, m, a)'}
  BY <1>1, <1>2, <1>3
<1>5. TimeoutTypeOK' /\ TreeOfLevels'
  BY <1>1, <1>2 DEF TimeoutTypeOK, TreeOfLevels
<1> QED
  BY <1>4, <1>5 DEF TimeoutInv, CancelReachesOwnLevels

\* Tokens are made and cancelled in any order.
LEMMA TimeoutStep == TimeoutInv /\ [TimeoutNext]_timeoutVars => TimeoutInv'
<1> SUFFICES ASSUME TimeoutInv, [TimeoutNext]_timeoutVars PROVE TimeoutInv'
  OBVIOUS
<1> USE TokensAssumption
<1>1. ASSUME NEW step \in Steps, NewStepToken(step) PROVE TimeoutInv'
  <2>1. step \notin Tools /\ TaskToken \in Tokens /\ ChildToken(step, TaskToken)
        /\ level' = [level EXCEPT ![step] = TaskToken]
    BY <1>1 DEF NewStepToken, Tokens
  <2> QED
    BY <2>1, NewToken
<1>2. ASSUME NEW tool \in Tools, NEW step \in Steps, NewToolToken(tool, step)
      PROVE  TimeoutInv'
  <2>1. tool \notin Steps /\ step \in Tokens /\ ChildToken(tool, step)
        /\ level' = [level EXCEPT ![tool] = step]
    BY <1>2 DEF NewToolToken, Tokens
  <2> QED
    BY <2>1, NewToken
<1>3. ASSUME NEW t \in Tokens, Cancelled(t) PROVE TimeoutInv'
  BY <1>3, CancelStep
<1>4. CASE UNCHANGED timeoutVars
  BY <1>4 DEF timeoutVars, TimeoutInv, TimeoutTypeOK, TreeOfLevels,
              CancelReachesOwnLevels, Made, Below
<1> QED
  BY <1>1, <1>2, <1>3, <1>4 DEF TimeoutNext, CancelTask, Tokens

\* A token is cancelled exactly when it, its step or its task is, whatever the
\* order in which the tokens are made and cancelled.
THEOREM CancelReachesOwnLevelsHolds == TimeoutSpec => []CancelReachesOwnLevels
<1>1. TimeoutInv => CancelReachesOwnLevels
  BY DEF TimeoutInv
<1> QED
  BY <1>1, TimeoutInitEstablishes, TimeoutStep, PTL DEF TimeoutSpec

\* Only tokens that were made are cancelled.
THEOREM TimeoutTypesHold == TimeoutSpec => []TimeoutTypeOK
<1>1. TimeoutInv => TimeoutTypeOK
  BY DEF TimeoutInv
<1> QED
  BY <1>1, TimeoutInitEstablishes, TimeoutStep, PTL DEF TimeoutSpec

-----------------------------------------------------------------------------

\* The two side by side: each of them takes its own steps or none.
LEMMA SideBySide == MCSpec => ParallelSpec /\ TimeoutSpec
<1>1. MCInit => ParallelInit /\ TimeoutInit
  BY DEF MCInit
<1>2. [MCNext]_<<parallelVars, timeoutVars, focus>>
         => [ParallelNext]_parallelVars /\ [TimeoutNext]_timeoutVars
  BY DEF MCNext
<1> QED
  BY <1>1, <1>2, PTL DEF MCSpec, ParallelSpec, TimeoutSpec

\* Both have their types in every run of the two, as MCParallelTasks.cfg checks.
THEOREM TypesHold == MCSpec => []TypeOK
  BY SideBySide, ParallelTypesHold, TimeoutTypesHold, PTL DEF TypeOK

=============================================================================
