------------------------------ MODULE MCMemory ------------------------------
(* LoopDetector, ShortTermMemory and MemoryStores for TLC.  The three share   *)
(* nothing: focus says which of them moves, so that their states add up.      *)
EXTENDS LoopDetector, ShortTermMemory, MemoryStores, TLC

CONSTANT MaxCalls       \* bound on the calls recorded after a clear

VARIABLES
    calls,              \* every call recorded since the last clear
    focus

detectorVars == <<window, calls>>

vars == <<detectorVars, stm, storesVars, focus>>

\* Small messages, one of the size of the budget and one beyond it.
MCMessages == [kind : {"message"}, tokens : {1, 2, 3, MaxTokens, MaxTokens + 1}]

\* Letters of both cases, and every character that ILIKE treats as special.
MCGoals == {<<"A", "%">>, <<"_", "\\">>}
MCKeywords == {<<>>, <<"a">>, <<"%">>, <<"_">>, <<"\\">>, <<"a", "%">>}

StoresSymmetry == Permutations(Clients) \cup Permutations(Connections)

MCInit ==
    /\ DetectorInit /\ calls = <<>>
    /\ MemoryInit
    /\ StoresInit
    /\ focus \in {"window", "stm", "stores"}

MCRecord ==
    /\ Len(calls) < MaxCalls
    /\ \E call \in Calls : Record(call) /\ calls' = Append(calls, call)

MCNext ==
    /\ UNCHANGED focus
    /\ \/ /\ focus = "window"
          /\ MCRecord \/ (ClearWindow /\ calls' = <<>>)
          /\ UNCHANGED <<stm, storesVars>>
       \/ focus = "stm" /\ MemoryNext /\ UNCHANGED <<detectorVars, storesVars>>
       \/ focus = "stores" /\ StoresNext /\ UNCHANGED <<detectorVars, stm>>

MCSpec == MCInit /\ [][MCNext]_vars

-----------------------------------------------------------------------------

\* The type and representation invariants of the three.
TypeOK == DetectorTypeOK /\ MemoryTypeOK /\ StoresTypeOK

\* The detector reports a loop exactly when some call was made at least
\* RepeatThreshold times among the last Capacity calls: the window forgets
\* nothing early, keeps nothing too long and counts no call twice.
DetectsExactlyLoops ==
    LET recent == {i \in 1..Len(calls) : i + Capacity > Len(calls)}
    IN  IsLooping(window) <=>
          \E c \in {calls[i] : i \in recent} :
             Cardinality({i \in recent : calls[i] = c}) >= RepeatThreshold
=============================================================================
