------------------------------ MODULE MCTools ------------------------------
(* ToolRegistry, CodeExec and ToolCall for TLC.  They share nothing: focus   *)
(* says which of them moves, so that their states add up.                    *)
EXTENDS ToolRegistry, CodeExec, ToolCall

VARIABLE focus

\* Success, an error of the code, and the OOM kill.
MCExitCodes == {0, 1, 137}

\* Both sides of the ranges 1..10 and 1..30.
MCNumbers == {-1, 0, 1, 10, 11, 30, 31}

MCInit ==
    /\ RegistryInit /\ CodeExecInit /\ CallInit
    /\ focus \in {"registry", "code", "call"}

MCNext ==
    /\ UNCHANGED focus
    /\ \/ /\ focus = "registry" /\ RegistryNext
          /\ UNCHANGED <<codeVars, callVars>>
       \/ /\ focus = "code" /\ CodeExecNext
          /\ UNCHANGED <<registryVars, callVars>>
       \/ /\ focus = "call" /\ CallNext
          /\ UNCHANGED <<registryVars, codeVars>>

MCSpec ==
    /\ MCInit
    /\ [][MCNext]_<<registryVars, codeVars, callVars, focus>>
    /\ focus = "code" => CodeExecFairness

TypeOK == RegistryTypeOK /\ CodeExecTypeOK /\ CallTypeOK
=============================================================================
