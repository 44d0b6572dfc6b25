----------------------------- MODULE MCCodeExec -----------------------------
(* CodeExec for TLC. *)
EXTENDS CodeExec

\* Success, an error of the code, and the OOM kill.
MCExitCodes == {0, 1, 137}
=============================================================================
