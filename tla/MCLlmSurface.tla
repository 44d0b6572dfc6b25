---------------------------- MODULE MCLlmSurface ----------------------------
(* LlmSurface and ParseRetry for TLC.  They share nothing: focus says which  *)
(* of them moves, so that their states add up.                               *)
EXTENDS LlmSurface, ParseRetry

VARIABLE focus

MCRequests ==
    ReasonRequests \cup EmbedRequests
    \cup [endpoint : {"summarize"}, messages : {"none", "counted", "strings"},
          max_summary_tokens : 0..1]

MCInit == Init /\ ParseInit /\ focus \in {"call", "parse"}

MCNext ==
    /\ UNCHANGED focus
    /\ \/ focus = "call" /\ Next /\ UNCHANGED parseVars
       \/ focus = "parse" /\ ParseNext /\ UNCHANGED vars

MCSpec == MCInit /\ [][MCNext]_<<vars, parseVars, focus>>

MCFairSpec == MCSpec /\ WF_vars(GiveUp)

TypeOK == SurfaceTypeOK /\ ParseTypeOK
=============================================================================
