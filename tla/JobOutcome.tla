------------------------------ MODULE JobOutcome ------------------------------
(***************************************************************************)
(* What DocaCompress assumes of process_job: a call is made, and it        *)
(* returns once, with one of the outcomes of compress_file_hw's job step   *)
(* (DocaCompress!process_job) or with success.  Nothing is said about how  *)
(* long it takes.                                                          *)
(***************************************************************************)
VARIABLES
  busy,    \* a call of process_job is in progress
  ret      \* what the last call returned, "none" before it returns

Outcomes == {"submit", "retrieve", "job", "ok"}

Init == ~busy /\ ret = "none"

Call   == ~busy /\ busy' /\ ret' = "none"

Return == busy /\ ~busy' /\ ret' \in Outcomes

Spec == Init /\ [][Call \/ Return]_<<busy, ret>>
=============================================================================
