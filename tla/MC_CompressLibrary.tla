------------------------- MODULE MC_CompressLibrary -------------------------
(***************************************************************************)
(* CompressLibrary with input.txt missing or present; leftover             *)
(* input-comp.txt and input-decomp.txt are absent or an earlier run's.     *)
(***************************************************************************)
EXTENDS CompressLibrary

MC_Inputs == {"none", "good"}
=============================================================================
