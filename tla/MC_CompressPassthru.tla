------------------------- MODULE MC_CompressPassthru -------------------------
(* Model checking CompressPassthru: Inputs is given in each .cfg.           *)
EXTENDS CompressPassthru
==============================================================================
