--------------------------- MODULE MC_DocaCompress ---------------------------
(* The DOCA compression sample has no parameters: its inputs are the       *)
(* outcomes of the library calls, enumerated in the actions.               *)
EXTENDS DocaCompress
=============================================================================
