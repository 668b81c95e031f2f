------------------------------ MODULE MC_Raid1 ------------------------------
(***************************************************************************)
(* Model-checking instance of Raid1: three mirrors, two request contexts   *)
(* on one channel, reads of one or two blocks, one -ENOMEM per request.    *)
(***************************************************************************)
EXTENDS Raid1

CONSTANTS r1, r2

MC_Requests == {r1, r2}
MC_NumBaseBdevs == 3
MC_ReadBlocks == {1, 2}
MC_MaxNoMem == 1
\* raid1.c: base_bdevs_constraint = {CONSTRAINT_MIN_BASE_BDEVS_OPERATIONAL, 1}
MC_MinOperational == 1
\* Stands for UINT64_MAX: larger than any counter two requests can reach.
MC_UINT64_MAX == 1000
MC_UINT8_MAX == 255

=============================================================================
