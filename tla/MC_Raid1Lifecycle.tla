-------------------------- MODULE MC_Raid1Lifecycle --------------------------
(***************************************************************************)
(* Model-checking instance of Raid1Lifecycle: three slots, two threads,   *)
(* mirrors of 1000 and 1200 blocks (the pair of spec.md 8).                *)
(***************************************************************************)
EXTENDS Raid1Lifecycle

CONSTANTS t1, t2

MC_NumBaseBdevs == 3
MC_Threads == {t1, t2}
MC_Sizes == {1000, 1200}
\* An absent slot whose data_size is zero, or as large as a mirror.
MC_AbsentSizes == {0, 1200}
\* The violation run: absent slots hold no size at all.
MC_AbsentZero == {0}
\* Stands for UINT64_MAX: larger than any block count above.
MC_UINT64_MAX == 4096

=============================================================================
