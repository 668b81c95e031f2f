CONSTANTS
  t1 = t1
  t2 = t2
  NumBaseBdevs <- MC_NumBaseBdevs
  Threads <- MC_Threads
  Sizes <- MC_Sizes
  AbsentSizes <- MC_AbsentSizes
  UINT64_MAX <- MC_UINT64_MAX

SPECIFICATION Spec

\* A stopped (or never started) array has no further step.
CHECK_DEADLOCK FALSE

INVARIANTS
  TypeOK
  CapacityFitsEveryMirror
  InfoFreedAfterLastChannel

PROPERTIES
  StopCompletes
