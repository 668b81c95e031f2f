CONSTANTS
  BuffSize <- MC_BuffSize
  FileSizes <- MC_FileSizes
  PoolSize <- MC_PoolSize
  SubmitMayFail = TRUE

SPECIFICATION Spec

\* The program ends after spdk_app_stop; a state with nothing left to run
\* is its exit, not a deadlock.
CHECK_DEADLOCK FALSE

INVARIANTS
  TypeOK
  ReadsOnlyAfterAllWritten
  CleanSuccessfulExit
