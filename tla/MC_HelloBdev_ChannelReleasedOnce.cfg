CONSTANTS
  BuffSize <- MC_BuffSize
  FileSizes <- MC_FileSizes
  PoolSize <- MC_PoolSize
  SubmitMayFail = TRUE

SPECIFICATION Spec

\* The program ends after spdk_app_stop.
CHECK_DEADLOCK FALSE

INVARIANT
  ChannelReleasedOnce
