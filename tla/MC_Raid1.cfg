CONSTANTS
  r1 = r1
  r2 = r2
  Requests <- MC_Requests
  NumBaseBdevs <- MC_NumBaseBdevs
  ReadBlocks <- MC_ReadBlocks
  MaxNoMem <- MC_MaxNoMem
  MinOperational <- MC_MinOperational
  UINT64_MAX <- MC_UINT64_MAX
  UINT8_MAX <- MC_UINT8_MAX

SPECIFICATION Spec

INVARIANTS
  TypeOK
  ReadCountersMatchInflight
  CreditsMatchOutstanding
  FinalStatusReflectsFailures
  NoDuplicateSubmission
  ReadSelectionIsLeastLoaded

PROPERTIES
  EveryRequestCompletes
