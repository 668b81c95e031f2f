CONSTANTS
  Inputs <- MC_Inputs

SPECIFICATION Spec

\* file_decompress has returned; nothing follows.
CHECK_DEADLOCK FALSE

INVARIANTS
  NoForeignOutput
