SPECIFICATION Spec
\* main returns; the device may still finish a job after it.
CHECK_DEADLOCK FALSE
INVARIANTS
  ResultIsJobResult
PROPERTIES
  ProcessJobReturns
  RefinesJobOutcome
