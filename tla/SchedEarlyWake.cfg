CONSTANTS
  Workers = {w1, w2}
  Caller = caller
  UseCaller = FALSE
  Jobs = {j1}
  AnyThread = anyThread
  NoJob = noJob
  MaxFibers = 1
  MaxYields = 1
  MaxStarts = 1
  CallerPins = {anyThread}
  SpawnPins = {anyThread}
  EarlyWake = TRUE
SPECIFICATION Spec
INVARIANTS ExclusiveExecution
