CONSTANTS
  Workers = {w1, w2}
  Caller = caller
  UseCaller = FALSE
  Jobs = {j1, j2}
  AnyThread = anyThread
  NoJob = noJob
  MaxFibers = 2
  MaxYields = 1
  MaxStarts = 1
  CallerPins = {w1, anyThread}
  SpawnPins = {anyThread}
  EarlyWake = FALSE
SPECIFICATION Spec
INVARIANTS TypeOK ExclusiveExecution NoAbort CountsExact JobConserved
PROPERTIES StopDrains StopTerminates JobsRun ImplementsTaskPool
