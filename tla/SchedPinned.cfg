CONSTANTS
  Workers = {w1, w2}
  Caller = caller
  UseCaller = FALSE
  Jobs = {j1, j2}
  AnyThread = anyThread
  NoJob = noJob
  MaxFibers = 2
  MaxYields = 1
  MaxStarts = 1
  CallerPins = {anyThread}
  SpawnPins = {w1, w2}
  EarlyWake = FALSE
SPECIFICATION Spec
PROPERTIES StopTerminates
