CONSTANTS
  Workers = {w1, w2}
  Caller = caller
  UseCaller = FALSE
  Jobs = {j1, k1}
  Wakers = {k1}
  GiveWay = TRUE
  AnyThread = anyThread
  NoJob = noJob
  MaxFibers = 2
  MaxYields = 1
  MaxStarts = 1
  CallerPins = {anyThread}
  SpawnPins = {anyThread}
  EarlyWake = FALSE
SPECIFICATION ReactorSpec
INVARIANTS EventsDrained
