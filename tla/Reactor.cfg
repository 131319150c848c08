CONSTANTS
  Workers = {w1, w2}
  Caller = caller
  UseCaller = FALSE
  Jobs = {j1, j2, k1, k2}
  Wakers = {k1, k2}
  GiveWay = FALSE
  AnyThread = anyThread
  NoJob = noJob
  MaxFibers = 4
  MaxYields = 2
  MaxStarts = 1
  CallerPins = {anyThread}
  SpawnPins = {anyThread}
  EarlyWake = FALSE
SPECIFICATION ReactorSpec
INVARIANTS ReactorTypeOK PendingCovers OneWaker TimersDrained
SYMMETRY ReactorSymmetry
