CONSTANTS
  w1 = w1
  caller = caller
  anyThread = anyThread
  noJob = noJob
  j1 = j1
  j2 = j2
  k1 = k1
SPECIFICATION Spec
INVARIANTS NoAbort NothingLeft
PROPERTIES StopDrains StopTerminates JobsRun
