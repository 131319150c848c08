------------------------------ MODULE MCShapes ------------------------------
(***************************************************************************)
(* The ways a scheduler or an io manager is set up that differ in more     *)
(* than size from a pool of workers, explored side by side: `shape` says   *)
(* which one a behaviour belongs to.                                       *)
(*   caller   a scheduler with one worker and the caller's thread          *)
(*   solo     a scheduler on the caller's thread alone                     *)
(*   restart  a scheduler with one worker, started and stopped twice       *)
(*   iomSolo  an io manager on the caller's thread alone: iom(1)           *)
(*   iomPair  an io manager with one worker and the caller: iom(2)         *)
(* They are instances of the modules with the proofs, so that ShapesProofs *)
(* can apply the theorems to them.                                         *)
(***************************************************************************)
EXTENDS Naturals

CONSTANTS w1, caller, anyThread, noJob, j1, j2, k1

ASSUME ShapesAssumption ==
  /\ w1 # caller /\ anyThread \notin {w1, caller}
  /\ noJob \notin {j1, j2, k1}

VARIABLES
  m_fibers, m_activeThreadCount, m_idleThreadCount, m_stopping, m_autoStop,
  rootState, main, starts, pc, ft, cbFiber, idleState, m_state, m_cb,
  s_fiber_id, armed, yields, submitted, done, fault,
  m_timers, m_events, m_pendingEventCount, wakes, step, cbs, got,
  shape

CallerShape == INSTANCE JobProofs WITH
  Workers <- {w1}, Caller <- caller, UseCaller <- TRUE, Jobs <- {j1, j2},
  AnyThread <- anyThread, NoJob <- noJob, MaxFibers <- 2, MaxYields <- 1,
  MaxStarts <- 1, CallerPins <- {caller, anyThread}, SpawnPins <- {anyThread},
  EarlyWake <- FALSE

SoloShape == INSTANCE JobProofs WITH
  Workers <- {}, Caller <- caller, UseCaller <- TRUE, Jobs <- {j1, j2},
  AnyThread <- anyThread, NoJob <- noJob, MaxFibers <- 2, MaxYields <- 1,
  MaxStarts <- 1, CallerPins <- {anyThread}, SpawnPins <- {caller, anyThread},
  EarlyWake <- TRUE

RestartShape == INSTANCE JobProofs WITH
  Workers <- {w1}, Caller <- caller, UseCaller <- FALSE, Jobs <- {j1, j2},
  AnyThread <- anyThread, NoJob <- noJob, MaxFibers <- 2, MaxYields <- 1,
  MaxStarts <- 2, CallerPins <- {w1, anyThread}, SpawnPins <- {w1, anyThread},
  EarlyWake <- TRUE

IomSoloShape == INSTANCE ReactorProofs WITH
  Workers <- {}, Caller <- caller, UseCaller <- TRUE, Jobs <- {j1, j2, k1},
  Wakers <- {k1}, GiveWay <- TRUE, AnyThread <- anyThread, NoJob <- noJob,
  MaxFibers <- 3, MaxYields <- 1, MaxStarts <- 1, CallerPins <- {anyThread},
  SpawnPins <- {anyThread}, EarlyWake <- TRUE

IomPairShape == INSTANCE ReactorProofs WITH
  Workers <- {w1}, Caller <- caller, UseCaller <- TRUE, Jobs <- {j1, k1},
  Wakers <- {k1}, GiveWay <- FALSE, AnyThread <- anyThread, NoJob <- noJob,
  MaxFibers <- 2, MaxYields <- 1, MaxStarts <- 1, CallerPins <- {anyThread},
  SpawnPins <- {anyThread}, EarlyWake <- FALSE

poolVars ==
  <<m_fibers, m_activeThreadCount, m_idleThreadCount, m_stopping, m_autoStop,
    rootState, main, starts, pc, ft, cbFiber, idleState, m_state, m_cb,
    s_fiber_id, armed, yields, submitted, done, fault>>
pollVars == <<m_timers, m_events, m_pendingEventCount, wakes, step, cbs, got>>
all == <<poolVars, pollVars, shape>>

\* A plain scheduler has no timers and no events
NoReactor == /\ m_timers = {} /\ m_events = {} /\ m_pendingEventCount = 0
             /\ wakes = <<>> /\ step = <<>> /\ cbs = <<>> /\ got = <<>>

Init ==
  \/ shape = "caller" /\ CallerShape!Init /\ NoReactor
  \/ shape = "solo" /\ SoloShape!Init /\ NoReactor
  \/ shape = "restart" /\ RestartShape!Init /\ NoReactor
  \/ shape = "iomSolo" /\ IomSoloShape!ReactorInit
  \/ shape = "iomPair" /\ IomPairShape!ReactorInit

Is(s) == shape = s /\ UNCHANGED shape
Plain(s) == Is(s) /\ UNCHANGED pollVars

Next ==
  \/ Plain("caller") /\ CallerShape!Next
  \/ Plain("solo") /\ SoloShape!Next
  \/ Plain("restart") /\ RestartShape!Next
  \/ Is("iomSolo") /\ IomSoloShape!ReactorNext
  \/ Is("iomPair") /\ IomPairShape!ReactorNext

\* The fairness of Scheduler and Reactor, in the shape each belongs to
Fairness ==
  /\ WF_all(Plain("caller") /\ CallerShape!StopStep)
  /\ WF_all(Plain("solo") /\ SoloShape!StopStep)
  /\ WF_all(Plain("restart") /\ RestartShape!StopStep)
  /\ WF_all(Is("iomSolo") /\ IomSoloShape!StopProceeds)
  /\ WF_all(Is("iomPair") /\ IomPairShape!StopProceeds)
  /\ \A t \in {w1, caller} :
       /\ WF_all(Plain("caller") /\ (CallerShape!RunStep(t) \/ CallerShape!BodyStep(t)))
       /\ WF_all(Is("iomPair") /\ IomPairShape!ThreadStep(t))
  /\ WF_all(Plain("solo") /\ (SoloShape!RunStep(caller) \/ SoloShape!BodyStep(caller)))
  /\ WF_all(Plain("restart") /\ (RestartShape!RunStep(w1) \/ RestartShape!BodyStep(w1)))
  /\ WF_all(Is("iomSolo") /\ IomSoloShape!ThreadStep(caller))

Spec == Init /\ [][Next]_all /\ Fairness
-----------------------------------------------------------------------------
\* No assertion of swapIn(), reset(), MainFunc or CallerMainFunc fails in any
\* of the shapes, restarts and the caller's root fiber included.
NoAbort == fault = "none"

\* stop() of a scheduler returns only when every job has ended, except those
\* whose fiber is in HOLD, wherever the caller and restarts put the work.
StopDrains ==
  [][main' = "stopped" /\ main # "stopped" /\ shape \in {"caller", "solo", "restart"} =>
       \A j \in submitted \ done :
         \E f \in DOMAIN m_cb : m_cb[f] = j /\ m_state[f] = "HOLD"]_all

\* stop() returns once it has been called: at once in a scheduler, in an io
\* manager when no timer and no event is left for good.
StopTerminates ==
  /\ (shape \in {"caller", "solo", "restart"} /\ main = "stop") ~> (main = "stopped")
  /\ IomSoloShape!StopReturns

\* Work left in the list of a started scheduler, by the first cycle or by a
\* wake-up between the cycles, is run in the second.
JobsRun ==
  \A j \in {j1, j2} :
    (shape = "restart" /\ RestartShape!Listed(j) /\ main = "started") ~>
      (shape = "restart" /\ (RestartShape!OnThread(w1, j) \/ main = "stopped"))

\* When an IO manager has stopped, no timer and no entry is left; where the
\* caller's thread is the only one, no event is pending and no fiber is left
\* suspended either: no job is lost and none leaked.
NothingLeft ==
  /\ shape = "iomPair" => IomPairShape!NothingLeft
  /\ shape = "iomSolo" => IomSoloShape!NothingLeft
=============================================================================
