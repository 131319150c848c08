------------------------------- MODULE Reactor -------------------------------
(***************************************************************************)
(* hps_IOManager as a whole: the scheduler whose idle fiber polls epoll    *)
(* and the timers (iomanager.cpp), with jobs that sleep (hook.cpp), add    *)
(* timers and wait for events.  What TimerManager and IOManager say in     *)
(* detail is abstracted here to what shutting down depends on: a timer is  *)
(* waiting until some collection takes it, an event until some epoll_wait  *)
(* reports it, and either may never happen.  The steps of stopping() and   *)
(* of one turn of idle() are kept apart wherever another thread can act    *)
(* between them.  epoll_wait is called with timeout 0 unless stopping()    *)
(* was true and a timer came in between, and never for more than three     *)
(* seconds, so a turn always ends and the tickle pipe only shortens it.    *)
(***************************************************************************)
EXTENDS Scheduler

CONSTANTS
  Wakers,    \* the callbacks sleep() gives its timers, one for each call
  GiveWay    \* whether jobs call YieldToReady()

ASSUME ReactorAssumption ==
  /\ Wakers \subseteq Jobs /\ GiveWay \in BOOLEAN
  /\ MaxStarts = 1   \* the constructor starts the scheduler, the destructor stops it

VARIABLES
  m_timers,             \* callbacks of the timers that wait
  m_events,             \* what the registered events will schedule
  m_pendingEventCount,  \* atomic
  wakes,                \* the fiber captured by each callback of sleep()
  step,                 \* where a thread is in stopping() or in a turn of idle()
  cbs,                  \* idle()'s local: callbacks collected, not yet scheduled
  got                   \* idle()'s local: events reported, not yet dispatched

pollVars  == <<m_timers, m_events, m_pendingEventCount, wakes, step, cbs, got>>
reactVars == <<vars, pollVars>>

Steps == {"timers", "pending", "pool", "true", "false", "hand", "dispatch", "uncount"}

\* The type invariant of the module.
ReactorTypeOK ==
  /\ TypeOK
  /\ m_timers \in SUBSET Jobs /\ m_events \in SUBSET Entry
  /\ m_pendingEventCount \in Nat
  /\ wakes \in [Wakers -> Fibers \cup {NoFiber}]
  /\ step \in [Threads \cup {Caller} -> Steps]
  /\ cbs \in [Threads -> SUBSET Jobs]
  /\ got \in [Threads -> SUBSET Entry]

\* The constructor, start() at its end included: the workers are in run()
ReactorInit ==
  /\ m_fibers = <<>>
  /\ m_activeThreadCount = 0 /\ m_idleThreadCount = 0
  /\ m_stopping = FALSE /\ m_autoStop = FALSE
  /\ rootState = "INIT" /\ main = "started" /\ starts = 1
  /\ pc = [t \in Threads |-> IF t \in Workers THEN "pick" ELSE "none"]
  /\ ft = [t \in Threads |-> ResetEntry]
  /\ cbFiber = [t \in Threads |-> NoFiber]
  /\ idleState = [t \in Threads |-> "INIT"]
  /\ m_state = [f \in Fibers |-> "INIT"]
  /\ m_cb = [f \in Fibers |-> NoJob]
  /\ s_fiber_id = 0 /\ armed = {}
  /\ yields = [j \in Jobs |-> 0]
  /\ submitted = Wakers /\ done = {}   \* no one but sleep() hands out Wakers
  /\ fault = "none"
  /\ m_timers = {} /\ m_events = {} /\ m_pendingEventCount = 0
  /\ wakes = [w \in Wakers |-> NoFiber]
  /\ step = [t \in Threads \cup {Caller} |-> "timers"]
  /\ cbs = [t \in Threads |-> {}]
  /\ got = [t \in Threads |-> {}]

Goto(t, s) == step' = [step EXCEPT ![t] = s]

-----------------------------------------------------------------------------
(* stopping(): three reads, by an idle thread or by the caller in stop().   *)

Evaluates(t) == \/ t \in Threads /\ pc[t] = "idling"
                \/ t = Caller /\ UseCaller /\ main = "stopCheck"

Read(t, here, value, next) ==
  /\ Evaluates(t) /\ step[t] = here
  /\ Goto(t, IF value THEN next ELSE "false")
  /\ UNCHANGED <<vars, m_timers, m_events, m_pendingEventCount, wakes, cbs, got>>

\* getNextTimer() == ~0
ReadTimers(t)  == Read(t, "timers", m_timers = {}, "pending")

\* Mutant of ReadPending: the count is not looked at
ReadPendingNot(t) == Read(t, "pending", TRUE, "pool")

ReadPending(t) == Read(t, "pending", m_pendingEventCount = 0, "pool")
\* hps_Scheduler::stopping(), under m_mutex
ReadPool(t)    == Read(t, "pool", Stopping, "true")

-----------------------------------------------------------------------------
(* One turn of idle().                                                      *)

IdleFrame == UNCHANGED <<m_activeThreadCount, callerVars, ft, cbFiber, m_state,
                         m_cb, s_fiber_id, jobVars, fault>>

\* Control goes back from the idle fiber to run(), which settles its state
LeaveIdle(t, s) ==
  /\ idleState' = [idleState EXCEPT ![t] = s]
  /\ m_idleThreadCount' = m_idleThreadCount - 1
  /\ pc' = [pc EXCEPT ![t] = "pick"]
  /\ Goto(t, "timers")
  /\ UNCHANGED <<m_fibers, armed, m_timers, m_events, m_pendingEventCount, wakes,
                 cbs, got>>
  /\ IdleFrame

PollFrame == UNCHANGED <<m_idleThreadCount, pc, idleState, wakes>>

\* Mutant of NoTimerLeft: stopping() is believed without a second look
NoTimerLeftUnseen == TRUE

NoTimerLeft == m_timers = {}

\* stopping() was true: idle() looks at the timers again and ends
IdleEnds(t) ==
  /\ step[t] = "true" /\ NoTimerLeft
  /\ LeaveIdle(t, "TERM")

\* epoll_wait reports some registered events, listExpiredCb takes some timers
Poll(t) ==
  /\ step[t] = "false" \/ (step[t] = "true" /\ ~NoTimerLeft)
  /\ \E E \in SUBSET m_events, S \in SUBSET m_timers :
       /\ got' = [got EXCEPT ![t] = E]
       /\ cbs' = [cbs EXCEPT ![t] = S]
       /\ m_timers' = m_timers \ S
       /\ Goto(t, IF S = {} THEN "dispatch" ELSE "hand")
  /\ UNCHANGED <<m_fibers, armed, m_events, m_pendingEventCount>>
  /\ PollFrame /\ IdleFrame

\* schedule(cbs.begin(), cbs.end())
Hand(t) ==
  /\ step[t] = "hand"
  /\ \E q \in SetToSeqs(cbs[t]) :
       m_fibers' = m_fibers \o [i \in DOMAIN q |-> CbEntry(q[i], AnyThread)]
  /\ cbs' = [cbs EXCEPT ![t] = {}]
  /\ Goto(t, "dispatch")
  /\ UNCHANGED <<armed, m_timers, m_events, m_pendingEventCount, got>>
  /\ PollFrame /\ IdleFrame

\* Mutant of Forget: the event stays registered
ForgetNot(e) == m_events' = m_events

Forget(e) == m_events' = m_events \ {e}

\* A reported event that is still registered: triggerEvent schedules it.  A
\* fiber is resumed only after it has left its thread (Scheduler, EarlyWake).
Dispatch(t) ==
  /\ step[t] = "dispatch"
  /\ \E e \in got[t] \cap m_events :
       /\ e.fiber # NoFiber => EarlyWake \/ Parked(e.fiber)
       /\ Enqueue(e) /\ Forget(e)
       /\ armed' = armed \ {e.fiber}
       /\ got' = [got EXCEPT ![t] = @ \ {e}]
  /\ Goto(t, "uncount")
  /\ UNCHANGED <<m_timers, m_pendingEventCount, cbs>>
  /\ PollFrame /\ IdleFrame

\* Mutants of CountDown: nothing is subtracted; READ and WRITE are both
CountKept  == m_pendingEventCount' = m_pendingEventCount
CountTwice == m_pendingEventCount' = m_pendingEventCount - 2

CountDown == m_pendingEventCount' = m_pendingEventCount - 1

\* ... and is counted out afterwards
Uncount(t) ==
  /\ step[t] = "uncount"
  /\ CountDown
  /\ Goto(t, "dispatch")
  /\ UNCHANGED <<m_fibers, armed, m_timers, m_events, cbs, got>>
  /\ PollFrame /\ IdleFrame

\* A reported event another thread has dealt with is passed over
PassOver(t) ==
  /\ step[t] = "dispatch"
  /\ got[t] \ m_events # {}
  /\ got' = [got EXCEPT ![t] = @ \cap m_events]
  /\ UNCHANGED <<m_fibers, armed, m_timers, m_events, m_pendingEventCount, step, cbs>>
  /\ PollFrame /\ IdleFrame

\* The turn is over: swapOut(), and run() puts the idle fiber in HOLD
IdleYields(t) ==
  /\ step[t] = "dispatch" /\ got[t] = {}
  /\ LeaveIdle(t, "HOLD")

IdleStep(t) ==
  /\ fault = "none" /\ pc[t] = "idling"
  /\ \/ ReadTimers(t) \/ ReadPending(t) \/ ReadPool(t)
     \/ IdleEnds(t) \/ Poll(t) \/ Hand(t) \/ Dispatch(t) \/ Uncount(t)
     \/ PassOver(t) \/ IdleYields(t)
-----------------------------------------------------------------------------
(* What jobs do with the reactor.                                           *)

UserCode(t) == pc[t] = "exec" /\ m_cb[Cur(t)] \notin Wakers

NewTimer(j) ==
  /\ m_timers' = m_timers \cup {j}
  /\ submitted' = submitted \cup {j}
  /\ UNCHANGED <<m_fibers, m_events, m_pendingEventCount, wakes, step, cbs, got,
                 pc, yields, done, fiberVars>>
  /\ BodyFrame

\* addTimer(ms, cb), called by a job
AddTimer(t) == UserCode(t) /\ \E j \in Fresh : NewTimer(j)

Register(e) ==
  /\ m_events' = m_events \cup {e}
  /\ m_pendingEventCount' = m_pendingEventCount + 1
  /\ UNCHANGED <<m_timers, wakes, step, cbs, got>>

\* addEvent(fd, event, cb), called by a job
AddEvent(t) ==
  /\ UserCode(t)
  /\ \E j \in Fresh : /\ Register(CbEntry(j, AnyThread))
                      /\ submitted' = submitted \cup {j}
  /\ UNCHANGED <<m_fibers, pc, yields, done, fiberVars>>
  /\ BodyFrame

\* addEvent(fd, event): the event resumes the calling fiber, which goes on to
\* YieldToHold()
AwaitEvent(t) ==
  /\ UserCode(t) /\ Arm(t)
  /\ Register(FiberEntry(Cur(t), AnyThread))

\* sleep() up to YieldToHold()
Sleep(t) ==
  /\ UserCode(t) /\ Arm(t)
  /\ \E w \in Wakers :
       /\ wakes[w] = NoFiber
       /\ wakes' = [wakes EXCEPT ![w] = Cur(t)]
       /\ m_timers' = m_timers \cup {w}
  /\ UNCHANGED <<m_events, m_pendingEventCount, step, cbs, got>>

\* The callback of sleep()'s timer: schedule(fiber), and return to MainFunc
SleepOver(t) ==
  /\ pc[t] = "exec" /\ m_cb[Cur(t)] \in Wakers
  /\ LET w == m_cb[Cur(t)] IN
       /\ EarlyWake \/ Parked(wakes[w])
       /\ Enqueue(FiberEntry(wakes[w], AnyThread))
       /\ armed' = armed \ {wakes[w]}
       /\ done' = done \cup {w}
  /\ m_cb' = [m_cb EXCEPT ![Cur(t)] = NoJob]
  /\ m_state' = [m_state EXCEPT ![Cur(t)] = "TERM"]
  /\ pc' = [pc EXCEPT ![t] = "swapOut"]
  /\ BodyFrame /\ UNCHANGED <<s_fiber_id, yields, submitted, pollVars>>

\* Throw is left to Scheduler: here it differs in nothing from Return
JobStep(t) ==
  /\ fault = "none"
  /\ \/ AddTimer(t) \/ AddEvent(t) \/ AwaitEvent(t) \/ Sleep(t) \/ SleepOver(t)
     \/ /\ \/ UserCode(t) /\ (Return(t) \/ Spawn(t))
           \/ GiveWay /\ UserCode(t) /\ YieldToReady(t)
           \/ YieldToHold(t)
        /\ UNCHANGED pollVars

\* run() as in Scheduler, its idle fiber apart
PoolStep(t) ==
  /\ fault = "none"
  /\ \/ Pick(t) \/ PickNothing(t)
     \/ RunFiber(t) \/ RunCallbackReuse(t) \/ RunCallbackNew(t)
     \/ SwapOut(t) \/ Requeue(t) \/ Finish(t) \/ NoteHold(t) \/ SetHold(t)
  /\ UNCHANGED pollVars

ThreadStep(t) == PoolStep(t) \/ IdleStep(t) \/ JobStep(t)
-----------------------------------------------------------------------------
(* The caller: schedule(), addTimer(), and stop() by the destructor.        *)

CallerSubmits ==
  /\ CallerFree /\ \E j \in Fresh : ScheduleCb(j, AnyThread)
  /\ BodyFrame /\ UNCHANGED <<pc, yields, done, pollVars>>

CallerAddsTimer == CallerFree /\ \E j \in Fresh : NewTimer(j)

StopCalled == StopBegins /\ UNCHANGED pollVars

\* What stopping() asks besides hps_Scheduler::stopping()
NothingPending == m_timers = {} /\ m_pendingEventCount = 0

\* On a manager without workers nothing moves between the reads
StopEarly == /\ StopReturnsEarly /\ NothingPending
             /\ UNCHANGED pollVars

StopGoesOn ==
  /\ main = "stop" /\ ~(NothingToRun /\ NothingPending)
  /\ m_stopping' = TRUE
  /\ main' = "stopCheck"
  /\ StopFrame /\ UNCHANGED <<m_autoStop, rootState, pc, idleState, fault, pollVars>>

CallerReads == ReadTimers(Caller) \/ ReadPending(Caller) \/ ReadPool(Caller)

\* m_rootFiber->call(): the caller takes part in run()
StopEntersRun ==
  /\ main = "stopCheck" /\ UseCaller /\ step[Caller] = "false"
  /\ rootState' = "EXEC" /\ main' = "inRun"
  /\ pc' = [pc EXCEPT ![Caller] = "pick"]
  /\ Goto(Caller, "timers")
  /\ StopFrame /\ UNCHANGED <<m_stopping, m_autoStop, idleState, fault, m_timers,
                              m_events, m_pendingEventCount, wakes, cbs, got>>

StopJoins ==
  /\ main = "stopCheck" /\ (UseCaller => step[Caller] = "true")
  /\ main' = "join"
  /\ StopFrame /\ UNCHANGED <<m_stopping, m_autoStop, rootState, pc, idleState,
                              fault, pollVars>>

StopProceeds ==
  /\ fault = "none"
  /\ \/ StopEarly \/ StopGoesOn \/ CallerReads \/ StopEntersRun \/ StopJoins
     \/ (RootReturns \/ Join) /\ UNCHANGED pollVars

Stopped == main = "stopped" /\ UNCHANGED reactVars

ReactorNext ==
  \/ CallerSubmits \/ CallerAddsTimer \/ StopCalled \/ StopProceeds
  \/ \E t \in Threads : ThreadStep(t)
  \/ Stopped

\* As in Scheduler.  Nothing makes a timer or an event come.
ReactorFairness ==
  /\ WF_reactVars(StopProceeds)
  /\ \A t \in Threads : WF_reactVars(ThreadStep(t))

ReactorSpec == ReactorInit /\ [][ReactorNext]_reactVars /\ ReactorFairness
-----------------------------------------------------------------------------
(* Properties.                                                              *)

\* m_pendingEventCount, by which stopping() knows of events, is the number of
\* registered ones and of those triggered but not yet counted out.
PendingCovers ==
  m_pendingEventCount =
    Cardinality(m_events) + Cardinality({t \in Threads : step[t] = "uncount"})

\* Where the callback w of a sleep() is: in the timer set, in the hands of an
\* idle() that collected it, in the list, or on a thread
Carriers(w) ==
  (IF w \in m_timers THEN 1 ELSE 0)
  + Cardinality({t \in Threads : w \in cbs[t]})
  + Cardinality({i \in 1 .. Len(m_fibers) : m_fibers[i].cb = w})
  + Cardinality({t \in Threads : OnThread(t, w)})

\* The callback w belongs to a sleep() that is not over
Live(w) == wakes[w] # NoFiber /\ w \notin done

\* A fiber that waits has exactly one who will resume it: a registered event
\* or the callback of its sleep(); a fiber that does not wait has none.  And
\* that callback is in exactly one place.  Nobody resumes a fiber twice, nobody
\* loses one between the timer set and the list.
OneWaker ==
  /\ \A f \in Fibers :
       Cardinality({e \in m_events : e.fiber = f})
       + Cardinality({w \in Wakers : Live(w) /\ wakes[w] = f})
       = IF f \in armed THEN 1 ELSE 0
  /\ \A w \in Wakers : Carriers(w) = IF Live(w) THEN 1 ELSE 0

\* A fiber that has ended or never ran.  Any other one holds itself, by the
\* local cur on its own stack: nobody destroys it once it is not resumed.
Settled(f) == m_state[f] \in {"INIT", "TERM", "EXCEPT"}

\* When stop() has returned, no timer and no entry is left and no fiber is left
\* suspended for good, but those that wait for a registered event.
TimersDrained ==
  main = "stopped" =>
    /\ m_timers = {} /\ m_fibers = <<>>
    /\ \A f \in 1 .. s_fiber_id :
         Settled(f) \/ \E e \in m_events : e.fiber = f

\* When stop() has returned, no event is pending, as stopping() asks before a
\* thread may leave: the job that waits for a registered event would be lost,
\* its fiber and all it holds leaked.
EventsDrained == main = "stopped" => m_pendingEventCount = 0

\* On one thread that is so, and no fiber is left suspended: between two reads
\* of stopping() there is nobody to register an event, or to let a fiber go.
NothingLeft ==
  /\ TimersDrained
  /\ OneThread =>
       /\ EventsDrained
       /\ main = "stopped" => m_events = {} /\ \A f \in 1 .. s_fiber_id : Settled(f)

\* stop() returns once no timer and no event is left for good.
StopReturns == (<>[](m_timers = {} /\ m_events = {}))
                 => (main = "stop" ~> main = "stopped")
=============================================================================
