------------------------------ MODULE Scheduler ------------------------------
(***************************************************************************)
(* The N:M coroutine scheduler: hps_Scheduler (scheduler.h, scheduler.cpp) *)
(* together with the state machine of the fibers it runs (fiber.cpp).      *)
(*                                                                         *)
(* Every thread of the pool executes run(): pick an entry of the shared    *)
(* list m_fibers under m_mutex, swap the fiber in, and put it back, reset  *)
(* it or leave it in HOLD when it comes back.  The caller's thread submits *)
(* work and calls start() and stop(); with UseCaller it takes part in      *)
(* run() too, inside stop().  The granularity is the one of the source: a  *)
(* critical section is one step, everything outside m_mutex is cut where   *)
(* another thread can see the difference (the fiber's state is published   *)
(* before its context is saved, m_activeThreadCount drops before the       *)
(* fiber is queued again).                                                 *)
(***************************************************************************)
EXTENDS Integers, FiniteSets, Sequences, SequencesExt

CONSTANTS
  Workers,     \* threads created by start(): m_threadCount of them
  Caller,      \* the thread that constructs, starts and stops the scheduler
  UseCaller,   \* the constructor's use_caller
  Jobs,        \* the user's callbacks, each submitted at most once
  AnyThread,   \* thread id -1: an entry any thread may take
  NoJob,       \* an empty std::function
  MaxFibers,   \* bound: fibers ever constructed (every job needs at most one)
  MaxYields,   \* bound: how often one job yields
  MaxStarts,   \* bound: start()/stop() cycles
  CallerPins,  \* thread arguments the caller passes to schedule()
  SpawnPins,   \* thread arguments running jobs pass to schedule()
  EarlyWake    \* TRUE: whoever resumes a waiting fiber may do so before the
               \* fiber has left its thread (nothing in the code prevents it)

ASSUME ConstAssumption ==
  /\ IsFiniteSet(Workers) /\ Caller \notin Workers
  /\ AnyThread \notin Workers \cup {Caller}
  /\ UseCaller \in BOOLEAN /\ EarlyWake \in BOOLEAN
  /\ (Workers = {} => UseCaller)
  /\ NoJob \notin Jobs
  /\ MaxFibers \in Nat /\ MaxYields \in Nat /\ MaxStarts \in Nat
  /\ CallerPins \subseteq Workers \cup {Caller, AnyThread}
  /\ SpawnPins \subseteq Workers \cup {Caller, AnyThread}

Threads == IF UseCaller THEN Workers \cup {Caller} ELSE Workers

OneThread == \A t, u \in Threads : t = u

NoFiber == 0
Fibers  == 1 .. MaxFibers

FiberState == {"INIT", "HOLD", "EXEC", "TERM", "READY", "EXCEPT"}

\* hps_FiberAndThread: a fiber or a callback, and the thread it is meant for
Entry == [fiber : Fibers \cup {NoFiber}, cb : Jobs \cup {NoJob},
          thread : Workers \cup {Caller, AnyThread}]

FiberEntry(f, thr) == [fiber |-> f, cb |-> NoJob, thread |-> thr]
CbEntry(j, thr)    == [fiber |-> NoFiber, cb |-> j, thread |-> thr]
ResetEntry         == [fiber |-> NoFiber, cb |-> NoJob, thread |-> AnyThread]

VARIABLES
  m_fibers,             \* the shared list of entries, under m_mutex
  m_activeThreadCount,  \* atomic: threads that hold an entry
  m_idleThreadCount,    \* atomic: threads inside the idle fiber
  m_stopping,           \* plain bool, TRUE until start()
  m_autoStop,           \* plain bool, set by stop(), never cleared
  rootState,            \* m_state of m_rootFiber (UseCaller)
  main,                 \* where the caller's thread is
  starts,               \* start() calls so far (bound)
  pc,                   \* where each thread is in run()
  ft,                   \* run()'s local entry
  cbFiber,              \* run()'s local cb_fiber, NoFiber when empty
  idleState,            \* m_state of run()'s local idle_fiber
  m_state,              \* hps_Fiber::m_state
  m_cb,                 \* hps_Fiber::m_cb, as the job it runs
  s_fiber_id,           \* ids handed out
  armed,                \* fibers somebody (timer, event, task) will schedule
  yields,               \* yields of each job so far (bound)
  submitted, done,      \* jobs handed to schedule(), jobs that ended
  fault                 \* the assertion that aborted the process, or "none"

vars == <<m_fibers, m_activeThreadCount, m_idleThreadCount, m_stopping,
          m_autoStop, rootState, main, starts, pc, ft, cbFiber, idleState,
          m_state, m_cb, s_fiber_id, armed, yields, submitted, done, fault>>

callerVars == <<m_stopping, m_autoStop, rootState, main, starts>>
fiberVars  == <<m_state, m_cb, s_fiber_id, armed>>
jobVars    == <<yields, submitted, done>>

-----------------------------------------------------------------------------
PcSet   == {"none", "pick", "dispatch", "exec", "hold", "swapOut", "settle",
            "sethold", "idling", "exit"}
MainSet == {"created", "started", "stop", "stopCheck", "inRun", "join",
            "stopped"}

\* The one type invariant of the module.
TypeOK ==
  /\ m_fibers \in Seq(Entry)
  /\ m_activeThreadCount \in Nat
  /\ m_idleThreadCount \in Nat
  /\ m_stopping \in BOOLEAN /\ m_autoStop \in BOOLEAN
  /\ rootState \in FiberState
  /\ main \in MainSet
  /\ starts \in 0 .. MaxStarts
  /\ pc \in [Threads -> PcSet]
  /\ ft \in [Threads -> Entry]
  /\ cbFiber \in [Threads -> Fibers \cup {NoFiber}]
  /\ idleState \in [Threads -> FiberState]
  /\ m_state \in [Fibers -> FiberState]
  /\ m_cb \in [Fibers -> Jobs \cup {NoJob}]
  /\ s_fiber_id \in 0 .. MaxFibers
  /\ armed \in SUBSET Fibers
  /\ yields \in [Jobs -> 0 .. MaxYields]
  /\ submitted \in SUBSET Jobs /\ done \in SUBSET Jobs
  /\ fault \in {"none", "swapIn", "neverReach", "reset", "callerNeverReach"}

Init ==
  /\ m_fibers = <<>>
  /\ m_activeThreadCount = 0 /\ m_idleThreadCount = 0
  /\ m_stopping = TRUE /\ m_autoStop = FALSE
  /\ rootState = "INIT" /\ main = "created" /\ starts = 0
  /\ pc = [t \in Threads |-> "none"]
  /\ ft = [t \in Threads |-> ResetEntry]
  /\ cbFiber = [t \in Threads |-> NoFiber]
  /\ idleState = [t \in Threads |-> "INIT"]
  /\ m_state = [f \in Fibers |-> "INIT"]
  /\ m_cb = [f \in Fibers |-> NoJob]
  /\ s_fiber_id = 0 /\ armed = {}
  /\ yields = [j \in Jobs |-> 0]
  /\ submitted = {} /\ done = {}
  /\ fault = "none"

-----------------------------------------------------------------------------
(* schedule().  The tickle that follows it is a log line in hps_Scheduler.  *)

Fresh == Jobs \ submitted

\* hps_Fiber(cb): a new fiber for job j, in INIT
NewFiber(j) ==
  /\ s_fiber_id < MaxFibers
  /\ s_fiber_id' = s_fiber_id + 1
  /\ m_state' = [m_state EXCEPT ![s_fiber_id + 1] = "INIT"]
  /\ m_cb' = [m_cb EXCEPT ![s_fiber_id + 1] = j]
  /\ armed' = armed

\* Mutants of Enqueue: the entry is added only when the caller has to tickle;
\* the entry is added twice
EnqueueIfEmpty(e) == m_fibers' = IF m_fibers = <<>> THEN <<e>> ELSE m_fibers
EnqueueTwice(e)   == m_fibers' = m_fibers \o <<e, e>>

\* scheduleNoLock() under m_mutex
Enqueue(e) == m_fibers' = Append(m_fibers, e)

\* schedule(cb, thread)
ScheduleCb(j, thr) ==
  /\ Enqueue(CbEntry(j, thr))
  /\ submitted' = submitted \cup {j}
  /\ UNCHANGED fiberVars

\* schedule(fiber, thread), of a fiber made for the purpose
ScheduleFiber(j, thr) ==
  /\ NewFiber(j)
  /\ Enqueue(FiberEntry(s_fiber_id + 1, thr))
  /\ submitted' = submitted \cup {j}

\* schedule(begin, end): several callbacks under one acquisition of m_mutex
ScheduleRange(j, k) ==
  /\ j # k
  /\ m_fibers' = m_fibers \o <<CbEntry(j, AnyThread), CbEntry(k, AnyThread)>>
  /\ submitted' = submitted \cup {j, k}
  /\ UNCHANGED fiberVars

-----------------------------------------------------------------------------
(* The caller's thread.                                                     *)

CallerFree ==
  /\ fault = "none"
  /\ main \in {"created", "started"} \/ (main = "stopped" /\ starts < MaxStarts)

CallerSchedules ==
  /\ CallerFree
  /\ \/ \E j \in Fresh, thr \in CallerPins :
          ScheduleCb(j, thr) \/ ScheduleFiber(j, thr)
     \/ \E j, k \in Fresh : ScheduleRange(j, k)
  /\ UNCHANGED <<m_activeThreadCount, m_idleThreadCount, callerVars, pc, ft,
                 cbFiber, idleState, yields, done, fault>>

\* start(): all workers are created while m_mutex is held, so none of them
\* picks before the last one exists
Start ==
  /\ CallerFree /\ main # "started" /\ starts < MaxStarts
  /\ m_stopping
  /\ m_stopping' = FALSE
  /\ main' = "started" /\ starts' = starts + 1
  /\ pc' = [t \in Threads |-> IF t \in Workers THEN "pick" ELSE pc[t]]
  /\ idleState' = [t \in Threads |-> IF t \in Workers THEN "INIT" ELSE idleState[t]]
  /\ UNCHANGED <<m_fibers, m_activeThreadCount, m_idleThreadCount, m_autoStop,
                 rootState, ft, cbFiber, fiberVars, jobVars, fault>>

\* Mutant of Stopping: threads wait for each other to leave the idle fiber
StoppingWhenNoneIdle == /\ m_autoStop /\ m_stopping /\ m_fibers = <<>>
                        /\ m_activeThreadCount + m_idleThreadCount = 0

\* stopping(), under m_mutex
Stopping == /\ m_autoStop /\ m_stopping
            /\ m_fibers = <<>> /\ m_activeThreadCount = 0

StopFrame ==
  UNCHANGED <<m_fibers, m_activeThreadCount, m_idleThreadCount, starts, ft,
              cbFiber, fiberVars, jobVars>>

\* stop() up to the first test
StopBegins ==
  /\ fault = "none" /\ main = "started"
  /\ m_autoStop' = TRUE
  /\ main' = "stop"
  /\ StopFrame /\ UNCHANGED <<m_stopping, rootState, pc, idleState, fault>>

\* Mutant of NothingToRun: the list is not looked at
NothingToRunUnseen == UseCaller /\ Workers = {} /\ rootState \in {"TERM", "INIT"}

NothingToRun == /\ UseCaller /\ Workers = {} /\ rootState \in {"TERM", "INIT"}
                /\ m_fibers = <<>> /\ m_activeThreadCount = 0

\* stop() on a caller-only scheduler with nothing left: the early return
StopReturnsEarly ==
  /\ main = "stop" /\ NothingToRun
  /\ m_stopping' = TRUE
  /\ main' = "stopped"
  /\ StopFrame /\ UNCHANGED <<m_autoStop, rootState, pc, idleState, fault>>

\* stop() sets m_stopping and tickles
StopFlags ==
  /\ main = "stop" /\ ~NothingToRun
  /\ m_stopping' = TRUE
  /\ main' = "stopCheck"
  /\ StopFrame /\ UNCHANGED <<m_autoStop, rootState, pc, idleState, fault>>

\* stop(): with a root fiber and work left the caller enters run() through
\* m_rootFiber->call().  call() does not look at the state: a root fiber that
\* has already finished resumes behind its back() and hits the "never reach"
\* assertion.
StopCalls ==
  /\ main = "stopCheck"
  /\ IF UseCaller /\ ~Stopping
       THEN /\ rootState' = "EXEC"
            /\ IF rootState = "TERM"
                 THEN fault' = "callerNeverReach" /\ UNCHANGED <<main, pc, idleState>>
                 ELSE /\ main' = "inRun" /\ fault' = fault
                      /\ pc' = [pc EXCEPT ![Caller] = "pick"]
                      /\ idleState' = [idleState EXCEPT ![Caller] = "INIT"]
       ELSE main' = "join" /\ UNCHANGED <<rootState, pc, idleState, fault>>
  /\ StopFrame /\ UNCHANGED <<m_stopping, m_autoStop>>

\* run() has returned on the caller's thread: CallerMainFunc ends in back()
RootReturns ==
  /\ main = "inRun" /\ pc[Caller] = "exit"
  /\ rootState' = "TERM"
  /\ pc' = [pc EXCEPT ![Caller] = "none"]
  /\ main' = "join"
  /\ StopFrame /\ UNCHANGED <<m_stopping, m_autoStop, idleState, fault>>

\* Mutant of AllExited: stop() joins one thread only
OneExited == Workers = {} \/ \E w \in Workers : pc[w] = "exit"

AllExited == \A w \in Workers : pc[w] = "exit"

\* stop() swaps m_threads out and joins every one of them
Join ==
  /\ main = "join"
  /\ AllExited
  /\ pc' = [t \in Threads |-> IF t \in Workers THEN "none" ELSE pc[t]]
  /\ main' = "stopped"
  /\ StopFrame /\ UNCHANGED <<m_stopping, m_autoStop, rootState, idleState, fault>>

StopStep == /\ fault = "none"
            /\ StopReturnsEarly \/ StopFlags \/ StopCalls \/ RootReturns \/ Join

-----------------------------------------------------------------------------
(* run() on thread t.                                                       *)

\* The fiber thread t has swapped in, or is about to
Cur(t) == IF ft[t].fiber # NoFiber THEN ft[t].fiber ELSE cbFiber[t]

\* Mutant of Runnable: an entry with a thread is taken by nobody
RunnableUnpinned(t, e) ==
  /\ e.thread = AnyThread
  /\ e.fiber # NoFiber => m_state[e.fiber] # "EXEC"

\* What the scan under m_mutex accepts: not pinned elsewhere, not executing
Runnable(t, e) ==
  /\ e.thread \in {AnyThread, t}
  /\ e.fiber # NoFiber => m_state[e.fiber] # "EXEC"

\* Positions of the entries t may take; the scan takes the first
Candidates(t) == {i \in 1 .. Len(m_fibers) : Runnable(t, m_fibers[i])}

\* Mutants of Activate and Deactivate: the count is not kept
ActivateNot   == m_activeThreadCount' = m_activeThreadCount
DeactivateNot == m_activeThreadCount' = m_activeThreadCount

Activate   == m_activeThreadCount' = m_activeThreadCount + 1
Deactivate == m_activeThreadCount' = m_activeThreadCount - 1

\* One critical section: take the first candidate and count the thread active
Pick(t) ==
  /\ pc[t] = "pick"
  /\ \E i \in Candidates(t) :
       /\ \A k \in Candidates(t) : i <= k
       /\ ft' = [ft EXCEPT ![t] = m_fibers[i]]
       /\ m_fibers' = RemoveAt(m_fibers, i)
  /\ Activate
  /\ pc' = [pc EXCEPT ![t] = "dispatch"]
  /\ UNCHANGED <<m_idleThreadCount, callerVars, cbFiber, idleState, fiberVars,
                 jobVars, fault>>

\* Nothing to take: leave run() once the idle fiber has ended (the locals
\* cb_fiber and idle_fiber go with it), swap the idle fiber in otherwise
PickNothing(t) ==
  /\ pc[t] = "pick" /\ Candidates(t) = {}
  /\ IF idleState[t] = "TERM"
       THEN /\ pc' = [pc EXCEPT ![t] = "exit"]
            /\ cbFiber' = [cbFiber EXCEPT ![t] = NoFiber]
            /\ UNCHANGED <<m_idleThreadCount, idleState>>
       ELSE /\ pc' = [pc EXCEPT ![t] = "idling"]
            /\ idleState' = [idleState EXCEPT ![t] = "EXEC"]
            /\ m_idleThreadCount' = m_idleThreadCount + 1
            /\ UNCHANGED cbFiber
  /\ UNCHANGED <<m_fibers, m_activeThreadCount, callerVars, ft, fiberVars,
                 jobVars, fault>>

\* idle(): one evaluation of stopping(), then either the fiber ends or it
\* yields to HOLD and run() loops
Idle(t) ==
  /\ pc[t] = "idling"
  /\ idleState' = [idleState EXCEPT ![t] = IF Stopping THEN "TERM" ELSE "HOLD"]
  /\ m_idleThreadCount' = m_idleThreadCount - 1
  /\ pc' = [pc EXCEPT ![t] = "pick"]
  /\ UNCHANGED <<m_fibers, m_activeThreadCount, callerVars, ft, cbFiber,
                 fiberVars, jobVars, fault>>

\* swapIn(): asserts that f is not executing, marks it EXEC and jumps to its
\* context.  A fiber that has ended is parked behind the swapOut() of
\* MainFunc, where resuming it hits the "never reach" assertion.
SwapIn(t, f, states) ==
  /\ m_state' = [states EXCEPT ![f] = "EXEC"]
  /\ pc' = [pc EXCEPT ![t] = "exec"]
  /\ fault' = CASE states[f] = "EXEC"              -> "swapIn"
                [] states[f] \in {"TERM", "EXCEPT"} -> "neverReach"
                [] OTHER                            -> fault

\* The fiber branch of run().  Its test "!= TERM || != EXCEPT" is true of
\* every state, so it does not filter anything out.
RunFiber(t) ==
  /\ pc[t] = "dispatch" /\ ft[t].fiber # NoFiber
  /\ SwapIn(t, ft[t].fiber, m_state)
  /\ UNCHANGED <<m_fibers, m_activeThreadCount, m_idleThreadCount, callerVars,
                 ft, cbFiber, idleState, m_cb, s_fiber_id, armed, jobVars>>

\* The callback branch: on the thread's cb_fiber if it has one left over ...
RunCallbackReuse(t) ==
  /\ pc[t] = "dispatch" /\ ft[t].fiber = NoFiber /\ cbFiber[t] # NoFiber
  /\ LET f == cbFiber[t] IN
       IF m_state[f] \in {"TERM", "INIT", "EXCEPT"}
         THEN /\ SwapIn(t, f, [m_state EXCEPT ![f] = "INIT"])
              /\ m_cb' = [m_cb EXCEPT ![f] = ft[t].cb]
              /\ ft' = [ft EXCEPT ![t] = ResetEntry]
         ELSE fault' = "reset" /\ UNCHANGED <<m_state, m_cb, pc, ft>>
  /\ UNCHANGED <<m_fibers, m_activeThreadCount, m_idleThreadCount, callerVars,
                 cbFiber, idleState, s_fiber_id, armed, jobVars>>

\* ... and on a new fiber otherwise
RunCallbackNew(t) ==
  /\ pc[t] = "dispatch" /\ ft[t].fiber = NoFiber /\ cbFiber[t] = NoFiber
  /\ s_fiber_id < MaxFibers
  /\ LET f == s_fiber_id + 1 IN
       /\ s_fiber_id' = f
       /\ m_cb' = [m_cb EXCEPT ![f] = ft[t].cb]
       /\ SwapIn(t, f, [m_state EXCEPT ![f] = "INIT"])
       /\ cbFiber' = [cbFiber EXCEPT ![t] = f]
  /\ ft' = [ft EXCEPT ![t] = ResetEntry]
  /\ UNCHANGED <<m_fibers, m_activeThreadCount, m_idleThreadCount, callerVars,
                 idleState, armed, jobVars>>

-----------------------------------------------------------------------------
(* What the job running on t may do.                                        *)

BodyFrame == UNCHANGED <<m_activeThreadCount, m_idleThreadCount, callerVars,
                         ft, cbFiber, idleState, fault>>

\* MainFunc after m_cb() returned
Return(t) ==
  /\ pc[t] = "exec"
  /\ done' = done \cup {m_cb[Cur(t)]}
  /\ m_cb' = [m_cb EXCEPT ![Cur(t)] = NoJob]
  /\ m_state' = [m_state EXCEPT ![Cur(t)] = "TERM"]
  /\ pc' = [pc EXCEPT ![t] = "swapOut"]
  /\ BodyFrame /\ UNCHANGED <<m_fibers, s_fiber_id, armed, yields, submitted>>

\* MainFunc after m_cb() threw: m_cb keeps its value
Throw(t) ==
  /\ pc[t] = "exec"
  /\ done' = done \cup {m_cb[Cur(t)]}
  /\ m_state' = [m_state EXCEPT ![Cur(t)] = "EXCEPT"]
  /\ pc' = [pc EXCEPT ![t] = "swapOut"]
  /\ BodyFrame /\ UNCHANGED <<m_fibers, m_cb, s_fiber_id, armed, yields, submitted>>

MayYield(t) == /\ m_cb[Cur(t)] \in Jobs
               /\ yields[m_cb[Cur(t)]] < MaxYields

CountYield(t) == yields' = [yields EXCEPT ![m_cb[Cur(t)]] = @ + 1]

\* YieldToReady() up to swapOut()
YieldToReady(t) ==
  /\ pc[t] = "exec" /\ MayYield(t) /\ CountYield(t)
  /\ m_state' = [m_state EXCEPT ![Cur(t)] = "READY"]
  /\ pc' = [pc EXCEPT ![t] = "swapOut"]
  /\ BodyFrame /\ UNCHANGED <<m_fibers, m_cb, s_fiber_id, armed, submitted, done>>

\* The job arranges to be resumed (a timer, an event, another task will call
\* schedule() with its fiber): sleep() in hook.cpp, addEvent() without a cb
Arm(t) ==
  /\ pc[t] = "exec" /\ MayYield(t) /\ CountYield(t)
  /\ armed' = armed \cup {Cur(t)}
  /\ pc' = [pc EXCEPT ![t] = "hold"]
  /\ BodyFrame
  /\ UNCHANGED <<m_fibers, m_state, m_cb, s_fiber_id, submitted, done>>

\* ... and then calls YieldToHold(), here up to swapOut()
YieldToHold(t) ==
  /\ pc[t] = "hold"
  /\ m_state' = [m_state EXCEPT ![Cur(t)] = "HOLD"]
  /\ pc' = [pc EXCEPT ![t] = "swapOut"]
  /\ BodyFrame
  /\ UNCHANGED <<m_fibers, m_cb, s_fiber_id, armed, jobVars>>

\* The job schedules another one
Spawn(t) ==
  /\ pc[t] = "exec"
  /\ \E j \in Fresh, thr \in SpawnPins : ScheduleCb(j, thr) \/ ScheduleFiber(j, thr)
  /\ BodyFrame /\ UNCHANGED <<pc, yields, done>>

-----------------------------------------------------------------------------
(* run() after swapIn().                                                    *)

\* swapcontext in swapOut(): the fiber's context is saved, t is back in run()
\* and stops counting as active before it looks at what the fiber wants
SwapOut(t) ==
  /\ pc[t] = "swapOut"
  /\ Deactivate
  /\ pc' = [pc EXCEPT ![t] = "settle"]
  /\ UNCHANGED <<m_fibers, m_idleThreadCount, callerVars, ft, cbFiber,
                 idleState, fiberVars, jobVars, fault>>

SettleFrame == UNCHANGED <<m_activeThreadCount, m_idleThreadCount, callerVars,
                           idleState, s_fiber_id, armed, jobVars>>

\* Mutant of LetGo: cb_fiber is not reset
LetGoKeeps(t) == ft' = [ft EXCEPT ![t] = ResetEntry] /\ cbFiber' = cbFiber

\* run() lets go of the fiber: ft.reset(), and cb_fiber.reset() in the
\* callback branch
LetGo(t) ==
  /\ ft' = [ft EXCEPT ![t] = ResetEntry]
  /\ cbFiber' = IF ft[t].fiber # NoFiber THEN cbFiber
                ELSE [cbFiber EXCEPT ![t] = NoFiber]

\* READY: schedule(fiber), without the thread the entry was pinned to
Requeue(t) ==
  /\ pc[t] = "settle" /\ m_state[Cur(t)] = "READY"
  /\ Enqueue(FiberEntry(Cur(t), AnyThread))
  /\ LetGo(t)
  /\ pc' = [pc EXCEPT ![t] = "pick"]
  /\ SettleFrame /\ UNCHANGED <<m_state, m_cb, fault>>

\* TERM or EXCEPT: a callback's fiber is reset(nullptr) and kept
Finish(t) ==
  /\ pc[t] = "settle" /\ m_state[Cur(t)] \in {"TERM", "EXCEPT"}
  /\ IF ft[t].fiber # NoFiber
       THEN UNCHANGED <<m_state, m_cb>>
       ELSE /\ m_state' = [m_state EXCEPT ![cbFiber[t]] = "INIT"]
            /\ m_cb' = [m_cb EXCEPT ![cbFiber[t]] = NoJob]
  /\ ft' = [ft EXCEPT ![t] = ResetEntry]
  /\ pc' = [pc EXCEPT ![t] = "pick"]
  /\ SettleFrame /\ UNCHANGED <<m_fibers, cbFiber, fault>>

\* Anything else: the last branch is chosen ...
NoteHold(t) ==
  /\ pc[t] = "settle" /\ m_state[Cur(t)] \notin {"READY", "TERM", "EXCEPT"}
  /\ pc' = [pc EXCEPT ![t] = "sethold"]
  /\ SettleFrame /\ UNCHANGED <<m_fibers, m_state, m_cb, ft, cbFiber, fault>>

\* ... and HOLD written, whatever the state is by now
SetHold(t) ==
  /\ pc[t] = "sethold"
  /\ m_state' = [m_state EXCEPT ![Cur(t)] = "HOLD"]
  /\ LetGo(t)
  /\ pc' = [pc EXCEPT ![t] = "pick"]
  /\ SettleFrame /\ UNCHANGED <<m_fibers, m_cb, fault>>

-----------------------------------------------------------------------------
\* No thread of the pool still refers to f
Parked(f) == \A t \in Threads : f # cbFiber[t] /\ f # ft[t].fiber

\* schedule(fiber) by whoever the fiber asked to resume it
Wake(f) ==
  /\ fault = "none"
  /\ f \in armed
  /\ EarlyWake \/ Parked(f)
  /\ Enqueue(FiberEntry(f, AnyThread))
  /\ armed' = armed \ {f}
  /\ UNCHANGED <<m_activeThreadCount, m_idleThreadCount, callerVars, pc, ft,
                 cbFiber, idleState, m_state, m_cb, s_fiber_id, jobVars, fault>>

RunStep(t) ==
  /\ fault = "none"
  /\ \/ Pick(t) \/ PickNothing(t) \/ Idle(t)
     \/ RunFiber(t) \/ RunCallbackReuse(t) \/ RunCallbackNew(t)
     \/ SwapOut(t) \/ Requeue(t) \/ Finish(t) \/ NoteHold(t) \/ SetHold(t)

BodyStep(t) ==
  /\ fault = "none"
  /\ \/ Return(t) \/ Throw(t) \/ YieldToReady(t)
     \/ Arm(t) \/ YieldToHold(t) \/ Spawn(t)

\* Nothing left to do for the caller: stop() has returned for the last time
Terminated ==
  /\ main = "stopped" /\ starts = MaxStarts
  /\ UNCHANGED vars

Next ==
  \/ CallerSchedules \/ Start \/ StopBegins \/ StopStep
  \/ \E t \in Threads : RunStep(t) \/ BodyStep(t)
  \/ \E f \in Fibers : Wake(f)
  \/ Terminated

\* The operating system runs every thread of the pool, a job does not run
\* forever between two yields, and stop() proceeds when it can.  Nothing is
\* assumed of the caller's other calls or of the one who resumes a fiber.
Fairness ==
  /\ WF_vars(StopStep)
  /\ \A t \in Threads : WF_vars(RunStep(t) \/ BodyStep(t))

Spec == Init /\ [][Next]_vars /\ Fairness
-----------------------------------------------------------------------------
(* Properties.                                                              *)

OnStack(t) == pc[t] \in {"exec", "hold", "swapOut"}

\* At any time a fiber's stack is in use by at most one thread of the pool:
\* what the EXEC test of run() and the assertion of swapIn() are there for.
ExclusiveExecution ==
  \A t, u \in Threads : OnStack(t) /\ OnStack(u) /\ t # u => Cur(t) # Cur(u)

\* No assertion of swapIn(), reset(), MainFunc or CallerMainFunc fails,
\* whatever jobs, yields, throws, wake-ups and restarts do.
NoAbort == fault = "none"

ActiveThreads == {t \in Threads : pc[t] \in {"dispatch", "exec", "hold", "swapOut"}}
IdleThreads   == {t \in Threads : pc[t] = "idling"}

\* m_activeThreadCount, on which stopping() decides, counts exactly the
\* threads between the pick and the return of swapIn(), m_idleThreadCount
\* those inside their idle fiber: neither, a size_t, ever wraps below zero.
CountsExact == /\ m_activeThreadCount = Cardinality(ActiveThreads)
               /\ m_idleThreadCount = Cardinality(IdleThreads)

\* Job j is the one thread t took and has not finished with
OnThread(t, j) ==
  /\ pc[t] \in {"dispatch", "exec", "hold", "swapOut", "settle", "sethold"}
  /\ ft[t].cb = j \/ (Cur(t) # NoFiber /\ m_cb[Cur(t)] = j)

CarriedBy(e, j) == e.cb = j \/ (e.fiber # NoFiber /\ m_cb[e.fiber] = j)

Waiting(j) == \E f \in armed : m_cb[f] = j /\ Parked(f)

\* A job that was submitted and has not ended is in exactly one place: one
\* entry of the list, one thread, or one parked fiber that will be resumed.
\* None is dropped by a requeue, none is run twice.
JobConserved ==
  \A j \in submitted \ done :
    Cardinality({i \in 1 .. Len(m_fibers) : CarriedBy(m_fibers[i], j)})
    + Cardinality({t \in Threads : OnThread(t, j)})
    + (IF Waiting(j) THEN 1 ELSE 0) = 1

\* stop() returns only when every job has ended, except those whose fiber is
\* in HOLD: stopping() does not count them.
StopDrains ==
  [][main' = "stopped" /\ main # "stopped" =>
       \A j \in submitted \ done :
         \E f \in Fibers : m_cb[f] = j /\ m_state[f] = "HOLD"]_vars

\* stop() returns once it has been called: every thread notices.
StopTerminates == main = "stop" ~> main = "stopped"

Listed(j) == \E i \in 1 .. Len(m_fibers) : CarriedBy(m_fibers[i], j)

\* A job in the list of a started scheduler gets a thread, pinned or not; only
\* a wake-up that comes after the threads have left stays in the list.
JobsRun ==
  \A j \in Jobs : (Listed(j) /\ main = "started") ~>
                    ((\E t \in Threads : OnThread(t, j)) \/ main = "stopped")

-----------------------------------------------------------------------------
(* What the scheduler promises, without threads, fibers and lists.          *)

\* Job j is on a thread
Running(j) == \E t \in Threads : OnThread(t, j)

\* Job j is in the list and is not a fiber that was resumed from HOLD
Queued(j) ==
  \E i \in 1 .. Len(m_fibers) :
    /\ CarriedBy(m_fibers[i], j)
    /\ m_fibers[i].cb = NoJob => m_state[m_fibers[i].fiber] # "HOLD"

JobStatus(j) ==
  IF j \notin submitted THEN "fresh"
  ELSE IF j \in done     THEN "done"
  ELSE IF Running(j)     THEN "running"
  ELSE IF Queued(j)      THEN "queued"
  ELSE IF Listed(j)      THEN "woken"
  ELSE "parked"

Pool == INSTANCE TaskPool WITH
          Capacity <- Cardinality(Threads),
          status   <- [j \in Jobs |-> JobStatus(j)],
          phase    <- CASE main = "started" -> "up"
                        [] main \in {"created", "stopped"} -> "down"
                        [] OTHER -> "draining"

\* The scheduler implements TaskPool: jobs move only along its transitions,
\* and stop() closes the pool only when it is drained.
ImplementsTaskPool == Pool!Spec
=============================================================================
