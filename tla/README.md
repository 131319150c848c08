# A TLA+ model of hps_sf

`hps_sf` is a C++ server framework: an N:M coroutine scheduler, a timer manager and an
epoll reactor on top of it, hooked blocking calls, a logger and a configuration registry.
This directory models its concurrent core and its configuration in TLA+, checks the models with TLC on small
instances, and proves their safety properties with TLAPS for every value of the constants: scheduler, jobs and
the refinement of the abstract pool, IO manager, timers, events, loggers and configuration. `PROJECT.json` maps every definition to the lines it models.

## 1. Inventory

| Part | State | Operations | Module |
|---|---|---|---|
| Scheduler (`scheduler.*`) | list `m_fibers` under `m_mutex`, active/idle counters, `m_stopping`, `m_autoStop`, threads, root fiber; locals of `run()` per thread | `schedule` (callback, fiber, range), `start`, `stop`, `run`, `idle`, `stopping` | `Scheduler`; promise: `TaskPool` |
| Fiber (`fiber.*`) | `m_state`, context, `m_cb`, ids | `swapIn`/`swapOut`, `call`/`back`, `reset`, `YieldToReady`, `YieldToHold`, `MainFunc`, `CallerMainFunc` | `Scheduler` |
| Hook (`hook.*`) | one flag per thread | `sleep`, `usleep` | `Scheduler` (`Arm`, `YieldToHold`, `Wake`), `Reactor` (`Sleep`, `SleepOver`) |
| Timer manager (`timer.*`) | `std::set` of timers, `m_tickled`; per timer deadline, interval, callback | `addTimer`, `cancel`, `refresh`, `reset`, `getNextTimer`, `listExpiredCb` | `TimerManager` |
| IO manager (`iomanager.*`) | table of fd contexts, `m_pendingEventCount`, the epoll instance, the tickle pipe | `addEvent`, `delEvent`, `cancelEvent`, `cancelAll`, `idle`, `stopping`, `tickle`, `contextResize` | `IOManager` (events), `Reactor` (polling, shutdown, the whole) |
| Logger (`log.*`) | map of loggers; loggers with lock, formatter, appender list; appenders with lock, formatter, file | `getLogger`, `log`, `setFormatter`, `addAppender`, `delAppender`, `clearAppenders`, `reopen` | `Log` |
| Pattern parser (`log.cpp`, `hps_LogFormatter::init`) | pattern, items, `m_error` | `init` | `LogFormatter` |
| Logger definitions (`log.cpp`, the casts of `hps_LogDefine`) | the value of the variable `logs` | from YAML, to YAML | `LogDefines` |
| Configuration (`config.*`) | map of variables, value, listeners | `Lookup`, `setValue`, `LoadFromYaml`, listeners | `Config` |
| Thread, locks (`thread.*`, `mutex.h`) | thread id, name, semaphore | constructor, `run`, `join` | not modelled |
| Utilities (`util.*`, `macro.h`, `singleton.h`) | none of their own | clock, ids, backtrace | not modelled |

How they interact. User code, timers and events all end in `schedule()`: a job that waits arranges
for somebody (a timer, an fd event) to schedule its fiber, and yields to HOLD. The threads of
the pool pick entries under `m_mutex`. A thread with nothing to do runs an idle fiber; in the
IO manager that fiber calls `epoll_wait`, collects expired timers and dispatches events.
`stop()` sets flags, enters `run()` itself when the scheduler was built with `use_caller`, and
joins the threads, each of which leaves when its own idle fiber has seen `stopping()`.

What is hard. A fiber's state is published before its context is saved. The active count drops
before a READY fiber is queued again. Pinned entries depend on one thread being alive. The timer
set's comparator is not an order. Events are fetched in one step and dispatched in later ones,
under edge triggering and reuse of descriptor numbers. `stopping()` of the IO manager reads timers, pending count and
task list one after the other while other threads move work between them. A variable is compared under one lock and
assigned under another. The logger's operations nest spinlocks and
the file appender's time stamp is written outside its lock. `PROJECT.json` lists every such place
under `hazards`, with its line and the properties aimed at it.

What makes each part correct. *Scheduler, fibers*: no stack is used by two threads, no submitted job is lost or run
twice, no assertion fails, `stop()` returns, and only when drained. *Timers*: a callback is handed out
when due, as often as it should be, never after a cancel; a new front is noticed. *Events*: table, count
and epoll agree, each waiter is scheduled once or deleted, no edge is lost. *Logger*: no
deadlock, no line through a missing formatter or to a stale file, no list changed under a loop, an appender's own formatter kept. *Parser*: it inverts the writing of a pattern.
*IO manager as a whole*: a waiting fiber has exactly one waker; `stop()` returns when nothing is pending and leaves nothing waiting.
*Configuration*: a load applies every value that converts and nothing else; changes are announced; a dump reads back as the same value.

## 2. Modules and their correspondence to the code

**`Scheduler`** has the granularity of the source. A critical section of `m_mutex` is one step.
Outside it, `run()` is cut where another thread could see the difference; the places are the values of `pc`:

    pick -> dispatch -> exec (-> hold) -> swapOut -> settle (-> sethold) -> pick
    pick -> idling -> pick          pick -> exit

`exec` is user code, which may return, throw, spawn jobs, yield, or arrange for its own
wake-up and wait (`Arm`, then `YieldToHold`). `hold` is the window between the two, `swapOut`
the one in which the new state is visible but the context is not yet saved, `settle` the one
in which the thread is no longer counted but the fiber is not yet queued. `SwapIn` models
`swapIn()` with its assertion, and what happens when a fiber that has ended is entered again.
Failed assertions end the behaviour in a state with `fault # "none"`.
Three pairs of source steps are merged. The assertion and the assignment in `swapIn()`: between them only a second
thread with the same fiber could interfere, which `ExclusiveExecution` rules out or reports anyway. The save of the context and
the decrement of the active count: nobody else reads either in between, except `stopping()`, which sees the count still up, as before the save.
The pick that finds nothing and the increment of the idle count, which no code of the base class reads.
The tickles of `schedule()`, `run()` and `stop()` need no state: in the base class `tickle()` only logs, and threads poll.

**`TaskPool`** is what a user may rely on: jobs are fresh, queued, running, parked, woken or done;
at most `Capacity` run; the pool closes only when nothing is queued or running. `Scheduler`
implements it under the mapping `Pool`, at the end of the module.

**`SchedulerInv`** states the inductive invariants, `IInv` where fibers are resumed late and `EarlyInv` where one thread may meet early
wake-ups; **`SchedulerProofs`** proves them. **`JobProofs`** builds on them for jobs, shutting down and `TaskPool`. **`ReactorProofs`**,
**`TimerProofs`** and **`IOProofs`** are the proofs about the module each is named after, **`LogProofs`** those about `Log` and `LogFormatter`,
**`ConfigProofs`** those about `Config` and `LogDefines`, and **`ShapesProofs`** applies the theorems to `MCShapes` (section 5).

**`TimerManager`** represents the set by its in-order sequence. `Comparator` compares `rhs` with
`rhs`, so that two timers may each precede the other; where an insertion lands and whether
`find()` sees an element then depend on the shape of the red-black tree. The model allows every outcome
that some shape gives. `erase(find(...))` with a miss is undefined and ends the behaviour (`fault = "eraseEnd"`).
The clock read of `listExpiredCb` is a step before its critical section, as is that of the `hps_Timer` constructor.

**`IOManager`** makes each operation on a descriptor one step, since it holds the descriptor's mutex
throughout; fetching and dispatching are separate steps. The kernel half (`interest`, `readyList`,
`ready`, `open`, `hup`) is external: edge triggered, looked at anew by ADD and MOD, emptied by `close()`.

**`Reactor`** extends `Scheduler` to `hps_IOManager`: its idle fiber takes a turn of `idle()` instead of one call of
`stopping()`. The place of a thread in that turn is `step`:

    timers -> pending -> pool -> true | false        the reads of stopping()
    true -> idle fiber ends, if the second getNextTimer() finds nothing
    false -> (epoll_wait, listExpiredCb) -> hand -> dispatch <-> uncount -> swapOut

Timers and events are abstracted to what shutting down depends on: the callbacks in the set, and what the registered
events will schedule. When a timer expires and when an event comes is open, "never" included; what `TimerManager` and
`IOManager` show about collection and dispatch in detail is not repeated. Jobs call `sleep()` (a timer with a callback of
its own, from `Wakers`), `addTimer`, `addEvent` with a callback or for themselves; the caller submits jobs and timers and runs the
destructor. The same `stopping()` is read step by step by the caller inside `stop()`. The tickle pipe has no state: a turn always ends,
because `epoll_wait` has the timeout 0, or at most three seconds in the one case in which a timer came after `stopping()` was true.

**`Config`** cuts `setValue()` between the read lock (compare, notify) and the write lock (assign), and `LoadFromYaml()` between nodes. A
name is the sequence of its parts between dots, a document the list of its nodes with the keys that lead to them, since a key may
contain dots and two paths may give one name. A conversion is modelled by whether it succeeds and which node the value came from.

**`LogDefines`** is the conversion of the variable `logs` in both directions, with the keys each direction reads, leaves out and ignores.

**`MCShapes`** instantiates `Scheduler` and `Reactor` for five set-ups and explores them side by side; `shape` says which one a behaviour belongs to.
It takes them by way of `JobProofs` and `ReactorProofs`, which add nothing to the state, so that the theorems come with the instances.

**`Log`** gives each thread a place in the operation it executes, with the loggers' locks as their holders. An
appender's lock is held for one access at a time and appears as atomicity. Levels can be
changed at any time without a lock, so a comparison with a level may go either way. An appender's own `setFormatter()` may come at any time too,
also while `addAppender()` is between its two locks (`log.cpp:309`, `312`). Two history variables remember what the code does not: `own`, the
formatter last given to an appender itself, and `overtaken`, the appenders that got it in that window.

**`LogFormatter`** is `init()` turn by turn over characters. Before `init()` is called the environment writes the pattern token by
token; the history variable `written` keeps the tokens, each with the length of the pattern and the items meant up to it, so the
parser's result can be compared with what was written.

**`MCLog`** explores `Log`, `LogFormatter`, `LogDefines` and `Config` one at a time, with the others in their first state. They share nothing
while they run: a formatter and a set of definitions are built by one thread in objects of its own, and the configuration would reach the
loggers only through a listener, which is never called.

**`MCScheduler`, `MCReactor`, `MCTimerManager`, `MCIOManager`, `MCConfig`** are the modules the other runs name; constants are in the cfg files.

## 3. Runs

| Run | Instance | Shows |
|---|---|---|
| `sched_workers` | 2 workers, 2 jobs, 1 yield each | jobs conserved, stacks exclusive, counts exact, no assertion fails, `stop()` returns and only when drained, every listed job runs, refinement of `TaskPool` |
| `shapes` | a scheduler with 1 worker + caller and jobs pinned to the caller; the caller alone; 1 worker started and stopped twice; an IO manager on the caller alone (`iom(1)`) and with one worker (`iom(2)`) | no abort; `stop()` drains and returns; work left by the first cycle runs in the second; a stopped IO manager leaves no timer and no entry, and on one thread no event and no waiting fiber |
| `reactor` | IO manager with 2 workers, 2 jobs, 2 sleeps, timers and events | the pending count covers the table, every waiting fiber has exactly one waker, no timer, no entry and no sleeping fiber is left by `stop()` |
| `reactor_abandon` | IO manager with 2 workers, 1 job, 1 sleep | **violated**: `stop()` returns with an event pending, and the job that waits for it is lost |
| `sched_early_wake` | as `sched_workers`, `EarlyWake` | **violated**: two threads on one fiber |
| `sched_pinned` | jobs spawned for a given worker | **violated**: `stop()` waits for ever |
| `timer` | 2 timers, 2 pollers, intervals 1-2 ms | set and callbacks in step, hand-outs proper, no lost notification |
| `timer_due` | 2 timers, 1 poller | **violated**: a timer that is overdue is not collected |
| `io` | 1 descriptor, 3 waiters, 2 pollers, hang-ups, reuse | pending count, waiters and epoll interest agree; no edge is lost |
| `io_trigger` | 1 descriptor, 1 poller | **violated**: the assertion of `triggerEvent` |
| `log` | 2 threads, 2 loggers, a file and a console; patterns of up to 4 tokens (and an unclosed brace); lists of up to 2 definitions with up to 2 appenders, every key present or missing; 2 variables of 2 types, 2 documents, a loading and a setting thread | no deadlock, formatters present and kept (but in the window of section 4), lists unchanged under the loops over them, files fresh; parser right; definitions survive printing; loads complete |
| `config_listener` | the configuration of `log` | **violated**: a change is announced to no listener |

Why the bounds are enough to be of interest. *Scheduler*: two threads and two jobs give every pairing of the windows above; a job that yields once meets
requeue, hold, wake-up and both fates of `cb_fiber`. *Reactor*: two workers let one read `stopping()` while the other runs a job; two jobs and two sleeps give a
timer in the set, one in a thread's hands and an event at the same time; the set-ups with the caller are in `shapes`.
*Timers*: two timers suffice for each of the comparator's contradictions, two pollers for a collection overtaken by
another; the clock may skip a millisecond. *Events*: descriptors share nothing but the pending count,
so one descriptor with both events, three registrations and two pollers covers the races; more descriptors only
multiply independent copies. *Log*: `m_latsTime` starts at 0, so two seconds already give three stamps; two loggers are
needed for `root` and for sharing an appender; `addAppender()` is called while fewer than two are attached in all (two threads may both do so, which gives three), so that a list has
two entries, one appender can be in two lists or twice in one, and root can be cleared and filled again. *Parser*: four tokens give every pair of neighbours in the middle of a pattern.
*Configuration*: the two documents hold a value that does not convert, a key that is not allowed above one that is, a key with dots that
clashes with a nested one, and a tree where a scalar may be expected; a second thread assigns in the middle of a load.

Deadlock is checked in the scheduler, reactor and log runs; in the log run it is what shows that nested
spinlocks never block for ever. The timer and IO runs switch it off: their fault states (undefined `erase`, failed
assertion) are reachable and have no successor, and their users may stop.

Symmetry is used for the threads of the log run and for workers, jobs and sleeps of the reactor run, which check no liveness.

### Fairness

`Scheduler` assumes weak fairness of every thread of the pool and of `stop()`: the operating
system runs runnable threads, and a job does not compute for ever between two yields. Nothing is
assumed of the caller's other calls or of whoever resumes a waiting fiber. `IOManager` assumes that each poller
fetches and dispatches again and again: `idle()` passes the timeout 0 to `epoll_wait` unless the manager is stopping.
`Reactor` has the fairness of `Scheduler`, with a thread's turn of `idle()` included; that a timer expires or an event comes is not assumed, so
`StopTerminates` promises that `stop()` of an IO manager returns only when timers and events are gone for good.
`TimerManager`, `Log`, `LogFormatter`, `LogDefines` and `Config` are checked for safety only.

### Assumptions about users

- `EarlyWake = FALSE` (in `sched_workers`, `reactor`, the shapes `caller` and `iomPair`): a fiber is scheduled for its wake-up only after its thread
  has let go of it. The code does not ensure this; `sched_early_wake` shows what happens otherwise. Where there is one thread (`solo`, `restart`, `iomSolo`)
  early wake-ups are allowed and do no harm: only the thread that is still leaving the fiber could pick it. The theorems say so, by the hypothesis `EarlyWake => OneThread`.
- `GiveWay = FALSE` (in `reactor` and the shape `iomPair`): jobs of an IO manager with several threads do not call `YieldToReady()`. The active count drops before
  such a job is queued again (`scheduler.cpp:190`), all idle fibers can end in that window, and a timer the job adds when it continues is left behind:
  with `GiveWay = TRUE` TLC finds `TimersDrained` violated, and `StopDrainsTimers` and `StopLeavesNothing` have the hypothesis `GiveWay => OneThread`. On one thread (`iomSolo`) the window does not exist and jobs do yield.
- `CleanClose`: a descriptor is closed only when it has no registered events (needed for `InterestMatches`, and a hypothesis of `EpollInStep` only).
- `ClearInUse = FALSE` (in `log`): users do not give an empty formatter to an appender that is attached or being attached. Only `NeverUnformatted` needs it, and `AlwaysFormatted` has it
  as a hypothesis; with `ClearInUse = TRUE` TLC finds that property violated and the other invariants of `Log` not. A formatter that is not empty may be given at any time.
- A job is submitted once; `addEvent` is not called for an event that is registered (the code aborts).

## 4. Disagreements between code and documentation

1. `fiber.cpp:171`: HOLD is published before the context is saved, and `sleep()` arms its timer before it yields: a fiber
   can run on two threads (`sched_early_wake`).
2. `scheduler.cpp:190`: the active count drops before the fiber is queued again. A thread can leave in
   between; a job then spawned for that thread is never taken and `stop()` never returns (`sched_pinned`).
3. `timer.cpp:145`: only timers due in exactly this millisecond are collected (`timer_due`).
4. `iomanager.cpp:352`: all reported events are triggered, registered or not (`io_trigger`).
5. `iomanager.cpp:267`: `stopping()` asks for `m_pendingEventCount == 0`, but a job can register an event between this read and the next one. All threads leave, `stop()`
   returns with the event pending, and the fd contexts are deleted (`iomanager.cpp:78-82`), so nobody resumes the job: it is lost (`reactor_abandon`). Its fiber is leaked, not destroyed: a
   fiber suspended in `YieldToHold` holds itself by the two locals `cur` on its own stack (`fiber.cpp:170`, `180`). It takes a second thread whose idle fiber has ended already and which then
   runs the job that the last poller handed over.
6. `config.h:358`: `addListener()` does not store the callback, so no change is announced and no configuration file changes the loggers (`config_listener`).

Smaller ones, met while modelling and not given a run: `addAppender()` asks an appender for its formatter and gives it the logger's under two separate locks (`log.cpp:309`, `312`), where the
comment in line 308 speaks of an appender that has none: one that `setFormatter()` gives it in between is overwritten, while `m_hasFormatter` stays true, so that the logger's later
formatters do not reach the appender either. `OwnFormatterKept` excepts the appenders in `overtaken` for that reason; without the exception TLC finds it violated by exactly these steps.
Also: `%%` in a pattern yields a `%` and then starts a directive with an empty name, which is an error
(`log.cpp:496`, against the comment in line 483; `ParsedAsWritten` leaves such patterns aside). `hps_FileLogAppender::log()` prints "LogFile error" when the write *succeeds* (`log.cpp:411`).
`hps_FileLogAppender::toYAMLString()` prints the type `hps_FileAppender`, which the parser of definitions rejects. The level of an appender is
documented and printed but never read (`log.cpp:711-728`), nor is the formatter of a console appender. The characters allowed in names lack the digit 9.

## 5. Proofs

Every theorem holds for all values of the constants that satisfy the named assumptions of the module (`ConstAssumption` of `Scheduler`,
`ReactorAssumption`, `TimerAssumption`, `IOAssumption`, `LogAssumption`, `FormatterAssumption`, `ListsAssumption`, `ConfigAssumption`), which TLC evaluates in the runs: any sets of
threads, jobs, timers, descriptors, loggers, patterns, definitions and documents, and any bounds. Where a theorem needs more, the hypothesis is part of its statement:

- **W**: `~EarlyWake`, fibers are resumed only after they left their thread.
- **E**: `EarlyWake => OneThread`, the same unless there is one thread, the caller's or a worker's. `sched_early_wake` shows that it is needed: two threads and early wake-ups.
- **R**: `UseCaller => MaxStarts < 2`, no second `start()`/`stop()` cycle with `use_caller`. `m_rootFiber` is made once, and calling it after it has
  finished runs into the "never reach" assertion of `CallerMainFunc`. (A `Reactor` starts once, by `ReactorAssumption`.)
- **P**: `SpawnPins \subseteq OpenPins`, jobs spawn no job for one thread of several. With two workers and `SpawnPins = {w1}` TLC finds `StopDrains` violated: a fiber in
  HOLD is resumed when `w1` has left `run()` already, and the job it spawns for `w1` is still in the list when `stop()` returns.
- **G**: `GiveWay => OneThread`, jobs of an IO manager with several threads do not yield, see the assumptions about users in section 3.
- **C**: `~ClearInUse`, nobody takes the formatter away from an appender in use, see there too.

| Module | Theorem | Under | Statement |
|---|---|---|---|
| `SchedulerProofs` | `Invariance` | W R | `Spec => []IInv` |
| | `EarlyInvariance` | `OneThread` R | `Spec => []EarlyInv` |
| | `TypeCorrect`, `Exclusive`, `NeverAborts`, `CountsAreExact` | E R | `TypeOK`, `ExclusiveExecution`, `NoAbort`, `CountsExact` always |
| `JobProofs` | `JobInvariance` | W R | `Spec => [](IInv /\ JobInv)` |
| | `EarlyJobInvariance` | E R | `Spec => [](EarlyInv /\ JobInv)` |
| | `NoJobLost` | W R | `JobConserved` always |
| | `StopDrainsAll` | E R P | the action property `StopDrains` |
| | `SchedulerIsTaskPool` | W R P | `Spec => ImplementsTaskPool` |
| `ReactorProofs` | `ReactorInvariance` | E | `ReactorSpec => []RInv` |
| | `ReactorTypeCorrect`, `EventsCounted`, `OneWakerEach` | E | `ReactorTypeOK`, `PendingCovers`, `OneWaker` always |
| | `ReactorExclusive` | E | `ExclusiveExecution /\ NoAbort` for the IO manager |
| | `StopLeavesNothing`, `StopDrainsTimers` | E G | `NothingLeft`, and with it `TimersDrained`, always |
| `ShapesProofs` | `ShapesNeverAbort`, `ShapesLeaveNothing` | | `NoAbort`, `NothingLeft` of `MCShapes` always |
| | `ShapesDrain` | | the action property `StopDrains` of `MCShapes` |
| `TimerProofs` | `TimerInvariance` | | `Spec => []TInv` |
| | `TimerTypeCorrect`, `SetAndCallbacksAgree`, `NoTickleLost` | | `TypeOK`, `SetMatchesCallbacks`, `TickleNotLost` always |
| | `CallbacksProper` | | the action property `HandedOutProperly` |
| `IOProofs` | `IOInvariance` | | `Spec => []IOInv` |
| | `IOTypeCorrect`, `CountIsExact`, `NoWaiterLost` | | `TypeOK`, `PendingExact`, `WaitersConserved` always |
| | `ContextNeverBusy` | | the assertion in `addEvent` that a context is free never fails |
| | `EpollInStep` | `CleanClose` | `InterestMatches` always |
| `LogProofs` | `LogInvariance` | | `Spec => []LogInv` |
| | `LogTypeCorrect`, `FilesAreFresh`, `IteratorsStayValid` | | `TypeOK`, `FreshFile`, `LoopsUndisturbed` always |
| | `OwnFormatterStays` | | `OwnFormatterKept` always: of every appender that is not in `overtaken` |
| | `AlwaysFormatted` | C | `NeverUnformatted` always |
| | `ParserInverts` | | `FormatterSpec => []ParsedAsWritten`: of patterns without `%%` |
| `ConfigProofs` | `ConfigInvariance` | | `ConfigSpec => []CInv` |
| | `ConfigTypeCorrect`, `LoadIsApplied` | | `ConfigTypeOK`, `LoadApplied` always |
| | `ReloadSafe` | | `DefinesSpec => []ReloadKeeps` |

### The arguments

**Fibers** (`IInv`, in `SchedulerInv`). That a thread which picks a fiber is alone with it follows from who may refer to that fiber, not from its state.
A fiber is referred to by at most one entry of the list (`ListDistinct`), or by one local of one thread
(`ThreadsApart`), and not by both (`ListApart`); or it is parked and armed, and then in HOLD (`ArmedInv`). From where a fiber is
follows what its state can be: resumable in the list (`ListInv`), EXEC while it runs, reset when it is a spare
`cb_fiber` (`LocalsInv`, `SpareInv`). `MainInv` says which threads exist and that the root fiber is fresh.
There is one lemma per action of `run()` and of the caller and, where an action disturbs several parts, one step per part.

**Early wake-ups on one thread** (`EarlyInv`). A fiber that is resumed before it has left its thread is in the list and held by that thread at once, and its state is not
yet a resumable one: `ListInv` and `ListApart` fail. `EarlyInv` allows this for one fiber at a time, the one its thread is leaving (`Leaving`): between the request
to be resumed and the end of the loop's body. With one thread the only step of the pool that can come meanwhile is the next one on that way out (`EarlyWayOut`), the caller can
at most schedule or begin to stop, and at the end of the way the fiber is in HOLD and let go of. Whenever no such fiber is listed `EarlyInv` is `IInv` (`EarlyIsLate`), so every other step is
covered by the lemmas of late wake-ups.

**Jobs** (`JobInv`). The same for the jobs inside entries and fibers: an entry has a callback or a fiber, no job is in two entries or two locals
(`EntriesOnce`, `LocalsOnce`), a spare fiber has none, a fiber with a job is somewhere (`FiberPlaced`), and a submitted job that has not ended is placed
(`JobPlaced`). `JobCore` is all of it but `JobPlaced`, which does not hold in the IO manager, where a job may wait in a timer. A fiber on its way to HOLD has asked for its wake-up and may have been listed already
(`Asked`), so that `JobInv` holds with early wake-ups too. `JobConserved` counts the places and follows from `IInv`, for late wake-ups only: a fiber that is listed while its
thread still leaves it counts twice.

**Shutting down** (`DrainInv`). A thread leaves `run()` only after its idle fiber has seen `stopping()`, and only through a pick that finds nothing it may take. From then on all entries are for any thread or for the only one (`OpenPins`, `UnpinnedInv`, from P), so a thread
that queues something picks again before it leaves: when the last one has gone, only fibers resumed too late are listed (`DrainedInv`).

**Refinement**. The mapping gives each job a status; `StatusInv` turns the definition of that status into a table. Each action of `Scheduler` is then shown to change the status
of one job as an action of `TaskPool` does, or of none.

**IO manager** (`RInv`). `IInv` and `JobCore` carry over, since the idle fiber's turn schedules only what is neither listed nor on a thread. `ReactCore` adds who is outside:
callbacks in timers or collected by a thread are in one place (`OutsideInv`), events resume fibers that are armed (`EventInv`), the callback of a `sleep()` that is not over is
somewhere (`WakerInv`) and runs without a break once it is entered (`ExecInv`), and an armed fiber is waited for by one event or one such callback (`AwaitInv`). For `TimersDrained`, `StopInv` is needed:
when every thread still in play has found `stopping()` true, nothing is listed and nobody is active, and when none is in play there is no timer either (`QuietInv`).
A thread comes to `true` by reading an empty list and no active thread. From then on only a thread that is in play and not at `true` can hand over a callback or dispatch an event, so the premise
is false while one exists; and the last one to end its idle fiber asks the timers again when nobody is active who could add one. Nobody asks for events again, and that is `reactor_abandon`.
On one thread somebody else who could register an event does not exist. `OnlyInv` says that the count of pending events, once read as zero, stays zero through the other reads, that the
thread keeps to the list once its idle fiber has ended, and hence that the count is zero when `stop()` returns; `NothingLeft` follows with `PendingCovers`. Nor is an assumption about wake-ups
needed there: whoever dispatches an event or ends a `sleep()` is the only thread, so the fiber it resumes has left it (`ParkedAlone`).

**The five shapes**. The constants of each shape satisfy the assumptions and the hypotheses of the general theorems (`CallerConstants` and its like), a behaviour keeps its shape (`OneShape`), and the
inductive invariants of the five instances together are one of `MCShapes`. It shows that the hypotheses are met by set-ups the code is used in.

**Timers** (`TInv`). The set as a sequence holds no timer twice and exactly those that have a callback (`SetInv`). This holds for every insertion point and every outcome of `find()`, so the
comparator's contradictions cannot harm it; a miss is the fault state. `DeadlineInv`, `ClockInv` and `LifeInv` relate deadline, clock reads and what has happened to a timer, from
which `HandedOutProperly` follows step by step. The loop of `listExpiredCb` that puts recurring timers back is a chain of orders, one per collected timer (`PutBack`), and what holds of its first link is carried to the last.

**Events** (`IOInv`). `WaitersConserved` counts; inductive is its pointwise form: contexts are filled exactly where events are registered, a waiting waiter is in some context, and no
two contexts hold the same one. The pending count is a cardinality, and each operation removes or adds a known set of pairs.

**Loggers** (`LogInv`). `HolderInv` says which locks a thread holds: that of `log[t]` from its first access to its last, besides root's that of one other logger at most, and none when it is out. Two threads in a loop are
therefore in different lists, and whoever changes a list holds a lock that no loop over it can hold: what is left to visit stays the rest of the list (`LoopsUndisturbed`). What each thread is about to visit
has a formatter, unless one was taken away (`TodoInv`, `FormatterInv`), `m_hasFormatter` tells which appenders were given one of their own, and an appender for which
`Give` is due has none or is in `overtaken` (`OwnInv`). Stamp, opening time and clock reads are ordered (`ClockInv`): `m_latsTime <= since <= now`.

**Parser** (`ParserInv`). The pattern is the concatenation of the tokens in `written`, each recorded with where it ends and with the items meant up to there. Between two turns the loop of `init()` stands at the end of a token
and has built those items, the last text in `nstr`; one lemma per kind of token shows what the turn at its beginning does, from the characters that the token and the beginning of the next one put there.

**Definitions** (`ReloadKeeps`). Reading back one printed definition gives the definition, whatever was left out: what `toString()` leaves out is what `fromString()` fills in. The loops over appenders and definitions are
functions on positions; that they agree position by position is the argument by a least counterexample below, and the resulting sets are then equal member by member, in whatever order they were printed.

**Configuration** (`CInv`). A loading thread has dealt with the first `m` nodes of its document, and each untouched variable has the value these
nodes give it, or is about to get it from the `setValue()` in progress (`Progress`). At the end `m` is the length of the document.

Where a statement ranges over a loop or a sequence, and an induction theorem with an operator parameter would be wanted, the proofs take a least counterexample instead: a non-empty set of
naturals has a least member (`LeastNatural`, from the well-foundedness of `<`), and the step from its predecessor refutes it. The invariants of the scheduler and of the reactor were
checked by TLC before they were proved, `RInv` and `StopInv` also with the caller as the only thread and beside one worker, `EarlyInv`, `JobInv` and `DrainInv` with early wake-ups in the shapes `solo` and `restart`.

### Only model-checked, or not stated

- Liveness: `StopTerminates`, `JobsRun`, `ReadyDelivered`, and the fairness half of `MCShapes`. It is beyond the prover.
- `JobConserved` and `ImplementsTaskPool` where one thread meets early wake-ups: the first is false there (the fiber counts twice while it is left), and `TaskPool` would need a status for it.
- A second `start()`/`stop()` cycle with `use_caller`, which R keeps out of the theorems, is in no run either.
- The properties of the runs that expect a violation.

## 6. Not modelled

- In `Reactor`: recurring timers, cancelled timers, `delEvent` and `cancelEvent`. They are actions of `TimerManager` and `IOManager`, which are not composed with the scheduler.
- Stack allocation, the fiber count and the dlsym table of the hooks: no control depends on them.
- `contextResize` beyond the initial table; the tickle pipe, which only shortens a wait.
- `addConditionTimer`'s weak pointer (user code) and `detectClockRollver` (never called).
- Format items, `toYAMLString` and stream errors of the logger: wording, and the state of an `ofstream` after a failure.
- The reaction of the loggers to a change of `logs` (`log.cpp:789-851`): it is a listener and never called. Were it called, a definition that did
  not change would leave `logger` empty and be dereferenced (`log.cpp:796-809`).
- `hps_Thread` and the locks. The locks wrap pthread and are the critical sections of the other modules. The constructor's semaphore starts at 1, so it
  does not wait for `run()`; the id that may be missing then goes to `m_threadIds`, which nobody reads, and the scheduler joins a thread before it drops it.
- yaml-cpp and boost, beyond whether a conversion succeeds. The programs in `tests/` demonstrate the library and assert nothing about its behaviour.

## 7. Plan

1. `contextResize` in `IOManager`, with two threads beyond the table.
2. A second `start()`/`stop()` cycle of a scheduler with `use_caller`, whose root fiber has ended, to replace hypothesis R by what goes wrong.
3. A status of `TaskPool` for a job whose fiber was resumed before it left its thread, to state the refinement for one thread with early wake-ups.
