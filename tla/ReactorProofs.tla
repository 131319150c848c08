---------------------------- MODULE ReactorProofs ----------------------------
(***************************************************************************)
(* Proofs about hps_IOManager as a whole: the scheduler's invariants hold   *)
(* with the polling idle fiber, the events stopping() counts are the ones   *)
(* there are, a fiber that waits has exactly one who will resume it, and    *)
(* stop() returns only when the timers are drained.                         *)
(***************************************************************************)
EXTENDS Reactor, JobProofs

\* The scheduler knows job j: the list, a thread or a fiber has it
Placed(j) ==
  \/ \E i \in 1 .. Len(m_fibers) : m_fibers[i].cb = j
  \/ \E t \in Threads : ft[t].cb = j
  \/ \E f \in Fibers : m_cb[f] = j

\* Jobs that were handed out, have not ended, and are not known to the scheduler
Aside == {j \in submitted \ done : ~Placed(j)}

PollTypeOK ==
  /\ m_timers \in SUBSET Jobs /\ m_events \in SUBSET Entry
  /\ wakes \in [Wakers -> Fibers \cup {NoFiber}]
  /\ step \in [Threads \cup {Caller} -> Steps]
  /\ cbs \in [Threads -> SUBSET Jobs]
  /\ got \in [Threads -> SUBSET Entry]

FiniteInv ==
  /\ IsFiniteSet(m_timers) /\ IsFiniteSet(m_events)
  /\ \A t \in Threads : IsFiniteSet(cbs[t])

\* An event resumes a fiber that waits, or schedules a callback of its own
EventInv ==
  \A e \in m_events :
    /\ e.fiber # NoFiber => e = FiberEntry(e.fiber, AnyThread) /\ e.fiber \in armed
    /\ e.fiber = NoFiber => e = CbEntry(e.cb, AnyThread) /\ e.cb \in Aside \ Wakers

\* A callback that waits in a timer or was collected is in one place
OutsideInv ==
  /\ m_timers \subseteq Aside
  /\ \A t \in Threads : cbs[t] \subseteq Aside /\ cbs[t] \cap m_timers = {}
  /\ \A t, u \in Threads : t # u => cbs[t] \cap cbs[u] = {}
  /\ \A e \in m_events : e.cb \notin m_timers /\ \A t \in Threads : e.cb \notin cbs[t]

\* The callback of a sleep() that is not over is somewhere, the one of a sleep()
\* not called yet nowhere
WakerInv ==
  /\ Wakers \subseteq submitted
  /\ \A w \in Wakers :
       /\ Live(w) => w \in m_timers \/ Placed(w) \/ \E t \in Threads : w \in cbs[t]
       /\ wakes[w] = NoFiber =>
            /\ w \notin m_timers /\ w \notin done /\ ~Placed(w)
            /\ \A t \in Threads : w \notin cbs[t]

\* ... and runs from its swapIn() to its end without a break
ExecInv ==
  \A f \in Fibers : m_cb[f] \in Wakers => \E t \in Threads : pc[t] = "exec" /\ Cur(t) = f

\* Who waits, and for whom
AwaitInv ==
  /\ \A w \in Wakers : Live(w) =>
       wakes[w] \in armed /\ FiberEntry(wakes[w], AnyThread) \notin m_events
  /\ \A v, w \in Wakers : Live(v) /\ Live(w) /\ v # w => wakes[v] # wakes[w]
  /\ \A f \in armed : \/ FiberEntry(f, AnyThread) \in m_events
                      \/ \E w \in Wakers : Live(w) /\ wakes[w] = f

\* Where the locals of idle() are in use
StepInv ==
  \A t \in Threads :
    /\ pc[t] \notin {"idling", "none"} => step[t] = "timers"
    /\ step[t] \in {"hand", "dispatch", "uncount"} => pc[t] = "idling"
    /\ step[t] # "hand" => cbs[t] = {}

ReactCore ==
  /\ PollTypeOK /\ FiniteInv /\ EventInv /\ OutsideInv /\ WakerInv /\ ExecInv
  /\ AwaitInv /\ StepInv /\ PendingCovers

RInv == IInv /\ JobCore /\ ReactCore

-----------------------------------------------------------------------------
(* What shutting down relies on, where jobs do not call YieldToReady() or   *)
(* there is only one thread.                                                *)

\* Thread t is in run() and has not left idle() for good
InPlay(t) == pc[t] # "none" /\ idleState[t] # "TERM"

\* ... and has found stopping() true
AtEnd(t) == pc[t] = "idling" /\ step[t] = "true"

\* stop() has set its flags, and a pool without workers has its one thread
Draining == main \in {"stopCheck", "inRun", "join", "stopped"}
            /\ (Workers = {} => main # "stopCheck")

\* The flags, and the states of the idle fibers, follow stop()
FlagInv ==
  /\ main \in {"started", "stop", "stopCheck", "inRun", "join", "stopped"}
  /\ main \in {"started", "stop"} =>
       /\ ~m_stopping /\ step[Caller] = "timers"
       /\ \A t \in Threads : idleState[t] # "TERM" /\ step[t] # "true"
       /\ \A w \in Workers : pc[w] # "none"
  /\ main \in {"started", "stop", "stopCheck"} /\ UseCaller => idleState[Caller] # "TERM"
  /\ \A t \in Threads : /\ pc[t] = "idling" => idleState[t] = "EXEC"
                        /\ pc[t] = "exit" => idleState[t] = "TERM"

\* A fiber is READY only where jobs give way, and one that runs or waits has a job
StateInv ==
  \A f \in Fibers : /\ m_state[f] = "READY" => GiveWay
                    /\ m_state[f] \in {"READY", "HOLD", "EXEC"} => m_cb[f] \in Jobs

\* When every thread still in play has found stopping() true, nothing is left
\* to run; when none is in play, no timer either
QuietInv ==
  Draining =>
    /\ (\A t \in Threads : InPlay(t) => AtEnd(t)) => m_fibers = <<>> /\ ActiveThreads = {}
    /\ (\A t \in Threads : ~InPlay(t)) => m_timers = {}

\* The caller of a pool without workers, evaluating stopping()
LoneInv ==
  main = "stopCheck" /\ Workers = {} =>
    /\ step[Caller] \in {"pending", "pool", "true"} => m_timers = {}
    /\ step[Caller] = "true" => m_fibers = <<>> /\ ActiveThreads = {}

StopInv == FlagInv /\ StateInv /\ QuietInv /\ LoneInv

\* The only thread stays at the list once its idle fiber has ended.  Nobody adds
\* an event between its reads of stopping(), or after them
OnlyInv ==
  OneThread =>
    /\ \A t \in Threads : idleState[t] = "TERM" =>
         pc[t] \in {"pick", "exit", "none"} /\ m_pendingEventCount = 0
    /\ \A t \in Threads \cup {Caller} :
         Evaluates(t) /\ step[t] \in {"pool", "true"} => m_pendingEventCount = 0
    /\ main = "join" /\ Workers = {} => m_pendingEventCount = 0
    /\ main = "stopped" => m_pendingEventCount = 0

-----------------------------------------------------------------------------
\* The scheduler takes on no job that waits elsewhere, and no callback of a
\* sleep() ends or is dropped
KeepsJobs ==
  /\ submitted \subseteq submitted' /\ done \subseteq done' /\ armed' = armed
  /\ \A j \in done' \ done : Placed(j) /\ j \notin Wakers
  /\ \A j \in submitted : Placed(j)' => Placed(j)
  /\ \A w \in Wakers \ done : Placed(w) => Placed(w)'
  /\ ExecInv' /\ StepInv'

\* Such a step keeps ReactCore when it leaves the timers and the events alone
LEMMA FrameCore ==
  ASSUME RInv, UNCHANGED pollVars, KeepsJobs
  PROVE  ReactCore'
<1> USE DEF RInv, ReactCore, pollVars, KeepsJobs
<1>1. PollTypeOK' /\ FiniteInv' /\ PendingCovers'
  BY DEF PollTypeOK, FiniteInv, PendingCovers
<1>2. Aside \subseteq Aside'
  BY DEF Aside
<1>3. \A w \in Wakers : Live(w)' <=> Live(w)
  BY DEF Live
<1> HIDE DEF Live, Aside
<1>4. EventInv'
  BY <1>2 DEF EventInv
<1>5. OutsideInv'
  BY <1>2 DEF OutsideInv
<1>6. WakerInv'
  <2>1. ASSUME NEW w \in Wakers, wakes[w] # NoFiber, w \notin done
        PROVE  w \in m_timers \/ Placed(w)' \/ \E t \in Threads : w \in cbs[t]
    BY <2>1 DEF WakerInv, Live
  <2>2. \A w \in Wakers : wakes[w] = NoFiber => ~Placed(w)' /\ w \notin done'
    BY DEF WakerInv
  <2> QED
    BY <1>3, <2>1, <2>2 DEF WakerInv, Live
<1>7. AwaitInv'
  BY <1>3 DEF AwaitInv
<1> QED
  BY <1>1, <1>4, <1>5, <1>6, <1>7

\* A thread that leaves its locals, the list and the fibers' jobs alone, and is
\* not at the callback of a sleep()
LEMMA ThreadKeeps ==
  ASSUME RInv, NEW t \in Threads, UNCHANGED <<m_fibers, ft, m_cb, armed, submitted, done, step, cbs>>,
         \A u \in Threads \ {t} : pc'[u] = pc[u] /\ cbFiber'[u] = cbFiber[u],
         pc[t] = "exec" => m_cb[Cur(t)] \notin Wakers,
         pc[t] \notin {"none", "idling"}, pc'[t] # "none"
  PROVE  KeepsJobs
<1> USE DEF RInv, ReactCore
<1>1. ExecInv'
  <2> SUFFICES ASSUME NEW f \in Fibers, m_cb[f] \in Wakers
               PROVE  \E u \in Threads : pc'[u] = "exec" /\ Cur(u)' = f
    BY DEF ExecInv
  <2>1. PICK u \in Threads : pc[u] = "exec" /\ Cur(u) = f
    BY DEF ExecInv
  <2>2. u # t
    BY <2>1
  <2> QED
    BY <2>1, <2>2 DEF Cur
<1>2. StepInv'
  BY DEF StepInv
<1> QED
  BY <1>1, <1>2 DEF KeepsJobs, Placed

\* The steps of run() and of a job that are of that kind
LEMMA PlainKeeps ==
  ASSUME RInv, NEW t \in Threads, UNCHANGED pollVars,
         \/ PickNothing(t) \/ RunFiber(t) \/ SwapOut(t) \/ NoteHold(t)
         \/ YieldToHold(t) \/ (UserCode(t) /\ YieldToReady(t))
  PROVE  KeepsJobs
<1> USE DEF pollVars, fiberVars, jobVars, RInv, IInv
<1>1. CASE PickNothing(t)
  BY <1>1, ThreadKeeps DEF PickNothing, TypeOK
<1>2. CASE RunFiber(t)
  BY <1>2, ThreadKeeps DEF RunFiber, SwapIn, TypeOK
<1>3. CASE SwapOut(t)
  BY <1>3, ThreadKeeps DEF SwapOut, TypeOK
<1>4. CASE NoteHold(t)
  BY <1>4, ThreadKeeps DEF NoteHold, SettleFrame, TypeOK
<1>5. CASE YieldToHold(t)
  BY <1>5, ThreadKeeps DEF YieldToHold, BodyFrame, TypeOK
<1>6. CASE UserCode(t) /\ YieldToReady(t)
  BY <1>6, ThreadKeeps DEF UserCode, YieldToReady, BodyFrame, TypeOK
<1> QED
  BY <1>1, <1>2, <1>3, <1>4, <1>5, <1>6

\* A thread that moves a job: the others' callbacks of sleep() go on
LEMMA MoveKeeps ==
  ASSUME RInv, NEW t \in Threads, UNCHANGED <<armed, submitted, step, cbs>>,
         done \subseteq done', \A j \in done' \ done : Placed(j) /\ j \notin Wakers,
         \A u \in Threads \ {t} : pc'[u] = pc[u] /\ Cur(u)' = Cur(u),
         \A j \in submitted : Placed(j)' => Placed(j),
         \A w \in Wakers \ done : Placed(w) => Placed(w)',
         \A f \in Fibers : m_cb'[f] \in Wakers =>
            \/ pc'[t] = "exec" /\ Cur(t)' = f
            \/ m_cb'[f] = m_cb[f] /\ ~(pc[t] = "exec" /\ Cur(t) = f),
         pc[t] \notin {"none", "idling"}, pc'[t] # "none"
  PROVE  KeepsJobs
<1> USE DEF RInv, ReactCore
<1>1. ExecInv'
  BY DEF ExecInv
<1>2. StepInv'
  BY DEF StepInv
<1> QED
  BY <1>1, <1>2 DEF KeepsJobs

\* The pick of an entry
LEMMA PickKeeps ==
  ASSUME RInv, NEW t \in Threads, UNCHANGED pollVars, Pick(t)
  PROVE  KeepsJobs
<1> USE ConstAssumption, ReactorAssumption
        DEF RInv, IInv, JobCore, ReactCore, pollVars, fiberVars, jobVars
<1>1. PICK i \in Candidates(t) :
        /\ ft' = [ft EXCEPT ![t] = m_fibers[i]]
        /\ m_fibers' = RemoveAt(m_fibers, i)
  BY DEF Pick
<1>2. /\ pc[t] = "pick" /\ pc' = [pc EXCEPT ![t] = "dispatch"]
      /\ UNCHANGED <<cbFiber, fiberVars, jobVars>>
  BY DEF Pick
<1>3. i \in 1 .. Len(m_fibers) /\ m_fibers[i] \in Entry
  BY DEF Candidates, TypeOK
<1>4. /\ m_fibers' \in Seq(Entry) /\ Len(m_fibers') = Len(m_fibers) - 1
      /\ \A k \in 1 .. Len(m_fibers') :
           m_fibers'[k] = IF k < i THEN m_fibers[k] ELSE m_fibers[k + 1]
  BY <1>1, <1>3, RemoveAtFacts, ZenonT(60) DEF TypeOK
<1>5. /\ ft'[t] = m_fibers[i] /\ \A u \in Threads \ {t} : ft'[u] = ft[u]
      /\ pc'[t] = "dispatch" /\ \A u \in Threads \ {t} : pc'[u] = pc[u]
      /\ ft[t].cb = NoJob
  BY <1>1, <1>2 DEF TypeOK, EntryShape
<1>6. \A k \in 1 .. Len(m_fibers') : \E m \in 1 .. Len(m_fibers) : m_fibers'[k] = m_fibers[m]
  <2> TAKE k \in 1 .. Len(m_fibers')
  <2>1. CASE k < i
    BY <1>3, <1>4, <2>1
  <2>2. CASE ~(k < i)
    <3>1. k + 1 \in 1 .. Len(m_fibers) /\ m_fibers'[k] = m_fibers[k + 1]
      BY <1>3, <1>4, <2>2
    <3> QED
      BY <3>1
  <2> QED
    BY <2>1, <2>2
<1>7. \A k \in 1 .. Len(m_fibers) : k # i => \E m \in 1 .. Len(m_fibers') : m_fibers'[m] = m_fibers[k]
  <2> TAKE k \in 1 .. Len(m_fibers)
  <2>1. CASE k < i
    BY <1>3, <1>4, <2>1
  <2>2. CASE k > i
    <3>1. k - 1 \in 1 .. Len(m_fibers') /\ m_fibers'[k - 1] = m_fibers[k]
      BY <1>3, <1>4, <2>2
    <3> QED
      BY <3>1
  <2> QED
    BY <1>3, <2>1, <2>2
<1>8. \A j \in Jobs : Placed(j)' <=> Placed(j)
  <2> TAKE j \in Jobs
  <2>1. ASSUME Placed(j)' PROVE Placed(j)
    BY <1>2, <1>3, <1>5, <1>6, <2>1 DEF Placed
  <2>2. ASSUME Placed(j) PROVE Placed(j)'
    <3>1. j # NoJob
      OBVIOUS
    <3>2. CASE \E k \in 1 .. Len(m_fibers) : m_fibers[k].cb = j
      BY <1>5, <1>7, <3>2, SMTT(30) DEF Placed
    <3>3. CASE \E u \in Threads : ft[u].cb = j
      BY <1>5, <3>1, <3>3 DEF Placed
    <3>4. CASE \E f \in Fibers : m_cb[f] = j
      BY <1>2, <3>4 DEF Placed
    <3> QED
      BY <2>2, <3>2, <3>3, <3>4 DEF Placed
  <2> QED
    BY <2>1, <2>2
<1>9. \A u \in Threads \ {t} : pc'[u] = pc[u] /\ Cur(u)' = Cur(u)
  BY <1>2, <1>5 DEF Cur
<1>10. submitted \subseteq Jobs
  BY DEF TypeOK
<1> QED
  BY <1>2, <1>5, <1>8, <1>9, <1>10, MoveKeeps

\* A callback gets its fiber
LEMMA CallbackKeeps ==
  ASSUME RInv, NEW t \in Threads, UNCHANGED pollVars,
         RunCallbackReuse(t) \/ RunCallbackNew(t), fault' = "none"
  PROVE  KeepsJobs
<1> USE ConstAssumption, ReactorAssumption
        DEF RInv, IInv, JobCore, ReactCore, pollVars, fiberVars, jobVars
<1>1. PICK f \in Fibers :
        /\ m_cb' = [m_cb EXCEPT ![f] = ft[t].cb] /\ ft' = [ft EXCEPT ![t] = ResetEntry]
        /\ pc[t] = "dispatch" /\ pc' = [pc EXCEPT ![t] = "exec"] /\ m_cb[f] = NoJob
        /\ cbFiber' = [cbFiber EXCEPT ![t] = f] /\ UNCHANGED <<m_fibers, armed, jobVars>>
  <2>1. CASE RunCallbackReuse(t)
    <3>1. /\ cbFiber[t] \in Fibers /\ m_cb[cbFiber[t]] = NoJob
          /\ cbFiber' = [cbFiber EXCEPT ![t] = cbFiber[t]]
      BY <2>1 DEF RunCallbackReuse, TypeOK, SpareEmpty, SwappedIn, AtWork
    <3> QED
      BY <2>1, <3>1 DEF RunCallbackReuse, SwapIn
  <2>2. CASE RunCallbackNew(t)
    <3>1. s_fiber_id + 1 \in Fibers /\ s_fiber_id + 1 > s_fiber_id
      BY <2>2 DEF RunCallbackNew, TypeOK, Fibers
    <3> QED
      BY <2>2, <3>1 DEF RunCallbackNew, SwapIn, SpareEmpty
  <2> QED
    BY <2>1, <2>2
<1>2. /\ ft'[t] = ResetEntry /\ \A u \in Threads \ {t} : ft'[u] = ft[u]
      /\ pc'[t] = "exec" /\ \A u \in Threads \ {t} : pc'[u] = pc[u]
      /\ cbFiber'[t] = f /\ \A u \in Threads \ {t} : cbFiber'[u] = cbFiber[u]
      /\ m_cb'[f] = ft[t].cb /\ \A g \in Fibers \ {f} : m_cb'[g] = m_cb[g]
  BY <1>1 DEF TypeOK
<1>3. \A j \in Jobs : Placed(j)' <=> Placed(j)
  BY <1>1, <1>2 DEF Placed, ResetEntry
<1>4. Cur(t)' = f /\ \A u \in Threads \ {t} : pc'[u] = pc[u] /\ Cur(u)' = Cur(u)
  BY <1>2 DEF Cur, ResetEntry
<1>5. submitted \subseteq Jobs
  BY DEF TypeOK
<1> QED
  BY <1>1, <1>2, <1>3, <1>4, <1>5, MoveKeeps

\* run() lets go of a fiber: its local entry holds no callback any more
LEMMA SettleKeeps ==
  ASSUME RInv, NEW t \in Threads, UNCHANGED pollVars,
         Requeue(t) \/ Finish(t) \/ SetHold(t)
  PROVE  KeepsJobs
<1> USE ConstAssumption, ReactorAssumption
        DEF RInv, IInv, JobCore, ReactCore, pollVars, fiberVars, jobVars, SettleFrame
<1>1. /\ ft' = [ft EXCEPT ![t] = ResetEntry] /\ pc' = [pc EXCEPT ![t] = "pick"]
      /\ pc[t] \in {"settle", "sethold"} /\ UNCHANGED <<armed, jobVars>>
      /\ \A u \in Threads \ {t} : cbFiber'[u] = cbFiber[u]
  BY DEF Requeue, Finish, SetHold, LetGo, TypeOK
<1>2. /\ ft'[t] = ResetEntry /\ \A u \in Threads \ {t} : ft'[u] = ft[u]
      /\ pc'[t] = "pick" /\ \A u \in Threads \ {t} : pc'[u] = pc[u]
      /\ ft[t].cb = NoJob
  BY <1>1 DEF TypeOK, EntryShape
<1>3. \A j \in Jobs : (\E i \in 1 .. Len(m_fibers') : m_fibers'[i].cb = j)
                        <=> (\E i \in 1 .. Len(m_fibers) : m_fibers[i].cb = j)
  <2>1. CASE Requeue(t)
    <3> DEFINE e == FiberEntry(Cur(t), AnyThread)
    <3>1. e \in Entry /\ e.cb = NoJob /\ m_fibers \in Seq(Entry) /\ m_fibers' = Append(m_fibers, e)
      BY <2>1 DEF Requeue, Enqueue, FiberEntry, Entry, TypeOK, LocalsInv, SwappedIn, AtWork, Cur
    <3> HIDE DEF e
    <3>2. /\ \A i \in 1 .. Len(m_fibers) : i \in 1 .. Len(m_fibers') /\ m_fibers'[i] = m_fibers[i]
          /\ \A i \in 1 .. Len(m_fibers') : i \in 1 .. Len(m_fibers) \/ m_fibers'[i] = e
      BY <3>1, AppendFacts
    <3> QED
      BY <3>1, <3>2
  <2>2. CASE Finish(t) \/ SetHold(t)
    BY <2>2 DEF Finish, SetHold
  <2> QED
    BY <2>1, <2>2
<1>4. \A f \in Fibers : m_cb'[f] = m_cb[f] \/ (m_cb'[f] = NoJob /\ m_cb[f] \in done \cup {NoJob})
  <2>1. CASE Finish(t)
    BY <2>1 DEF Finish, Pending, LocalsInv, SwappedIn, AtWork, Cur, TypeOK, Entry
  <2>2. CASE Requeue(t) \/ SetHold(t)
    BY <2>2 DEF Requeue, SetHold
  <2> QED
    BY <2>1, <2>2
<1>5. submitted \subseteq Jobs /\ Wakers \subseteq Jobs
  BY DEF TypeOK
<1>6. \A j \in submitted : Placed(j)' => Placed(j)
  BY <1>2, <1>3, <1>4, <1>5 DEF Placed, ResetEntry
<1>7. \A w \in Wakers \ done : Placed(w) => Placed(w)'
  BY <1>2, <1>3, <1>4, <1>5 DEF Placed
<1>8. \A f \in Fibers : m_cb'[f] \in Wakers => m_cb'[f] = m_cb[f]
  BY <1>4
<1>9. \A u \in Threads \ {t} : pc'[u] = pc[u] /\ Cur(u)' = Cur(u)
  BY <1>1, <1>2 DEF Cur
<1> QED
  BY <1>1, <1>2, <1>6, <1>7, <1>8, <1>9, MoveKeeps

\* run() keeps the jobs
LEMMA PoolKeeps ==
  ASSUME RInv, NEW t \in Threads, PoolStep(t), fault' = "none"
  PROVE  KeepsJobs
  BY PlainKeeps, PickKeeps, CallbackKeeps, SettleKeeps DEF PoolStep

\* A job that returns has ended, and was no callback of a sleep()
LEMMA ReturnKeeps ==
  ASSUME RInv, NEW t \in Threads, UNCHANGED pollVars, UserCode(t), Return(t)
  PROVE  KeepsJobs
<1> USE ConstAssumption, ReactorAssumption
        DEF RInv, IInv, JobCore, ReactCore, pollVars, fiberVars, jobVars, BodyFrame
<1>1. Cur(t) \in Fibers /\ pc[t] = "exec" /\ m_cb[Cur(t)] \in Jobs \ Wakers
  BY DEF Return, UserCode, LocalsInv, SwappedIn, AtWork, Cur, TypeOK, Entry
<1> DEFINE c == Cur(t)
<1>2. /\ m_cb'[c] = NoJob /\ \A g \in Fibers \ {c} : m_cb'[g] = m_cb[g]
      /\ done' = done \cup {m_cb[c]} /\ pc'[t] = "swapOut"
      /\ \A u \in Threads \ {t} : pc'[u] = pc[u]
      /\ UNCHANGED <<m_fibers, ft, cbFiber, armed, submitted>>
  BY <1>1 DEF Return, TypeOK
<1>3. \A u \in Threads : Cur(u)' = Cur(u)
  BY <1>2 DEF Cur
<1>4. c \in Fibers /\ m_cb[c] \notin Wakers /\ Placed(m_cb[c]) /\ c = Cur(t)
  BY <1>1 DEF Placed
<1> HIDE DEF c
<1>5. /\ \A j \in Jobs : Placed(j)' => Placed(j)
      /\ \A w \in Wakers : Placed(w) => Placed(w)'
  BY <1>2, <1>4 DEF Placed
<1>6. submitted \subseteq Jobs /\ NoJob \notin Wakers
  BY DEF TypeOK
<1> QED
  BY <1>1, <1>2, <1>3, <1>4, <1>5, <1>6, MoveKeeps

\* schedule() of a job submitted for the first time
LEMMA ScheduleKeeps ==
  ASSUME RInv, UNCHANGED pollVars, NEW j \in Fresh, ScheduleFrame,
         NEW thr \in Workers \cup {Caller, AnyThread},
         ScheduleCb(j, thr) \/ ScheduleFiber(j, thr)
  PROVE  KeepsJobs
<1> USE ConstAssumption, ReactorAssumption
        DEF RInv, IInv, JobCore, ReactCore, pollVars, fiberVars, ScheduleFrame
<1>1. PICK e \in Entry : m_fibers' = Append(m_fibers, e) /\ e.cb \in {j, NoJob}
  <2>1. CASE ScheduleCb(j, thr)
    BY <2>1 DEF ScheduleCb, Enqueue, CbEntry, Entry, Fresh
  <2>2. CASE ScheduleFiber(j, thr)
    <3>1. s_fiber_id + 1 \in Fibers
      BY <2>2 DEF ScheduleFiber, NewFiber, Fibers, TypeOK
    <3> QED
      BY <2>2, <3>1 DEF ScheduleFiber, Enqueue, FiberEntry, Entry
  <2> QED
    BY <2>1, <2>2
<1>2. /\ \A i \in 1 .. Len(m_fibers) : i \in 1 .. Len(m_fibers') /\ m_fibers'[i] = m_fibers[i]
      /\ \A i \in 1 .. Len(m_fibers') : i \in 1 .. Len(m_fibers) \/ m_fibers'[i] = e
  BY <1>1, AppendFacts DEF TypeOK
<1>3. \A f \in Fibers : m_cb'[f] = m_cb[f] \/ (m_cb[f] = NoJob /\ m_cb'[f] = j)
  <2>1. CASE ScheduleCb(j, thr)
    BY <2>1 DEF ScheduleCb
  <2>2. CASE ScheduleFiber(j, thr)
    <3>1. s_fiber_id + 1 \in Fibers /\ s_fiber_id + 1 > s_fiber_id
      BY <2>2 DEF ScheduleFiber, NewFiber, Fibers, TypeOK
    <3> QED
      BY <2>2, <3>1 DEF ScheduleFiber, NewFiber, SpareEmpty, TypeOK
  <2> QED
    BY <2>1, <2>2
<1>4. submitted' = submitted \cup {j} /\ armed' = armed /\ done' = done
  BY DEF ScheduleCb, ScheduleFiber, NewFiber
<1>5. j \notin submitted /\ submitted \subseteq Jobs /\ Wakers \subseteq submitted
  BY DEF Fresh, WakerInv, TypeOK
<1>6. \A k \in submitted : Placed(k)' <=> Placed(k)
  BY <1>1, <1>2, <1>3, <1>5 DEF Placed
<1>7. ExecInv'
  <2>1. \A u \in Threads : Cur(u)' = Cur(u) /\ pc'[u] = pc[u]
    BY DEF Cur
  <2>2. \A f \in Fibers : m_cb'[f] \in Wakers => m_cb[f] \in Wakers
    BY <1>3, <1>5
  <2> QED
    BY <2>1, <2>2 DEF ExecInv
<1>8. StepInv'
  BY DEF StepInv
<1> QED
  BY <1>4, <1>5, <1>6, <1>7, <1>8 DEF KeepsJobs

\* stop() creates and joins threads that are at nothing
LEMMA StopKeeps ==
  ASSUME RInv, UNCHANGED <<m_fibers, ft, cbFiber, fiberVars, submitted, done, step, cbs>>,
         \A t \in Threads :
           \/ pc'[t] = pc[t]
           \/ pc[t] = "none" /\ pc'[t] = "pick" /\ step[t] = "timers"
           \/ pc[t] = "exit" /\ pc'[t] = "none"
  PROVE  KeepsJobs
<1> USE DEF RInv, ReactCore, fiberVars
<1>1. ExecInv'
  <2>1. \A u \in Threads : Cur(u)' = Cur(u) /\ (pc[u] = "exec" => pc'[u] = "exec")
    BY DEF Cur
  <2> QED
    BY <2>1 DEF ExecInv
<1>2. StepInv'
  BY DEF StepInv
<1> QED
  BY <1>1, <1>2 DEF KeepsJobs, Placed

-----------------------------------------------------------------------------
\* The variables of Scheduler stand still
LEMMA StillStep ==
  ASSUME RInv, EarlyWake => OneThread, UNCHANGED vars
  PROVE  IInv' /\ JobCore'
<1>1. IInv'
  BY StepPreserves, ReactorAssumption DEF RInv
<1>2. JobCore'
  BY CallerFrameJob, LateIsEarly DEF RInv, vars, fiberVars
<1> QED
  BY <1>1, <1>2

\* A step of idle() or stop() that moves no job, timer or event
LEMMA SameCore ==
  ASSUME RInv, UNCHANGED <<m_timers, m_events, wakes, cbs, armed, m_fibers, ft, cbFiber,
                           m_cb, submitted, done>>,
         \A t \in Threads : pc[t] = "exec" => pc'[t] = "exec",
         PollTypeOK', StepInv', PendingCovers'
  PROVE  ReactCore'
<1> USE DEF RInv, ReactCore
<1>1. \A j : Placed(j)' <=> Placed(j)
  BY DEF Placed
<1>2. Aside' = Aside
  BY <1>1 DEF Aside
<1>3. \A w : Live(w)' <=> Live(w)
  BY DEF Live
<1>4. \A t \in Threads : Cur(t)' = Cur(t)
  BY DEF Cur
<1> HIDE DEF Placed, Aside, Live, Cur
<1>5. FiniteInv' /\ EventInv' /\ OutsideInv'
  BY <1>2 DEF FiniteInv, EventInv, OutsideInv
<1>6. WakerInv' /\ AwaitInv'
  BY <1>1, <1>3 DEF WakerInv, AwaitInv
<1>7. ExecInv'
  BY <1>4 DEF ExecInv
<1> QED
  BY <1>5, <1>6, <1>7

\* One of the three reads of stopping()
LEMMA ReadStep ==
  ASSUME RInv, EarlyWake => OneThread, NEW t \in Threads \cup {Caller},
         ReadTimers(t) \/ ReadPending(t) \/ ReadPool(t)
  PROVE  RInv'
<1> USE DEF RInv, ReactCore
<1>1. PICK here \in {"timers", "pending", "pool"}, next \in {"pending", "pool", "true", "false"} :
        step[t] = here /\ Evaluates(t) /\ step' = [step EXCEPT ![t] = next]
  BY DEF ReadTimers, ReadPending, ReadPool, Read, Goto
<1>2. UNCHANGED <<vars, m_timers, m_events, m_pendingEventCount, wakes, cbs, got>>
  BY DEF ReadTimers, ReadPending, ReadPool, Read
<1>3. PollTypeOK'
  BY <1>1, <1>2 DEF PollTypeOK, Steps
<1>4. StepInv'
  <2>1. t \in Threads => pc[t] \in {"idling", "none"}
    BY <1>1, ConstAssumption DEF Evaluates, IInv, MainInv
  <2>2. \A u \in Threads \ {t} : step'[u] = step[u]
    BY <1>1 DEF PollTypeOK
  <2>3. t \in Threads => step'[t] = next
    BY <1>1 DEF PollTypeOK
  <2> QED
    BY <1>1, <1>2, <2>1, <2>2, <2>3 DEF StepInv, vars
<1>5. PendingCovers'
  <2>1. {u \in Threads : step'[u] = "uncount"} = {u \in Threads : step[u] = "uncount"}
    BY <1>1 DEF PollTypeOK
  <2> QED
    BY <1>2, <2>1 DEF PendingCovers
<1>6. ReactCore'
  BY <1>2, <1>3, <1>4, <1>5, SameCore DEF vars
<1> QED
  BY <1>2, <1>6, StillStep

\* A thread leaves idle() for good, or for the next round
LEMMA LeaveIdleStep ==
  ASSUME RInv, NEW t \in Threads, fault = "none", pc[t] = "idling",
         IdleEnds(t) \/ IdleYields(t)
  PROVE  RInv'
<1> USE DEF RInv, ReactCore
<1>1. PICK s \in FiberState : LeaveIdle(t, s)
  BY DEF IdleEnds, IdleYields, FiberState
<1>2. step[t] \in {"true", "dispatch"}
  BY DEF IdleEnds, IdleYields
<1>3. IInv'
  BY <1>1, LeavesIdleStep DEF LeaveIdle, IdleFrame, fiberVars
<1>4. JobCore'
  BY <1>1, IdleJob DEF LeaveIdle, IdleFrame, fiberVars
<1>5. PollTypeOK'
  BY <1>1 DEF LeaveIdle, Goto, PollTypeOK, Steps
<1>6. /\ step'[t] = "timers" /\ \A u \in Threads \ {t} : step'[u] = step[u]
      /\ pc'[t] = "pick" /\ \A u \in Threads \ {t} : pc'[u] = pc[u]
      /\ cbs' = cbs
  BY <1>1 DEF LeaveIdle, Goto, PollTypeOK, IInv, TypeOK
<1>7. StepInv'
  BY <1>2, <1>6 DEF StepInv
<1>8. PendingCovers'
  <2>1. {u \in Threads : step'[u] = "uncount"} = {u \in Threads : step[u] = "uncount"}
    BY <1>2, <1>6
  <2> QED
    BY <1>1, <2>1 DEF PendingCovers, LeaveIdle
<1>9. \A u \in Threads : pc[u] = "exec" => pc'[u] = "exec"
  BY <1>6
<1>10. ReactCore'
  BY <1>1, <1>5, <1>7, <1>8, <1>9, SameCore DEF LeaveIdle, IdleFrame, jobVars
<1> QED
  BY <1>3, <1>4, <1>10

\* A reported event that is gone is passed over
LEMMA PassOverStep ==
  ASSUME RInv, EarlyWake => OneThread, NEW t \in Threads, PassOver(t)
  PROVE  RInv'
<1> USE DEF RInv, ReactCore
<1>1. /\ UNCHANGED <<vars, m_timers, m_events, m_pendingEventCount, wakes, step, cbs>>
      /\ got' = [got EXCEPT ![t] = @ \cap m_events]
  BY DEF PassOver, PollFrame, IdleFrame, vars, callerVars, jobVars
<1>2. PollTypeOK'
  BY <1>1 DEF PollTypeOK
<1>3. StepInv' /\ PendingCovers'
  BY <1>1 DEF StepInv, PendingCovers, vars
<1>4. ReactCore'
  BY <1>1, <1>2, <1>3, SameCore DEF vars
<1> QED
  BY <1>1, <1>4, StillStep

\* The threads that have triggered an event and not counted it out
Owing == {t \in Threads : step[t] = "uncount"}

\* They are finitely many
LEMMA OwingFinite == IsFiniteSet(Owing)
  BY ThreadsFinite, FS_Subset DEF Owing

\* An event is counted out by the thread that triggered it
LEMMA UncountStep ==
  ASSUME RInv, EarlyWake => OneThread, NEW t \in Threads, pc[t] = "idling", Uncount(t)
  PROVE  RInv'
<1> USE DEF RInv, ReactCore
<1>1. /\ UNCHANGED <<vars, m_timers, m_events, wakes, cbs, got>>
      /\ m_pendingEventCount' = m_pendingEventCount - 1
      /\ step[t] = "uncount" /\ step' = [step EXCEPT ![t] = "dispatch"]
  BY DEF Uncount, CountDown, Goto, PollFrame, IdleFrame, vars, callerVars, jobVars
<1>2. PollTypeOK'
  BY <1>1 DEF PollTypeOK, Steps
<1>3. step'[t] = "dispatch" /\ \A u \in Threads \ {t} : step'[u] = step[u]
  BY <1>1 DEF PollTypeOK
<1>4. StepInv'
  BY <1>1, <1>3 DEF StepInv, vars
<1>5. PendingCovers'
  <2>1. Owing' = Owing \ {t} /\ t \in Owing
    BY <1>1, <1>3 DEF Owing
  <2>2. Cardinality(Owing \ {t}) = Cardinality(Owing) - 1
    BY <2>1, OwingFinite, CountLess
  <2>3. Cardinality(m_events) \in Nat /\ Cardinality(Owing) \in Nat
    BY OwingFinite, FS_CardinalityType DEF FiniteInv
  <2>4. m_pendingEventCount = Cardinality(m_events) + Cardinality(Owing)
    BY DEF PendingCovers, Owing
  <2>5. m_pendingEventCount' = Cardinality(m_events) + Cardinality(Owing \ {t})
    BY <1>1, <2>2, <2>3, <2>4
  <2> QED
    BY <1>1, <2>1, <2>5 DEF PendingCovers, Owing
<1>6. ReactCore'
  BY <1>1, <1>2, <1>4, <1>5, SameCore DEF vars
<1> QED
  BY <1>1, <1>6, StillStep

\* A turn collects what epoll_wait() and listExpiredCb() give it: the callbacks
\* pass from the timers to the thread
LEMMA PollStep ==
  ASSUME RInv, EarlyWake => OneThread, NEW t \in Threads, pc[t] = "idling", Poll(t)
  PROVE  RInv'
<1> USE DEF RInv, ReactCore
<1>1. PICK E \in SUBSET m_events, S \in SUBSET m_timers :
        /\ got' = [got EXCEPT ![t] = E] /\ cbs' = [cbs EXCEPT ![t] = S]
        /\ m_timers' = m_timers \ S
        /\ step' = [step EXCEPT ![t] = IF S = {} THEN "dispatch" ELSE "hand"]
  BY DEF Poll, Goto
<1>2. UNCHANGED <<vars, m_events, m_pendingEventCount, wakes>> /\ step[t] \in {"true", "false"}
  BY DEF Poll, PollFrame, IdleFrame, vars, callerVars, jobVars
<1>3. /\ step'[t] \in {"dispatch", "hand"} /\ (step'[t] # "hand" => S = {})
      /\ \A u \in Threads \ {t} : step'[u] = step[u]
      /\ cbs'[t] = S /\ \A u \in Threads \ {t} : cbs'[u] = cbs[u]
      /\ cbs[t] = {}
  BY <1>1, <1>2 DEF PollTypeOK, StepInv
<1>4. PollTypeOK'
  <2>1. E \in SUBSET Entry /\ S \in SUBSET Jobs
    BY DEF PollTypeOK
  <2> QED
    BY <1>1, <1>2, <2>1 DEF PollTypeOK, Steps
<1>5. FiniteInv'
  <2>1. IsFiniteSet(S) /\ IsFiniteSet(m_timers \ S)
    BY FS_Subset DEF FiniteInv
  <2> QED
    BY <1>1, <1>2, <1>3, <2>1 DEF FiniteInv
<1>6. /\ \A j : Placed(j)' <=> Placed(j)
      /\ \A w : Live(w)' <=> Live(w)
      /\ \A u \in Threads : Cur(u)' = Cur(u)
  BY <1>2 DEF vars, Placed, Live, Cur
<1>7. Aside' = Aside
  BY <1>2, <1>6 DEF Aside, vars
<1> HIDE DEF Placed, Aside, Live, Cur
<1>8. EventInv'
  BY <1>2, <1>7 DEF EventInv, vars
<1>9. OutsideInv'
  <2>1. m_timers' \subseteq Aside /\ S \subseteq Aside
    BY <1>1 DEF OutsideInv
  <2>2. \A u \in Threads : cbs'[u] \subseteq Aside /\ cbs'[u] \cap m_timers' = {}
    BY <1>1, <1>3, <2>1 DEF OutsideInv
  <2>3. \A u, v \in Threads : u # v => cbs'[u] \cap cbs'[v] = {}
    BY <1>3 DEF OutsideInv
  <2>4. \A e \in m_events : e.cb \notin m_timers' /\ \A u \in Threads : e.cb \notin cbs'[u]
    BY <1>1, <1>3 DEF OutsideInv
  <2> QED
    BY <1>2, <1>7, <2>1, <2>2, <2>3, <2>4 DEF OutsideInv
<1>10. WakerInv'
  BY <1>1, <1>2, <1>3, <1>6 DEF WakerInv, vars
<1>11. ExecInv' /\ AwaitInv'
  BY <1>2, <1>6 DEF ExecInv, AwaitInv, vars
<1>12. StepInv'
  BY <1>2, <1>3 DEF StepInv, vars
<1>13. PendingCovers'
  <2>1. {u \in Threads : step'[u] = "uncount"} = {u \in Threads : step[u] = "uncount"}
    BY <1>2, <1>3
  <2> QED
    BY <1>2, <2>1 DEF PendingCovers
<1>14. ReactCore'
  BY <1>4, <1>5, <1>8, <1>9, <1>10, <1>11, <1>12, <1>13
<1> QED
  BY <1>2, <1>14, StillStep

-----------------------------------------------------------------------------
\* An order of a finite set names each member once
LEMMA OrderFacts ==
  ASSUME NEW S, IsFiniteSet(S), NEW q \in SetToSeqs(S), NEW n, n = Cardinality(S)
  PROVE  /\ n \in Nat /\ q \in [1 .. n -> S]
         /\ \A i, k \in 1 .. n : i # k => q[i] # q[k]
         /\ \A x \in S : \E i \in 1 .. n : q[i] = x
<1>1. n \in Nat
  BY FS_CardinalityType
<1>2. q \in [1 .. n -> S] /\ \A i, k \in 1 .. n : i # k => q[i] # q[k]
  BY DEF SetToSeqs
<1>3. q \in Injection(1 .. n, S)
  BY <1>2 DEF Injection, IsInjective
<1>4. Cardinality(1 .. n) = n
  BY <1>1, FS_Interval
<1>5. q \in Surjection(1 .. n, S)
  BY <1>3, <1>4, FS_Injection
<1> QED
  BY <1>1, <1>2, <1>5 DEF Surjection

\* What schedule(begin, end) leaves: the old entries, and one for each member
\* of the collection behind them
Extended(r, s, m, S) ==
  /\ r \in Seq(Entry) /\ m \in Nat /\ Len(r) \in Nat /\ m <= Len(r)
  /\ \A i \in 1 .. m : i \in 1 .. Len(r) /\ r[i] = s[i]
  /\ \A i \in 1 .. Len(r) : i > m => r[i].fiber = NoFiber /\ r[i].cb \in S
  /\ \A i, k \in 1 .. Len(r) : i # k /\ i > m /\ k > m => r[i].cb # r[k].cb
  /\ \A x \in S : \E i \in 1 .. Len(r) : i > m /\ r[i].cb = x

LEMMA RangeFacts ==
  ASSUME NEW s \in Seq(Entry), NEW S \in SUBSET Jobs, IsFiniteSet(S), NEW q \in SetToSeqs(S),
         NEW r, r = s \o [i \in DOMAIN q |-> CbEntry(q[i], AnyThread)], NEW m, m = Len(s)
  PROVE  Extended(r, s, m, S)
<1> DEFINE p == [i \in DOMAIN q |-> CbEntry(q[i], AnyThread)]
<1>1. PICK n : n = Cardinality(S)
  OBVIOUS
<1>2. /\ n \in Nat /\ q \in [1 .. n -> S]
      /\ \A i, k \in 1 .. n : i # k => q[i] # q[k]
      /\ \A x \in S : \E i \in 1 .. n : q[i] = x
  BY <1>1, OrderFacts, SMTT(30)
<1>3. /\ p \in [1 .. n -> Entry]
      /\ \A i \in 1 .. n : p[i].fiber = NoFiber /\ p[i].cb = q[i]
  BY <1>2 DEF CbEntry, Entry
<1>4. p \in Seq(Entry) /\ Len(p) = n
  BY <1>2, <1>3
<1>5. r = s \o p
  OBVIOUS
<1> HIDE DEF p
<1>6. m \in Nat
  OBVIOUS
<1>7. /\ r \in Seq(Entry) /\ Len(r) = m + n
      /\ \A i \in 1 .. m + n : r[i] = IF i <= m THEN s[i] ELSE p[i - m]
  <2>1. /\ s \o p \in Seq(Entry) /\ Len(s \o p) = Len(s) + Len(p)
        /\ \A i \in 1 .. Len(s) + Len(p) : (s \o p)[i] =
             IF i <= Len(s) THEN s[i] ELSE p[i - Len(s)]
    BY <1>4, ConcatProperties
  <2>2. Len(s) = m /\ Len(p) = n
    BY <1>4
  <2> QED
    BY <1>5, <2>1, <2>2, Zenon
<1>8. /\ \A i \in 1 .. m : i \in 1 .. m + n /\ i <= m
      /\ \A i \in 1 .. m + n : i > m => i - m \in 1 .. n /\ ~(i <= m)
      /\ \A i \in 1 .. n : m + i \in 1 .. m + n /\ m + i > m /\ (m + i) - m = i
      /\ \A i, k \in 1 .. m + n : i # k => i - m # k - m
  BY <1>2, <1>6
<1>9. /\ \A i \in 1 .. m : i \in 1 .. Len(r) /\ r[i] = s[i]
      /\ \A i \in 1 .. Len(r) : i > m => r[i] = p[i - m] /\ i - m \in 1 .. n
  BY <1>7, <1>8
<1>10. \A i \in 1 .. Len(r) : i > m => r[i].fiber = NoFiber /\ r[i].cb \in S
  BY <1>2, <1>3, <1>9
<1>11. \A i, k \in 1 .. Len(r) : i # k /\ i > m /\ k > m => r[i].cb # r[k].cb
  <2> TAKE i, k \in 1 .. Len(r)
  <2> HAVE i # k /\ i > m /\ k > m
  <2>1. /\ r[i].cb = q[i - m] /\ r[k].cb = q[k - m]
        /\ i - m \in 1 .. n /\ k - m \in 1 .. n
    BY <1>3, <1>9
  <2>2. i - m # k - m
    BY <1>6
  <2> QED
    BY <1>2, <2>1, <2>2
<1>12. \A x \in S : \E i \in 1 .. Len(r) : i > m /\ r[i].cb = x
  <2> TAKE x \in S
  <2>1. PICK i \in 1 .. n : q[i] = x
    BY <1>2
  <2>2. m + i \in 1 .. Len(r) /\ m + i > m /\ r[m + i] = p[i]
    <3>1. m + i \in 1 .. m + n /\ m + i > m /\ (m + i) - m = i
      BY <1>8
    <3>2. m + i \in 1 .. Len(r)
      BY <1>7, <3>1
    <3>3. r[m + i] = p[(m + i) - m]
      BY <1>9, <3>1, <3>2
    <3> QED
      BY <3>1, <3>2, <3>3
  <2> QED
    BY <1>3, <2>1, <2>2
<1>13. Len(r) \in Nat /\ m <= Len(r)
  BY <1>2, <1>6, <1>7
<1> QED
  BY <1>6, <1>7, <1>9, <1>10, <1>11, <1>12, <1>13 DEF Extended

\* The collected callbacks pass from the thread to the list
LEMMA HandStep ==
  ASSUME RInv, NEW t \in Threads, pc[t] = "idling", Hand(t)
  PROVE  RInv'
<1> USE ConstAssumption, ReactorAssumption DEF RInv, ReactCore
<1>1. PICK q \in SetToSeqs(cbs[t]) :
        m_fibers' = m_fibers \o [i \in DOMAIN q |-> CbEntry(q[i], AnyThread)]
  BY DEF Hand
<1>2. /\ cbs' = [cbs EXCEPT ![t] = {}] /\ step' = [step EXCEPT ![t] = "dispatch"]
      /\ step[t] = "hand" /\ ScheduleFrame
      /\ UNCHANGED <<armed, m_state, m_cb, s_fiber_id, submitted, m_timers, m_events,
                     m_pendingEventCount, wakes, got>>
  BY DEF Hand, Goto, PollFrame, IdleFrame, ScheduleFrame, jobVars
<1>3. PICK m : m = Len(m_fibers)
  OBVIOUS
<1>4. cbs[t] \in SUBSET Jobs /\ IsFiniteSet(cbs[t]) /\ m_fibers \in Seq(Entry)
      /\ cbs[t] \subseteq Aside /\ submitted \in SUBSET Jobs
  BY DEF PollTypeOK, FiniteInv, IInv, TypeOK, OutsideInv
<1> DEFINE S == cbs[t]
<1>0. Extended(m_fibers', m_fibers, m, cbs[t])
  BY <1>1, <1>3, <1>4, RangeFacts, Zenon
<1>5. /\ m_fibers' \in Seq(Entry) /\ m \in Nat /\ Len(m_fibers') \in Nat /\ m <= Len(m_fibers')
      /\ \A i \in 1 .. m : i \in 1 .. Len(m_fibers') /\ m_fibers'[i] = m_fibers[i]
      /\ \A i \in 1 .. Len(m_fibers') : i > m => m_fibers'[i].fiber = NoFiber /\ m_fibers'[i].cb \in S
      /\ \A i, k \in 1 .. Len(m_fibers') : i # k /\ i > m /\ k > m => m_fibers'[i].cb # m_fibers'[k].cb
      /\ \A x \in S : \E i \in 1 .. Len(m_fibers') : i > m /\ m_fibers'[i].cb = x
  BY <1>0 DEF Extended
<1>6. /\ S \subseteq Unplaced /\ S \subseteq Jobs /\ S \subseteq submitted \ done
      /\ \A j \in S : ~Placed(j)
  BY <1>4 DEF Aside, Unplaced, Placed
<1> HIDE DEF S
<1>7. IInv'
  <2>1. submitted' \in SUBSET Jobs /\ UNCHANGED fiberVars /\ Len(m_fibers') >= m
    BY <1>2, <1>4, <1>5 DEF fiberVars
  <2>2. \A i \in 1 .. Len(m_fibers') : i > m => m_fibers'[i].fiber = NoFiber /\ m_fibers'[i].cb \in Jobs
    BY <1>5, <1>6
  <2> QED
    BY <1>2, <1>3, <1>5, <2>1, <2>2, CallbacksQueued
<1>8. JobCore'
  <2>1. UNCHANGED fiberVars
    BY <1>2 DEF fiberVars
  <2>2. \A i \in 1 .. Len(m_fibers') : i > m => m_fibers'[i].fiber = NoFiber /\ m_fibers'[i].cb \in Unplaced
    BY <1>5, <1>6
  <2>3. \A i \in m + 1 .. Len(m_fibers') : i \in 1 .. Len(m_fibers') /\ i > m
    BY <1>5
  <2>4. submitted' = submitted \cup {m_fibers'[i].cb : i \in m + 1 .. Len(m_fibers')}
    BY <1>2, <1>5, <1>6, <2>3
  <2> QED
    BY <1>2, <1>3, <1>5, <2>1, <2>2, <2>4, CallbacksQueuedJob, LateIsEarly
<1>9. /\ step'[t] = "dispatch" /\ \A u \in Threads \ {t} : step'[u] = step[u]
      /\ cbs'[t] = {} /\ \A u \in Threads \ {t} : cbs'[u] = cbs[u]
  BY <1>2 DEF PollTypeOK
<1>10. PollTypeOK' /\ FiniteInv'
  <2>1. PollTypeOK'
    BY <1>2 DEF PollTypeOK, Steps
  <2>2. FiniteInv'
    BY <1>2, <1>9, FS_EmptySet DEF FiniteInv
  <2> QED
    BY <2>1, <2>2
<1>11. /\ \A j \in S : Placed(j)'
       /\ \A j : Placed(j)' => Placed(j) \/ j \in S
       /\ \A j : Placed(j) => Placed(j)'
       /\ \A w : Live(w)' <=> Live(w)
       /\ \A u \in Threads : Cur(u)' = Cur(u) /\ pc'[u] = pc[u]
  <2>1. /\ ft' = ft /\ m_cb' = m_cb /\ done' = done /\ wakes' = wakes
        /\ cbFiber' = cbFiber /\ pc' = pc
    BY <1>2 DEF ScheduleFrame
  <2>2. \A i \in 1 .. Len(m_fibers') : i \in 1 .. m \/ i > m
    BY <1>5
  <2>3. \A j : (\E i \in 1 .. Len(m_fibers') : m_fibers'[i].cb = j)
                 => (\E i \in 1 .. m : m_fibers[i].cb = j) \/ j \in S
    BY <1>5, <2>2
  <2>4. \A j : (\E i \in 1 .. m : m_fibers[i].cb = j) \/ j \in S
                 => (\E i \in 1 .. Len(m_fibers') : m_fibers'[i].cb = j)
    BY <1>5
  <2>5. /\ \A j : Placed(j)' => Placed(j) \/ j \in S
        /\ \A j : Placed(j) \/ j \in S => Placed(j)'
    BY <1>3, <2>1, <2>3, <2>4 DEF Placed
  <2> QED
    BY <2>1, <2>5 DEF Live, Cur
<1>12. Aside' = Aside \ S
  BY <1>2, <1>6, <1>11 DEF Aside, ScheduleFrame
<1>13. S = cbs[t]
  BY DEF S
<1> HIDE DEF Placed, Aside, Live, Cur
<1>14. EventInv'
  BY <1>2, <1>12, <1>13 DEF EventInv, OutsideInv
<1>15. OutsideInv'
  <2>1. m_timers \subseteq Aside'
    BY <1>12, <1>13 DEF OutsideInv
  <2>2. \A u \in Threads : cbs'[u] \subseteq Aside' /\ cbs'[u] \cap m_timers = {}
    BY <1>9, <1>12, <1>13 DEF OutsideInv
  <2>3. \A u, v \in Threads : u # v => cbs'[u] \cap cbs'[v] = {}
    BY <1>9 DEF OutsideInv
  <2>4. \A e \in m_events : e.cb \notin m_timers /\ \A u \in Threads : e.cb \notin cbs'[u]
    BY <1>9 DEF OutsideInv
  <2> QED
    BY <1>2, <2>1, <2>2, <2>3, <2>4 DEF OutsideInv
<1>16. WakerInv'
  BY <1>2, <1>9, <1>11, <1>13 DEF WakerInv, ScheduleFrame
<1>17. ExecInv' /\ AwaitInv'
  BY <1>2, <1>11 DEF ExecInv, AwaitInv
<1>18. StepInv'
  BY <1>2, <1>9, <1>11 DEF StepInv
<1>19. PendingCovers'
  <2>1. {u \in Threads : step'[u] = "uncount"} = {u \in Threads : step[u] = "uncount"}
    BY <1>2, <1>9
  <2> QED
    BY <1>2, <2>1 DEF PendingCovers
<1> QED
  BY <1>7, <1>8, <1>10, <1>14, <1>15, <1>16, <1>17, <1>18, <1>19

-----------------------------------------------------------------------------
\* An entry behind the list: what the scheduler knows grows by its callback
LEMMA AppendPlaces ==
  ASSUME IInv, NEW e \in Entry, m_fibers' = Append(m_fibers, e), ft' = ft, m_cb' = m_cb
  PROVE  /\ \A j : Placed(j) \/ j = e.cb => Placed(j)'
         /\ \A j : Placed(j)' => Placed(j) \/ j = e.cb
<1>1. /\ Len(m_fibers) + 1 \in 1 .. Len(m_fibers') /\ m_fibers'[Len(m_fibers) + 1] = e
      /\ \A i \in 1 .. Len(m_fibers) : i \in 1 .. Len(m_fibers') /\ m_fibers'[i] = m_fibers[i]
      /\ \A i \in 1 .. Len(m_fibers') : i \in 1 .. Len(m_fibers) \/ m_fibers'[i] = e
  BY AppendFacts DEF IInv, TypeOK
<1> QED
  BY <1>1 DEF Placed

\* triggerEvent() schedules what a registered event is for, and the event is
\* registered no more
LEMMA DispatchStep ==
  ASSUME RInv, EarlyWake => OneThread, NEW t \in Threads, fault = "none", pc[t] = "idling", Dispatch(t)
  PROVE  RInv'
<1> USE ConstAssumption, ReactorAssumption DEF RInv, ReactCore
<1>1. PICK e \in got[t] \cap m_events :
        /\ e.fiber # NoFiber => EarlyWake \/ Parked(e.fiber)
        /\ m_fibers' = Append(m_fibers, e) /\ m_events' = m_events \ {e}
        /\ armed' = armed \ {e.fiber} /\ got' = [got EXCEPT ![t] = @ \ {e}]
  BY DEF Dispatch, Enqueue, Forget
<1>2. /\ step[t] = "dispatch" /\ step' = [step EXCEPT ![t] = "uncount"] /\ ScheduleFrame
      /\ UNCHANGED <<m_state, m_cb, s_fiber_id, submitted, m_timers, m_pendingEventCount,
                     wakes, cbs>>
  BY DEF Dispatch, Goto, PollFrame, IdleFrame, ScheduleFrame, jobVars
<1>3. /\ e \in m_events /\ e \in Entry /\ armed \subseteq Fibers /\ submitted \in SUBSET Jobs
      /\ m_fibers \in Seq(Entry)
  BY DEF PollTypeOK, IInv, TypeOK
<1>4. /\ step'[t] = "uncount" /\ \A u \in Threads \ {t} : step'[u] = step[u]
  BY <1>2 DEF PollTypeOK
<1>5. e.fiber # NoFiber =>
        /\ e = FiberEntry(e.fiber, AnyThread) /\ e.fiber \in armed /\ e.fiber \in Fibers
        /\ e.cb = NoJob
  BY <1>3 DEF EventInv, FiberEntry
<1>6. e.fiber = NoFiber =>
        e = CbEntry(e.cb, AnyThread) /\ e.cb \in Aside \ Wakers /\ armed' = armed
  <2>1. NoFiber \notin armed
    BY <1>3 DEF NoFiber, Fibers
  <2> QED
    BY <1>1, <1>3, <2>1 DEF EventInv
<1>7. IInv' /\ JobCore'
  <2>1. CASE e.fiber # NoFiber
    <3>1. Wake(e.fiber)
      BY <1>1, <1>2, <1>5, <2>1 DEF Wake, Enqueue, ScheduleFrame, jobVars
    <3>2. Parked(e.fiber)
      BY <1>1, <1>5, <2>1, ParkedAlone
    <3> QED
      BY <1>5, <2>1, <3>1, <3>2, WakeStep, WakeJob, LateIsEarly
  <2>2. CASE e.fiber = NoFiber
    <3>1. /\ e.cb \in Unplaced /\ e.cb \in Jobs /\ e.cb \in submitted /\ UNCHANGED fiberVars
      BY <1>2, <1>3, <1>6, <2>2 DEF Aside, Placed, Unplaced, fiberVars
    <3>2. PICK m : m = Len(m_fibers)
      OBVIOUS
    <3>3. /\ m_fibers' \in Seq(Entry) /\ m \in Nat /\ Len(m_fibers') = m + 1
          /\ \A i \in 1 .. m : m_fibers'[i] = m_fibers[i]
          /\ m_fibers'[m + 1] = e
      BY <1>1, <1>3, <3>2, AppendFacts
    <3>4. /\ \A i \in 1 .. Len(m_fibers') : i > m => i = m + 1
          /\ m <= Len(m_fibers') /\ Len(m_fibers') >= m /\ m + 1 .. Len(m_fibers') = {m + 1}
      BY <3>3
    <3>5. /\ \A i \in 1 .. Len(m_fibers') : i > m => m_fibers'[i].fiber = NoFiber /\ m_fibers'[i].cb \in Unplaced
          /\ \A i, k \in 1 .. Len(m_fibers') :
               i # k /\ i > m /\ k > m => m_fibers'[i].cb # m_fibers'[k].cb
          /\ \A i \in 1 .. Len(m_fibers') : i > m => m_fibers'[i].fiber = NoFiber /\ m_fibers'[i].cb \in Jobs
      BY <2>2, <3>1, <3>3, <3>4
    <3>6. submitted' = submitted \cup {m_fibers'[i].cb : i \in m + 1 .. Len(m_fibers')}
      BY <1>2, <3>1, <3>3, <3>4
    <3>7. IInv'
      BY <1>2, <1>3, <3>1, <3>2, <3>3, <3>4, <3>5, CallbacksQueued
    <3>8. JobCore'
      BY <1>2, <3>1, <3>2, <3>3, <3>4, <3>5, <3>6, CallbacksQueuedJob, LateIsEarly
    <3> QED
      BY <3>7, <3>8
  <2> QED
    BY <2>1, <2>2
<1>8. PollTypeOK' /\ FiniteInv'
  <2>1. PollTypeOK'
    BY <1>1, <1>2 DEF PollTypeOK, Steps
  <2>2. IsFiniteSet(m_events \ {e})
    BY FS_Subset DEF FiniteInv
  <2> QED
    BY <1>1, <1>2, <2>1, <2>2 DEF FiniteInv
<1>9. /\ \A j : Placed(j) \/ j = e.cb => Placed(j)'
      /\ \A j : Placed(j)' => Placed(j) \/ j = e.cb
  BY <1>1, <1>2, <1>3, AppendPlaces DEF ScheduleFrame
<1>10. /\ \A w : Live(w)' <=> Live(w)
       /\ \A u \in Threads : Cur(u)' = Cur(u) /\ pc'[u] = pc[u]
  BY <1>2 DEF Live, Cur, ScheduleFrame
<1>11. Aside \ {e.cb} \subseteq Aside' /\ NoJob \notin Aside /\ e.cb \notin Wakers
  BY <1>2, <1>3, <1>5, <1>6, <1>9 DEF Aside, ScheduleFrame
<1> HIDE DEF Placed, Aside, Live, Cur
<1>12. EventInv'
  <2> SUFFICES ASSUME NEW d \in m_events, d # e
               PROVE  /\ d.fiber # NoFiber =>
                           d = FiberEntry(d.fiber, AnyThread) /\ d.fiber \in armed'
                      /\ d.fiber = NoFiber =>
                           d = CbEntry(d.cb, AnyThread) /\ d.cb \in Aside' \ Wakers
    BY <1>1 DEF EventInv
  <2>1. CASE d.fiber # NoFiber
    <3>1. d = FiberEntry(d.fiber, AnyThread) /\ d.fiber \in armed
      BY <2>1 DEF EventInv
    <3>2. d.fiber # e.fiber
      BY <1>5, <2>1, <3>1
    <3> QED
      BY <1>1, <2>1, <3>1, <3>2
  <2>2. CASE d.fiber = NoFiber
    <3>1. d = CbEntry(d.cb, AnyThread) /\ d.cb \in Aside \ Wakers
      BY <2>2 DEF EventInv
    <3>2. d.cb # e.cb
      BY <1>5, <1>6, <1>11, <3>1
    <3> QED
      BY <1>11, <2>2, <3>1, <3>2
  <2> QED
    BY <2>1, <2>2
<1>13. OutsideInv'
  <2>1. e.cb \notin m_timers /\ \A u \in Threads : e.cb \notin cbs[u]
    BY <1>3 DEF OutsideInv
  <2>2. m_timers \subseteq Aside' /\ \A u \in Threads : cbs[u] \subseteq Aside'
    BY <1>11, <2>1 DEF OutsideInv
  <2> QED
    BY <1>1, <1>2, <2>2 DEF OutsideInv
<1>14. WakerInv'
  BY <1>2, <1>9, <1>10, <1>11 DEF WakerInv, ScheduleFrame
<1>15. ExecInv'
  BY <1>2, <1>10 DEF ExecInv
<1>16. AwaitInv'
  <2>1. CASE e.fiber # NoFiber
    <3>1. \A w \in Wakers : Live(w) => wakes[w] # e.fiber
      BY <1>3, <1>5, <2>1 DEF AwaitInv
    <3>2. \A f \in armed \ {e.fiber} : FiberEntry(f, AnyThread) # e
      BY <1>5, <2>1 DEF FiberEntry
    <3> QED
      BY <1>1, <1>2, <1>10, <3>1, <3>2 DEF AwaitInv
  <2>2. CASE e.fiber = NoFiber
    <3>1. \A f \in armed : FiberEntry(f, AnyThread) # e
      BY <1>3, <2>2 DEF FiberEntry, Fibers, NoFiber
    <3> QED
      BY <1>1, <1>2, <1>6, <1>10, <2>2, <3>1 DEF AwaitInv
  <2> QED
    BY <2>1, <2>2
<1>17. StepInv'
  BY <1>2, <1>4, <1>10 DEF StepInv
<1>18. PendingCovers'
  <2>1. Owing' = Owing \cup {t} /\ t \notin Owing
    BY <1>2, <1>4 DEF Owing
  <2>2. Cardinality(Owing \cup {t}) = Cardinality(Owing) + 1
    BY <2>1, OwingFinite, CountUp
  <2>3. Cardinality(m_events \ {e}) = Cardinality(m_events) - 1
    BY <1>3, CountLess DEF FiniteInv
  <2>4. Cardinality(m_events) \in Nat /\ Cardinality(Owing) \in Nat
    BY OwingFinite, FS_CardinalityType DEF FiniteInv
  <2>5. m_pendingEventCount = Cardinality(m_events) + Cardinality(Owing)
    BY DEF PendingCovers, Owing
  <2>6. m_pendingEventCount = Cardinality(m_events \ {e}) + Cardinality(Owing \cup {t})
    BY <2>2, <2>3, <2>4, <2>5
  <2> QED
    BY <1>1, <1>2, <2>1, <2>6 DEF PendingCovers, Owing
<1> QED
  BY <1>7, <1>8, <1>12, <1>13, <1>14, <1>15, <1>16, <1>17, <1>18

-----------------------------------------------------------------------------
\* A job is handed out to a timer or an event: for the scheduler nothing changes
LEMMA SubmitStep ==
  ASSUME RInv, NEW j \in Fresh, submitted' = submitted \cup {j}, BodyFrame,
         UNCHANGED <<m_fibers, pc, yields, done, fiberVars>>
  PROVE  /\ IInv' /\ JobCore' /\ ExecInv'
         /\ \A k : Placed(k)' <=> Placed(k)
         /\ \A w : UNCHANGED wakes => (Live(w)' <=> Live(w))
         /\ Aside' = Aside \cup {j} /\ j \notin Aside
         /\ j \in Jobs /\ j \notin Wakers /\ ~Placed(j)
<1> USE ConstAssumption DEF RInv, ReactCore, BodyFrame, fiberVars, callerVars
<1>1. j \in Jobs /\ j \notin submitted /\ j \notin done /\ j \notin Wakers
  BY DEF Fresh, IInv, JobCore, Pending, WakerInv
<1>2. IInv'
  <2> USE DEF IInv
  <2>1. TypeOK' /\ CountsExact' /\ NoAbort' /\ MainInv'
    BY <1>1 DEF TypeOK, CountsExact, ActiveThreads, IdleThreads, NoAbort, MainInv
  <2>2. ListInv' /\ ListDistinct' /\ ListApart' /\ ThreadsApart' /\ ArmedInv'
    BY DEF ListInv, ListDistinct, ListApart, ThreadsApart, ArmedInv, Held, Parked
  <2>3. LocalsInv' /\ SpareInv'
    BY DEF LocalsInv, SpareInv, SwappedIn, AtWork, Cur
  <2> QED
    BY <2>1, <2>2, <2>3
<1>3. JobCore'
  <2> USE DEF JobCore
  <2>1. EntryShape' /\ SpareEmpty' /\ EntriesOnce' /\ LocalsOnce' /\ HoldArmed'
    BY DEF EntryShape, SpareEmpty, EntriesOnce, LocalsOnce, HoldArmed, Asked, SwappedIn, AtWork, Cur
  <2>2. Pending' /\ FiberPlaced'
    BY DEF Pending, FiberPlaced, AtWork, Cur, Parked
  <2> QED
    BY <2>1, <2>2
<1>4. /\ \A k : Placed(k)' <=> Placed(k)
      /\ \A w : UNCHANGED wakes => (Live(w)' <=> Live(w))
      /\ ExecInv'
  BY DEF Placed, Live, ExecInv, Cur
<1>5. ~Placed(j)
  BY <1>1 DEF Placed, JobCore, Pending
<1> QED
  BY <1>1, <1>2, <1>3, <1>4, <1>5 DEF Aside

\* addTimer(): the callback waits in the timer set
LEMMA NewTimerStep ==
  ASSUME RInv, NEW j \in Fresh, NewTimer(j)
  PROVE  RInv'
<1> USE ConstAssumption DEF RInv, ReactCore
<1>1. /\ m_timers' = m_timers \cup {j}
      /\ UNCHANGED <<m_events, m_pendingEventCount, wakes, step, cbs, got, pc, armed, done>>
      /\ submitted' = submitted \cup {j} /\ m_cb' = m_cb
  BY DEF NewTimer, fiberVars
<1>2. /\ IInv' /\ JobCore' /\ ExecInv'
      /\ \A k : Placed(k)' <=> Placed(k)
      /\ \A w : Live(w)' <=> Live(w)
      /\ Aside' = Aside \cup {j} /\ j \notin Aside
      /\ j \in Jobs /\ j \notin Wakers /\ ~Placed(j)
  BY <1>1, SubmitStep DEF NewTimer
<1> HIDE DEF Placed, Aside, Live
<1>3. PollTypeOK' /\ FiniteInv' /\ StepInv' /\ PendingCovers'
  <2>1. IsFiniteSet(m_timers \cup {j})
    BY FS_AddElement DEF FiniteInv
  <2> QED
    BY <1>1, <1>2, <2>1 DEF PollTypeOK, FiniteInv, StepInv, PendingCovers
<1>4. EventInv'
  BY <1>1, <1>2 DEF EventInv
<1>5. OutsideInv'
  <2>1. m_timers' \subseteq Aside'
    BY <1>1, <1>2 DEF OutsideInv
  <2>2. \A t \in Threads : cbs[t] \subseteq Aside' /\ cbs[t] \cap m_timers' = {}
    BY <1>1, <1>2 DEF OutsideInv
  <2>3. \A e \in m_events : e.cb # j
    <3> TAKE e \in m_events
    <3>1. CASE e.fiber = NoFiber
      BY <1>2, <3>1 DEF EventInv
    <3>2. CASE e.fiber # NoFiber
      BY <1>2, <3>2 DEF EventInv, FiberEntry
    <3> QED
      BY <3>1, <3>2
  <2> QED
    BY <1>1, <2>1, <2>2, <2>3 DEF OutsideInv
<1>6. WakerInv' /\ AwaitInv'
  BY <1>1, <1>2 DEF WakerInv, AwaitInv
<1> QED
  BY <1>2, <1>3, <1>4, <1>5, <1>6

\* addEvent() with a callback
LEMMA AddEventStep ==
  ASSUME RInv, NEW t \in Threads, AddEvent(t)
  PROVE  RInv'
<1> USE ConstAssumption DEF RInv, ReactCore
<1>1. PICK j \in Fresh : Register(CbEntry(j, AnyThread)) /\ submitted' = submitted \cup {j}
  BY DEF AddEvent
<1> DEFINE e == CbEntry(j, AnyThread)
<1>2. e.fiber = NoFiber /\ e.cb = j /\ e = CbEntry(e.cb, AnyThread)
  BY DEF CbEntry
<1>3. /\ m_events' = m_events \cup {e} /\ m_pendingEventCount' = m_pendingEventCount + 1
      /\ UNCHANGED <<m_timers, wakes, step, cbs, got, pc, armed, done, m_cb>>
  BY <1>1 DEF AddEvent, Register, fiberVars
<1>4. /\ IInv' /\ JobCore' /\ ExecInv'
      /\ \A k : Placed(k)' <=> Placed(k)
      /\ \A w : Live(w)' <=> Live(w)
      /\ Aside' = Aside \cup {j} /\ j \notin Aside
      /\ j \in Jobs /\ j \notin Wakers /\ ~Placed(j)
  BY <1>1, <1>3, SubmitStep DEF AddEvent
<1>5. e \in Entry /\ \A f \in armed : FiberEntry(f, AnyThread) # e
  BY <1>4 DEF CbEntry, FiberEntry, Entry, IInv, TypeOK, Fibers, NoFiber
<1>6. e \notin m_events
  BY <1>2, <1>4 DEF EventInv
<1> HIDE DEF Placed, Aside, Live, e
<1>7. PollTypeOK' /\ FiniteInv' /\ StepInv'
  <2>1. IsFiniteSet(m_events \cup {e})
    BY FS_AddElement DEF FiniteInv
  <2> QED
    BY <1>3, <1>5, <2>1 DEF PollTypeOK, FiniteInv, StepInv
<1>8. PendingCovers'
  <2>1. Cardinality(m_events \cup {e}) = Cardinality(m_events) + 1
    BY <1>6, CountUp DEF FiniteInv
  <2>2. Cardinality(m_events) \in Nat /\ Cardinality(Owing) \in Nat
    BY OwingFinite, FS_CardinalityType DEF FiniteInv
  <2>3. m_pendingEventCount = Cardinality(m_events) + Cardinality(Owing) /\ Owing' = Owing
    BY <1>3 DEF PendingCovers, Owing
  <2>4. m_pendingEventCount' = Cardinality(m_events \cup {e}) + Cardinality(Owing)
    BY <1>3, <2>1, <2>2, <2>3
  <2> QED
    BY <1>3, <2>3, <2>4 DEF PendingCovers, Owing
<1>9. EventInv'
  BY <1>2, <1>3, <1>4 DEF EventInv
<1>10. OutsideInv'
  BY <1>2, <1>3, <1>4 DEF OutsideInv
<1>11. WakerInv'
  BY <1>1, <1>3, <1>4 DEF WakerInv
<1>12. AwaitInv'
  <2>1. \A w \in Wakers : Live(w) => FiberEntry(wakes[w], AnyThread) # e
    BY <1>5 DEF AwaitInv
  <2> QED
    BY <1>3, <1>4, <2>1 DEF AwaitInv
<1> QED
  BY <1>4, <1>7, <1>8, <1>9, <1>10, <1>11, <1>12

-----------------------------------------------------------------------------
\* A job asks to be resumed: the scheduler's part of addEvent() and sleep()
LEMMA ArmCore ==
  ASSUME RInv, NEW t \in Threads, fault = "none", UserCode(t), Arm(t), step' = step, cbs' = cbs
  PROVE  /\ IInv' /\ JobCore' /\ ExecInv' /\ StepInv'
         /\ Cur(t) \in Fibers /\ Cur(t) \notin armed /\ armed' = armed \cup {Cur(t)}
         /\ \A j : Placed(j)' <=> Placed(j)
         /\ Aside' = Aside
         /\ FiberEntry(Cur(t), AnyThread) \notin m_events
         /\ \A w \in Wakers : Live(w) => wakes[w] # Cur(t)
<1> USE DEF RInv, ReactCore
<1>1. IInv' /\ JobCore'
  BY ArmStep, ArmJob
<1>2. /\ pc[t] = "exec" /\ pc' = [pc EXCEPT ![t] = "hold"] /\ armed' = armed \cup {Cur(t)}
      /\ UNCHANGED <<m_fibers, m_cb, submitted, done, ft, cbFiber>>
  BY DEF Arm, BodyFrame
<1>3. Cur(t) \in Fibers /\ Cur(t) \notin armed
  BY <1>2 DEF IInv, LocalsInv, SwappedIn, AtWork, Cur, TypeOK, Entry
<1>4. pc'[t] = "hold" /\ \A u \in Threads \ {t} : pc'[u] = pc[u]
  BY <1>2 DEF IInv, TypeOK
<1>5. \A j : Placed(j)' <=> Placed(j)
  BY <1>2 DEF Placed
<1>6. Aside' = Aside
  BY <1>2, <1>5 DEF Aside
<1>7. \A u \in Threads : Cur(u)' = Cur(u)
  BY <1>2 DEF Cur
<1>8. ExecInv'
  <2> SUFFICES ASSUME NEW f \in Fibers, m_cb[f] \in Wakers
               PROVE  \E u \in Threads : pc'[u] = "exec" /\ Cur(u) = f
    BY <1>2, <1>7 DEF ExecInv
  <2>1. PICK u \in Threads : pc[u] = "exec" /\ Cur(u) = f
    BY DEF ExecInv
  <2>2. u # t
    BY <2>1 DEF UserCode
  <2> QED
    BY <1>4, <2>1, <2>2
<1>9. StepInv'
  BY <1>2, <1>4 DEF StepInv
<1>10. FiberEntry(Cur(t), AnyThread) \notin m_events
  <2>1. /\ FiberEntry(Cur(t), AnyThread).fiber = Cur(t) /\ Cur(t) # NoFiber
    BY <1>3 DEF FiberEntry, Fibers, NoFiber
  <2> QED
    BY <1>3, <2>1 DEF EventInv
<1>11. \A w \in Wakers : Live(w) => wakes[w] # Cur(t)
  BY <1>3 DEF AwaitInv
<1> QED
  BY <1>1, <1>2, <1>3, <1>5, <1>6, <1>8, <1>9, <1>10, <1>11

\* addEvent() without a callback: the event will resume the calling fiber
LEMMA AwaitEventStep ==
  ASSUME RInv, NEW t \in Threads, fault = "none", AwaitEvent(t)
  PROVE  RInv'
<1> USE ConstAssumption DEF RInv, ReactCore
<1>1. PICK c : c = Cur(t)
  OBVIOUS
<1>2. PICK e : e = FiberEntry(c, AnyThread)
  OBVIOUS
<1>3. /\ m_events' = m_events \cup {e} /\ m_pendingEventCount' = m_pendingEventCount + 1
      /\ UNCHANGED <<m_timers, wakes, step, cbs, got>> /\ done' = done /\ submitted' = submitted
  BY <1>1, <1>2 DEF AwaitEvent, Register, Arm
<1>4. /\ IInv' /\ JobCore' /\ ExecInv' /\ StepInv'
      /\ c \in Fibers /\ c \notin armed /\ armed' = armed \cup {c}
      /\ \A j : Placed(j)' <=> Placed(j)
      /\ Aside' = Aside
      /\ e \notin m_events
      /\ \A w \in Wakers : Live(w) => wakes[w] # c
  BY <1>1, <1>2, <1>3, ArmCore DEF AwaitEvent
<1>5. /\ e \in Entry /\ e.fiber = c /\ c # NoFiber /\ e.cb = NoJob
      /\ e = FiberEntry(e.fiber, AnyThread)
      /\ \A f : FiberEntry(f, AnyThread) = e <=> f = c
  BY <1>2, <1>4 DEF FiberEntry, Entry, Fibers, NoFiber
<1>6. \A w : Live(w)' <=> Live(w)
  BY <1>3 DEF Live
<1> HIDE DEF Placed, Aside, Live
<1>7. PollTypeOK' /\ FiniteInv'
  <2>1. IsFiniteSet(m_events \cup {e})
    BY FS_AddElement DEF FiniteInv
  <2> QED
    BY <1>3, <1>5, <2>1 DEF PollTypeOK, FiniteInv
<1>8. PendingCovers'
  <2>1. Cardinality(m_events \cup {e}) = Cardinality(m_events) + 1
    BY <1>4, CountUp DEF FiniteInv
  <2>2. Cardinality(m_events) \in Nat /\ Cardinality(Owing) \in Nat
    BY OwingFinite, FS_CardinalityType DEF FiniteInv
  <2>3. m_pendingEventCount = Cardinality(m_events) + Cardinality(Owing) /\ Owing' = Owing
    BY <1>3 DEF PendingCovers, Owing
  <2>4. m_pendingEventCount' = Cardinality(m_events \cup {e}) + Cardinality(Owing)
    BY <1>3, <2>1, <2>2, <2>3
  <2> QED
    BY <1>3, <2>3, <2>4 DEF PendingCovers, Owing
<1>9. EventInv'
  BY <1>3, <1>4, <1>5 DEF EventInv
<1>10. OutsideInv'
  <2>1. NoJob \notin m_timers /\ \A u \in Threads : NoJob \notin cbs[u]
    BY DEF PollTypeOK
  <2> QED
    BY <1>3, <1>4, <1>5, <2>1 DEF OutsideInv
<1>11. WakerInv'
  BY <1>3, <1>4, <1>6 DEF WakerInv
<1>12. AwaitInv'
  BY <1>3, <1>4, <1>5, <1>6 DEF AwaitInv
<1> QED
  BY <1>4, <1>7, <1>8, <1>9, <1>10, <1>11, <1>12

\* sleep(): a callback not used before waits in the timer set, to resume the fiber
LEMMA SleepStep ==
  ASSUME RInv, NEW t \in Threads, fault = "none", Sleep(t)
  PROVE  RInv'
<1> USE ConstAssumption, ReactorAssumption DEF RInv, ReactCore
<1>1. PICK c : c = Cur(t)
  OBVIOUS
<1>2. PICK w \in Wakers : /\ wakes[w] = NoFiber /\ wakes' = [wakes EXCEPT ![w] = c]
                          /\ m_timers' = m_timers \cup {w}
  BY <1>1 DEF Sleep
<1>3. /\ UNCHANGED <<m_events, m_pendingEventCount, step, cbs, got>>
      /\ done' = done /\ submitted' = submitted
  BY DEF Sleep, Arm
<1>4. /\ IInv' /\ JobCore' /\ ExecInv' /\ StepInv'
      /\ c \in Fibers /\ c \notin armed /\ armed' = armed \cup {c}
      /\ \A j : Placed(j)' <=> Placed(j)
      /\ Aside' = Aside
      /\ FiberEntry(c, AnyThread) \notin m_events
      /\ \A v \in Wakers : Live(v) => wakes[v] # c
  BY <1>1, <1>3, ArmCore DEF Sleep
<1>5. /\ wakes'[w] = c /\ \A v \in Wakers \ {w} : wakes'[v] = wakes[v]
      /\ c # NoFiber /\ w \in Jobs
  BY <1>2, <1>4 DEF PollTypeOK, Fibers, NoFiber
<1>6. /\ w \notin m_timers /\ w \notin done /\ ~Placed(w)
      /\ \A u \in Threads : w \notin cbs[u]
  BY <1>2 DEF WakerInv
<1>7. /\ Live(w)' /\ \A v \in Wakers \ {w} : Live(v)' <=> Live(v)
  BY <1>3, <1>5, <1>6 DEF Live
<1>8. w \in Aside
  BY <1>6 DEF Aside, WakerInv
<1>9. ~Live(w)
  BY <1>2 DEF Live
<1> HIDE DEF Placed, Aside, Live
<1>10. PollTypeOK' /\ FiniteInv'
  <2>1. IsFiniteSet(m_timers \cup {w})
    BY FS_AddElement DEF FiniteInv
  <2> QED
    BY <1>2, <1>3, <1>4, <1>5, <2>1 DEF PollTypeOK, FiniteInv
<1>11. PendingCovers' /\ EventInv'
  BY <1>3, <1>4 DEF PendingCovers, EventInv
<1>12. OutsideInv'
  <2>1. \A e \in m_events : e.cb # w
    <3> TAKE e \in m_events
    <3>1. CASE e.fiber = NoFiber
      BY <3>1 DEF EventInv
    <3>2. CASE e.fiber # NoFiber
      BY <1>5, <3>2 DEF EventInv, FiberEntry
    <3> QED
      BY <3>1, <3>2
  <2> QED
    BY <1>2, <1>3, <1>4, <1>6, <1>8, <2>1 DEF OutsideInv
<1>13. WakerInv'
  <2>1. \A v \in Wakers : v # w => (v \in m_timers' <=> v \in m_timers)
    BY <1>2
  <2> QED
    BY <1>2, <1>3, <1>4, <1>5, <1>7, <2>1 DEF WakerInv
<1>14. AwaitInv'
  <2>1. \A v \in Wakers : Live(v)' =>
          wakes'[v] \in armed' /\ FiberEntry(wakes'[v], AnyThread) \notin m_events'
    BY <1>3, <1>4, <1>5, <1>7 DEF AwaitInv
  <2>2. \A v, x \in Wakers : Live(v)' /\ Live(x)' /\ v # x => wakes'[v] # wakes'[x]
    BY <1>4, <1>5, <1>7 DEF AwaitInv
  <2>3. \A f \in armed' : \/ FiberEntry(f, AnyThread) \in m_events'
                          \/ \E v \in Wakers : Live(v)' /\ wakes'[v] = f
    BY <1>3, <1>4, <1>5, <1>7, <1>9 DEF AwaitInv
  <2> QED
    BY <2>1, <2>2, <2>3 DEF AwaitInv
<1> QED
  BY <1>4, <1>10, <1>11, <1>12, <1>13, <1>14

-----------------------------------------------------------------------------
\* What the callback w of a sleep() does on thread t, whose fiber is c: fiber f
\* goes back to the list, c ends
Resumes(t, c, w, f) ==
  /\ c = Cur(t) /\ c \in Fibers /\ f \in Fibers /\ f # c /\ f \in armed /\ Parked(f)
  /\ w = m_cb[c] /\ w \in Wakers /\ w \in Jobs /\ w \notin done /\ wakes[w] = f
  /\ pc[t] = "exec" /\ pc'[t] = "swapOut" /\ pc' = [pc EXCEPT ![t] = "swapOut"]
  /\ \A u \in Threads \ {t} : pc'[u] = pc[u]
  /\ m_fibers' = Append(m_fibers, FiberEntry(f, AnyThread))
  /\ armed' = armed \ {f} /\ done' = done \cup {w}
  /\ m_cb' = [m_cb EXCEPT ![c] = NoJob] /\ m_state' = [m_state EXCEPT ![c] = "TERM"]
  /\ m_cb'[c] = NoJob /\ \A g \in Fibers \ {c} : m_cb'[g] = m_cb[g]
  /\ m_state'[c] = "TERM" /\ \A g \in Fibers \ {c} : m_state'[g] = m_state[g]

LEMMA SleepOverFacts ==
  ASSUME RInv, EarlyWake => OneThread, NEW t \in Threads, SleepOver(t)
  PROVE  Resumes(t, Cur(t), m_cb[Cur(t)], wakes[m_cb[Cur(t)]])
<1> USE ConstAssumption, ReactorAssumption DEF RInv, ReactCore
<1>1. PICK c : c = Cur(t)
  OBVIOUS
<1>2. PICK w : w = m_cb[c]
  OBVIOUS
<1>3. PICK f : f = wakes[w]
  OBVIOUS
<1>4. /\ pc[t] = "exec" /\ w \in Wakers /\ (EarlyWake \/ Parked(f))
      /\ m_fibers' = Append(m_fibers, FiberEntry(f, AnyThread))
      /\ armed' = armed \ {f} /\ done' = done \cup {w}
      /\ m_cb' = [m_cb EXCEPT ![c] = NoJob] /\ m_state' = [m_state EXCEPT ![c] = "TERM"]
      /\ pc' = [pc EXCEPT ![t] = "swapOut"]
  BY <1>1, <1>2, <1>3 DEF SleepOver, Enqueue
<1>5. c \in Fibers /\ m_state[c] = "EXEC"
  BY <1>1, <1>4 DEF IInv, LocalsInv, SwappedIn, AtWork, Cur, TypeOK, Entry
<1>6. w \in Jobs /\ w \notin done
  BY <1>2, <1>4, <1>5 DEF JobCore, Pending
<1>7. f # NoFiber
  BY <1>2, <1>3, <1>4, <1>5 DEF WakerInv, Placed
<1>8. f \in Fibers /\ f \in armed
  BY <1>3, <1>4, <1>6, <1>7 DEF AwaitInv, Live, IInv, TypeOK
<1>9. Parked(f) /\ f # c
  <2>1. Parked(f)
    BY <1>4, <1>8, ParkedAlone
  <2> QED
    BY <1>1, <2>1 DEF Parked, Cur
<1>10. /\ pc'[t] = "swapOut" /\ \A u \in Threads \ {t} : pc'[u] = pc[u]
       /\ m_cb'[c] = NoJob /\ \A g \in Fibers \ {c} : m_cb'[g] = m_cb[g]
       /\ m_state'[c] = "TERM" /\ \A g \in Fibers \ {c} : m_state'[g] = m_state[g]
  BY <1>4, <1>5 DEF IInv, TypeOK
<1> QED
  BY <1>1, <1>2, <1>3, <1>4, <1>5, <1>6, <1>8, <1>9, <1>10 DEF Resumes

\* The scheduler's invariant
LEMMA SleepOverIInv ==
  ASSUME RInv, NEW t \in Threads, fault = "none", NEW c, NEW w, NEW f, Resumes(t, c, w, f), BodyFrame,
         UNCHANGED <<s_fiber_id, yields, submitted>>
  PROVE  IInv'
<1> USE ConstAssumption DEF RInv, IInv, NoFiber, Fibers, BodyFrame, callerVars
<1> DEFINE e == FiberEntry(f, AnyThread)
<1>0. e \in Entry /\ e.fiber = f /\ m_fibers' = Append(m_fibers, e) /\ m_fibers \in Seq(Entry)
  BY DEF Entry, FiberEntry, TypeOK, Resumes
<1> HIDE DEF e
<1>1. TypeOK'
  <2>1. m_fibers' \in Seq(Entry)
    BY <1>0
  <2>2. pc' \in [Threads -> PcSet] /\ m_cb' \in [Fibers -> Jobs \cup {NoJob}]
        /\ m_state' \in [Fibers -> FiberState] /\ armed' \in SUBSET Fibers /\ done' \in SUBSET Jobs
    BY DEF TypeOK, PcSet, FiberState, Resumes
  <2> QED
    BY <2>1, <2>2 DEF TypeOK
<1>2. CountsExact'
  <2>1. ActiveThreads' = ActiveThreads /\ IdleThreads' = IdleThreads
    BY DEF ActiveThreads, IdleThreads, Resumes
  <2> QED
    BY <2>1 DEF CountsExact
<1>3. /\ Len(m_fibers') = Len(m_fibers) + 1 /\ Len(m_fibers) \in Nat
      /\ \A i \in 1 .. Len(m_fibers) : m_fibers'[i] = m_fibers[i]
      /\ m_fibers'[Len(m_fibers) + 1] = e
      /\ \A i \in 1 .. Len(m_fibers') : i \in 1 .. Len(m_fibers) \/ (i = Len(m_fibers) + 1 /\ m_fibers'[i] = e)
  <2>1. /\ Len(m_fibers') = Len(m_fibers) + 1 /\ Len(m_fibers) \in Nat
        /\ \A i \in 1 .. Len(m_fibers) : m_fibers'[i] = m_fibers[i]
        /\ m_fibers'[Len(m_fibers) + 1] = e
    BY <1>0
  <2> QED
    BY <2>1
<1>4. /\ \A u \in Threads : ~Held(u, f) /\ Held(t, c)
      /\ f <= s_fiber_id /\ m_cb[f] \in Jobs /\ m_state[f] = "HOLD" /\ f # NoFiber
  BY DEF Parked, Held, ArmedInv, Cur, Resumes
<1>5. \A i \in 1 .. Len(m_fibers) : m_fibers[i].fiber # NoFiber =>
        m_fibers[i].fiber # c /\ m_fibers[i].fiber # f /\ m_fibers[i].fiber \in Fibers
  <2>1. \A i \in 1 .. Len(m_fibers) : m_fibers[i].fiber \in Fibers \cup {NoFiber}
    <3> HIDE DEF Fibers, NoFiber
    <3>1. \A i \in 1 .. Len(m_fibers) : m_fibers[i] \in Entry
      BY <1>0
    <3> QED
      BY <3>1 DEF Entry
  <2> QED
    BY <1>4, <2>1 DEF ListApart, ListInv, Resumes
<1>6. ListInv'
  <2>1. \A i \in 1 .. Len(m_fibers) : m_fibers[i].fiber # NoFiber =>
           /\ m_cb'[m_fibers[i].fiber] = m_cb[m_fibers[i].fiber]
           /\ m_state'[m_fibers[i].fiber] = m_state[m_fibers[i].fiber]
    BY <1>5 DEF Resumes
  <2>2. m_cb'[f] = m_cb[f] /\ m_state'[f] = "HOLD" /\ f \notin armed' /\ armed' \subseteq armed
    BY <1>4 DEF Resumes
  <2> HIDE DEF Fibers
  <2> QED
    BY <1>0, <1>3, <1>4, <2>1, <2>2 DEF ListInv, ResumableState
<1>7. ListDistinct'
  BY <1>0, <1>3, <1>5 DEF ListDistinct
<1>8. ListApart'
  BY <1>0, <1>3, <1>4 DEF ListApart, Held
<1>9. ThreadsApart'
  BY DEF ThreadsApart, Held
<1>10. \A u \in Threads : Cur(u)' = Cur(u) /\ (AtWork(u)' <=> AtWork(u)) /\ (SwappedIn(u)' <=> SwappedIn(u))
  BY DEF Cur, AtWork, SwappedIn, Resumes
<1>11. \A u \in Threads \ {t} : \A g \in Fibers : Held(u, g) =>
         m_cb'[g] = m_cb[g] /\ m_state'[g] = m_state[g] /\ (g \in armed' <=> g \in armed)
  BY <1>4 DEF ThreadsApart, Resumes
<1>12. LocalsInv'
  <2> SUFFICES ASSUME NEW u \in Threads
               PROVE
        /\ ~AtWork(u)' => ft[u].fiber = NoFiber
        /\ pc'[u] = "dispatch" /\ ft[u].fiber = NoFiber => ft[u].cb \in Jobs
        /\ pc'[u] = "dispatch" /\ ft[u].fiber # NoFiber =>
             /\ m_cb'[ft[u].fiber] \in Jobs
             /\ m_state'[ft[u].fiber] \in ResumableState
             /\ ft[u].fiber \notin armed'
        /\ SwappedIn(u)' => Cur(u)' # NoFiber
        /\ pc'[u] \in {"exec", "hold"} => m_cb'[Cur(u)'] \in Jobs /\ m_state'[Cur(u)'] = "EXEC"
        /\ pc'[u] = "exec" => Cur(u)' \notin armed'
        /\ pc'[u] \in {"swapOut", "settle"} =>
             /\ m_state'[Cur(u)'] \in {"READY", "HOLD", "TERM", "EXCEPT"}
             /\ m_state'[Cur(u)'] \in {"READY", "HOLD"} => m_cb'[Cur(u)'] \in Jobs
             /\ m_state'[Cur(u)'] # "HOLD" => Cur(u)' \notin armed'
        /\ pc'[u] = "sethold" => m_state'[Cur(u)'] = "HOLD" /\ m_cb'[Cur(u)'] \in Jobs
    BY DEF LocalsInv
  <2>1. CASE u = t
    BY <1>10, <2>1 DEF LocalsInv, AtWork, SwappedIn, Resumes
  <2>2. CASE u # t
    <3>1. pc'[u] = pc[u] /\ ft[u].fiber \in Fibers \cup {NoFiber} /\ cbFiber[u] \in Fibers \cup {NoFiber}
      BY <2>2 DEF TypeOK, Entry, Resumes
    <3>2. ft[u].fiber # NoFiber => Held(u, ft[u].fiber) /\ ft[u].fiber \in Fibers
      BY <3>1 DEF Held
    <3>3. Cur(u) # NoFiber => Held(u, Cur(u)) /\ Cur(u) \in Fibers
      BY <3>1 DEF Held, Cur
    <3>4. pc[u] \in {"exec", "hold", "swapOut", "settle", "sethold"} => SwappedIn(u)
      BY DEF SwappedIn, AtWork
    <3> HIDE DEF Fibers
    <3> QED
      BY <1>10, <1>11, <2>2, <3>1, <3>2, <3>3, <3>4 DEF LocalsInv
  <2> QED
    BY <2>1, <2>2
<1>13. SpareInv'
  <2> SUFFICES ASSUME NEW u \in Threads, cbFiber[u] # NoFiber, SwappedIn(u) => Cur(u) # cbFiber[u]
               PROVE  m_state'[cbFiber[u]] = "INIT" /\ cbFiber[u] \notin armed'
    BY <1>10 DEF SpareInv
  <2>1. m_state[cbFiber[u]] = "INIT" /\ cbFiber[u] \notin armed /\ cbFiber[u] \in Fibers
    BY DEF SpareInv, TypeOK
  <2>2. m_state[c] = "EXEC"
    BY DEF LocalsInv, Resumes
  <2> QED
    BY <2>1, <2>2 DEF Resumes
<1>14. ArmedInv'
  <2>1. \A g \in armed' : g \in armed /\ g # c
    BY DEF LocalsInv, Resumes
  <2>2. \A g : Parked(g)' <=> Parked(g)
    BY DEF Parked
  <2> QED
    BY <2>1, <2>2 DEF ArmedInv, Resumes, TypeOK
<1>15. MainInv' /\ NoAbort'
  BY DEF MainInv, NoAbort, Resumes
<1> QED
  BY <1>1, <1>2, <1>6, <1>7, <1>8, <1>9, <1>12, <1>13, <1>14, <1>15

\* ... and where the jobs are
LEMMA SleepOverJob ==
  ASSUME RInv, NEW t \in Threads, NEW c, NEW w, NEW f, Resumes(t, c, w, f), BodyFrame,
         UNCHANGED <<s_fiber_id, yields, submitted>>
  PROVE  JobCore'
<1> USE ConstAssumption DEF RInv, IInv, JobCore, BodyFrame
<1> DEFINE e == FiberEntry(f, AnyThread)
<1>1. e \in Entry /\ e.fiber = f /\ e.cb = NoJob /\ m_fibers \in Seq(Entry)
  BY DEF FiberEntry, Entry, TypeOK, Resumes
<1>2. m_fibers' = Append(m_fibers, e)
  BY DEF Resumes
<1> HIDE DEF e
<1>3. /\ Len(m_fibers) + 1 \in 1 .. Len(m_fibers') /\ m_fibers'[Len(m_fibers) + 1] = e
      /\ \A i \in 1 .. Len(m_fibers) : i \in 1 .. Len(m_fibers') /\ m_fibers'[i] = m_fibers[i]
      /\ \A i \in 1 .. Len(m_fibers') : i \in 1 .. Len(m_fibers) \/ m_fibers'[i] = e
  BY <1>1, <1>2, AppendFacts
<1>4. EntryShape'
  <2>1. \A u \in Threads : pc'[u] = "dispatch" <=> pc[u] = "dispatch"
    BY DEF Resumes
  <2> QED
    BY <1>1, <1>3, <2>1 DEF EntryShape
<1>5. EntriesOnce'
  BY <1>1, <1>3 DEF EntriesOnce, Resumes
<1>6. LocalsOnce'
  BY DEF LocalsOnce, Resumes
<1>7. Pending'
  <2>1. \A i \in 1 .. Len(m_fibers') :
          m_fibers'[i].cb # NoJob => m_fibers'[i].cb \in submitted \ done /\ m_fibers'[i].cb # w
    BY <1>1, <1>3 DEF Pending, EntriesOnce, Resumes
  <2>2. \A u \in Threads : ft[u].cb # NoJob => ft[u].cb \in submitted \ done /\ ft[u].cb # w
    BY DEF Pending, LocalsOnce, Resumes
  <2>3. \A g \in Fibers \ {c} : m_cb[g] # w
    BY DEF LocalsOnce, Resumes
  <2>4. w \in submitted /\ done' = done \cup {w} /\ NoJob \notin done' /\ ft' = ft
    BY DEF Pending, Resumes, TypeOK
  <2>5. \A g \in Fibers :
          /\ m_cb'[g] # NoJob => m_cb'[g] \in submitted
          /\ m_cb'[g] \in done' => m_state'[g] = "EXCEPT"
          /\ m_state'[g] \in {"TERM", "EXCEPT"} => m_cb'[g] \in done' \cup {NoJob}
    <3> TAKE g \in Fibers
    <3>1. CASE g = c
      BY <2>4, <3>1 DEF Resumes
    <3>2. CASE g # c
      BY <2>3, <2>4, <3>2 DEF Resumes, Pending
    <3> QED
      BY <3>1, <3>2
  <2>6. done' \subseteq submitted
    BY <2>4 DEF Pending
  <2> QED
    BY <2>1, <2>2, <2>4, <2>5, <2>6 DEF Pending
<1>8. \A u \in Threads : Cur(u)' = Cur(u) /\ (AtWork(u)' <=> AtWork(u)) /\ (SwappedIn(u)' <=> SwappedIn(u))
  BY DEF Cur, AtWork, SwappedIn, Resumes
<1>9. FiberPlaced'
  <2>1. \A g \in Fibers : Parked(g)' <=> Parked(g)
    BY DEF Parked
  <2>2. \A g \in Fibers : m_cb'[g] \in Jobs \ done' => g # c /\ m_cb[g] \in Jobs \ done
    BY DEF Resumes
  <2>3. \A g \in armed : g # f => g \in armed'
    BY DEF Resumes
  <2> QED
    BY <1>1, <1>3, <1>8, <2>1, <2>2, <2>3 DEF FiberPlaced
<1>10. SpareEmpty'
  BY <1>8 DEF SpareEmpty, Resumes, TypeOK
<1>11. HoldArmed'
  <2>1. \A u \in Threads : pc[u] \in {"hold", "sethold", "swapOut", "settle"} =>
          SwappedIn(u) /\ u # t /\ pc'[u] = pc[u]
    BY DEF SwappedIn, AtWork, Resumes
  <2>2. \A u \in Threads \ {t} : SwappedIn(u) => Cur(u) # c /\ Cur(u) \in Fibers
    <3> TAKE u \in Threads \ {t}
    <3> HAVE SwappedIn(u)
    <3>1. Cur(u) # NoFiber
      BY DEF LocalsInv
    <3>2. Cur(u) \in Fibers /\ Held(u, Cur(u)) /\ Held(t, c)
      BY <3>1 DEF Cur, Held, TypeOK, Entry, Resumes
    <3> QED
      BY <3>2 DEF ThreadsApart, Resumes
  <2>3. \A g : Asked(g) => Asked(g)'
    BY <1>1, <1>3 DEF Asked, Resumes
  <2> QED
    BY <1>8, <2>1, <2>2, <2>3 DEF HoldArmed, Resumes
<1> QED
  BY <1>4, <1>5, <1>6, <1>7, <1>9, <1>10, <1>11

\* The sleep() of fiber f is over: its callback has ended, f waits no more
LEMMA SleepOverStep ==
  ASSUME RInv, EarlyWake => OneThread, NEW t \in Threads, fault = "none", SleepOver(t)
  PROVE  RInv'
<1> USE ConstAssumption, ReactorAssumption DEF RInv, ReactCore
<1>1. PICK c, w, f : Resumes(t, c, w, f)
  BY SleepOverFacts
<1>2. BodyFrame /\ UNCHANGED <<s_fiber_id, yields, submitted>> /\ UNCHANGED pollVars
  BY DEF SleepOver
<1>3. IInv' /\ JobCore'
  BY <1>1, <1>2, SleepOverIInv, SleepOverJob
<1>4. UNCHANGED <<m_timers, m_events, m_pendingEventCount, wakes, step, cbs, got, ft, cbFiber>>
  BY <1>2 DEF pollVars, BodyFrame
<1>5. \A u \in Threads : Cur(u)' = Cur(u)
  BY <1>4 DEF Cur
<1>6. PollTypeOK' /\ FiniteInv' /\ PendingCovers'
  BY <1>4 DEF PollTypeOK, FiniteInv, PendingCovers
<1>7. StepInv'
  BY <1>1, <1>4 DEF StepInv, Resumes
<1>8. ExecInv'
  <2>1. \A g \in Fibers : m_cb'[g] \in Wakers => g # c /\ m_cb[g] \in Wakers
    BY <1>1 DEF Resumes
  <2> QED
    BY <1>1, <1>5, <2>1 DEF ExecInv, Resumes
<1>9. /\ \A j \in Jobs : Placed(j)' => Placed(j)
      /\ \A j \in Jobs : Placed(j) /\ j # w => Placed(j)'
      /\ Placed(w)
  <2> DEFINE e == FiberEntry(f, AnyThread)
  <2>1. e \in Entry /\ e.cb = NoJob /\ m_fibers \in Seq(Entry) /\ m_fibers' = Append(m_fibers, e)
    BY <1>1 DEF FiberEntry, Entry, IInv, TypeOK, Resumes
  <2> HIDE DEF e
  <2>2. /\ \A i \in 1 .. Len(m_fibers) : i \in 1 .. Len(m_fibers') /\ m_fibers'[i] = m_fibers[i]
        /\ \A i \in 1 .. Len(m_fibers') : i \in 1 .. Len(m_fibers) \/ m_fibers'[i] = e
    BY <2>1, AppendFacts
  <2>3. \A j \in Jobs : Placed(j)' => Placed(j)
    BY <1>1, <1>4, <2>1, <2>2 DEF Placed, Resumes
  <2>4. \A j \in Jobs : Placed(j) /\ j # w => Placed(j)'
    BY <1>1, <1>4, <2>1, <2>2 DEF Placed, Resumes
  <2> QED
    BY <1>1, <2>3, <2>4 DEF Placed, Resumes
<1>10. Aside \subseteq Aside' /\ w \notin Aside
  <2>1. submitted \subseteq Jobs
    BY DEF IInv, TypeOK
  <2> QED
    BY <1>1, <1>2, <1>9, <2>1 DEF Aside, Resumes
<1>11. /\ ~Live(w)' /\ Live(w) /\ \A v \in Wakers \ {w} : Live(v)' <=> Live(v)
       /\ w \in Wakers /\ wakes[w] = f /\ f \in Fibers /\ f \in armed /\ armed' = armed \ {f}
       /\ wakes[w] # NoFiber /\ w \notin done /\ done' = done \cup {w}
  BY <1>1, <1>4 DEF Live, Resumes, Fibers, NoFiber
<1> HIDE DEF Placed, Aside, Live
<1>12. EventInv'
  <2>1. \A d \in m_events : d.fiber # NoFiber => d.fiber # f
    BY <1>11 DEF EventInv, AwaitInv
  <2> QED
    BY <1>4, <1>10, <1>11, <2>1 DEF EventInv
<1>13. OutsideInv'
  BY <1>4, <1>10 DEF OutsideInv
<1>14. WakerInv'
  BY <1>2, <1>4, <1>9, <1>11 DEF WakerInv
<1>15. AwaitInv'
  <2>1. \A v \in Wakers : Live(v)' => v # w /\ Live(v) /\ wakes[v] # f
    BY <1>11 DEF AwaitInv
  <2> QED
    BY <1>4, <1>11, <2>1 DEF AwaitInv
<1> QED
  BY <1>3, <1>6, <1>7, <1>8, <1>12, <1>13, <1>14, <1>15

-----------------------------------------------------------------------------
(* The steps that leave the timers and the events alone.                    *)

\* run(), its idle fiber apart
LEMMA PoolCase ==
  ASSUME RInv, EarlyWake => OneThread, NEW t \in Threads, PoolStep(t)
  PROVE  RInv'
<1> USE DEF RInv
<1>1. RunStep(t) /\ UNCHANGED pollVars
  BY DEF PoolStep, RunStep
<1>2. IInv'
  BY <1>1, ReactorAssumption, StepPreserves
<1>3. JobCore'
  BY PickJob, PickNothingJob, RunFiberJob, RunCallbackReuseJob, RunCallbackNewJob, SwapOutJob,
     RequeueJob, FinishJob, NoteHoldJob, SetHoldJob, LateIsEarly DEF PoolStep
<1>4. KeepsJobs
  BY <1>2, PoolKeeps DEF IInv, NoAbort
<1> QED
  BY <1>1, <1>2, <1>3, <1>4, FrameCore

\* A job returns, yields or schedules another one
LEMMA BodyCase ==
  ASSUME RInv, EarlyWake => OneThread, NEW t \in Threads, fault = "none", UNCHANGED pollVars,
         \/ UserCode(t) /\ (Return(t) \/ Spawn(t) \/ YieldToReady(t))
         \/ YieldToHold(t)
  PROVE  RInv'
<1> USE DEF RInv
<1>1. IInv'
  <2>1. BodyStep(t)
    BY DEF BodyStep
  <2> QED
    BY <2>1, ReactorAssumption, StepPreserves
<1>2. CASE UserCode(t) /\ Return(t)
  BY <1>1, <1>2, ReturnJob, ReturnKeeps, FrameCore
<1>3. CASE UserCode(t) /\ Spawn(t)
  <2>1. ScheduleFrame
    BY <1>3 DEF Spawn, BodyFrame, ScheduleFrame
  <2>2. PICK j \in Fresh, thr \in SpawnPins : ScheduleCb(j, thr) \/ ScheduleFiber(j, thr)
    BY <1>3 DEF Spawn
  <2>3. thr \in Workers \cup {Caller, AnyThread}
    BY ConstAssumption
  <2>4. JobCore'
    BY <2>1, <2>2, <2>3, ScheduleCbJob, ScheduleFiberJob, LateIsEarly
  <2>5. KeepsJobs
    BY <2>1, <2>2, <2>3, ScheduleKeeps
  <2> QED
    BY <1>1, <2>4, <2>5, FrameCore
<1>4. CASE UserCode(t) /\ YieldToReady(t)
  BY <1>1, <1>4, YieldToReadyJob, PlainKeeps, FrameCore
<1>5. CASE YieldToHold(t)
  BY <1>1, <1>5, YieldToHoldJob, LateIsEarly, PlainKeeps, FrameCore
<1> QED
  BY <1>2, <1>3, <1>4, <1>5

\* The caller schedules a job
LEMMA CallerSubmitsStep ==
  ASSUME RInv, CallerSubmits
  PROVE  RInv'
<1> USE DEF RInv
<1>1. PICK j \in Fresh : ScheduleCb(j, AnyThread)
  BY DEF CallerSubmits
<1>2. ScheduleFrame /\ UNCHANGED pollVars
  BY DEF CallerSubmits, BodyFrame, ScheduleFrame, pollVars
<1>3. IInv' /\ JobCore'
  BY <1>1, <1>2, ScheduleCbStep, ScheduleCbJob, LateIsEarly
<1>4. KeepsJobs
  BY <1>1, <1>2, ScheduleKeeps
<1> QED
  BY <1>2, <1>3, <1>4, FrameCore

\* A step of stop() by which no thread takes or drops an entry
LEMMA StopIInv ==
  ASSUME RInv, StopFrame, UNCHANGED <<idleState, fault>>, m_stopping' \in BOOLEAN, m_autoStop' \in BOOLEAN,
         rootState' \in FiberState, main' \in MainSet, pc' \in [Threads -> PcSet], MainInv',
         \A t \in Threads : AtWork(t) \/ AtWork(t)' \/ pc[t] = "idling" \/ pc'[t] = "idling"
                              => pc'[t] = pc[t]
  PROVE  IInv' /\ JobCore'
<1> USE DEF RInv, IInv, StopFrame, fiberVars, jobVars
<1>1. \A t \in Threads : /\ AtWork(t)' <=> AtWork(t)
                         /\ SwappedIn(t)' <=> SwappedIn(t)
                         /\ Cur(t)' = Cur(t)
                         /\ AtWork(t) => pc'[t] = pc[t]
  BY DEF AtWork, SwappedIn, Cur
<1>2. TypeOK' /\ NoAbort'
  BY DEF TypeOK, NoAbort
<1>3. CountsExact'
  <2>1. \A t \in Threads : pc[t] \in {"dispatch", "exec", "hold", "swapOut"}
                             <=> pc'[t] \in {"dispatch", "exec", "hold", "swapOut"}
    BY DEF AtWork
  <2>2. ActiveThreads' = ActiveThreads
    BY <2>1 DEF ActiveThreads
  <2>3. IdleThreads' = IdleThreads
    BY DEF IdleThreads
  <2> QED
    BY <2>2, <2>3 DEF CountsExact
<1>4. ListInv' /\ ListDistinct' /\ ListApart' /\ ThreadsApart' /\ ArmedInv'
  BY DEF ListInv, ListDistinct, ListApart, ThreadsApart, ArmedInv, Held, Parked
<1>5. LocalsInv'
  <2>1. \A t \in Threads : pc'[t] \in {"dispatch", "exec", "hold", "swapOut", "settle", "sethold"}
                             => pc'[t] = pc[t]
    BY DEF AtWork
  <2> QED
    BY <1>1, <2>1 DEF LocalsInv
<1>6. SpareInv'
  BY <1>1 DEF SpareInv
<1>7. JobCore'
  BY CallerFrameJob, LateIsEarly
<1> QED
  BY <1>2, <1>3, <1>4, <1>5, <1>6, <1>7

\* stop() up to the point where it looks at stopping(), and past it
LEMMA StopStepCase ==
  ASSUME RInv, EarlyWake => OneThread,
         StopCalled \/ StopEarly \/ StopGoesOn \/ StopJoins
         \/ ((RootReturns \/ Join) /\ UNCHANGED pollVars)
  PROVE  RInv'
<1> USE ConstAssumption, ReactorAssumption DEF RInv
<1>1. UNCHANGED pollVars
  BY DEF StopCalled, StopEarly, StopGoesOn, StopJoins, pollVars
<1>2. StopFrame /\ UNCHANGED <<idleState, fault>>
  BY DEF StopCalled, StopBegins, StopEarly, StopReturnsEarly, StopGoesOn, StopJoins, RootReturns, Join
<1>3. /\ m_stopping' \in BOOLEAN /\ m_autoStop' \in BOOLEAN /\ rootState' \in FiberState
      /\ main' \in MainSet
  BY DEF StopCalled, StopBegins, StopEarly, StopReturnsEarly, StopGoesOn, StopJoins, RootReturns, Join,
         IInv, TypeOK, MainSet, FiberState
<1>4. \A t \in Threads : pc'[t] = pc[t] \/ (pc[t] = "exit" /\ pc'[t] = "none")
  BY DEF StopCalled, StopBegins, StopEarly, StopReturnsEarly, StopGoesOn, StopJoins, RootReturns, Join,
         AllExited, IInv, TypeOK
<1>5. pc' \in [Threads -> PcSet]
  BY DEF StopCalled, StopBegins, StopEarly, StopReturnsEarly, StopGoesOn, StopJoins, RootReturns, Join,
         IInv, TypeOK, PcSet
<1>6. MainInv'
  <2>1. CASE StopCalled
    BY <2>1 DEF StopCalled, StopBegins, StopFrame, MainInv, IInv
  <2>2. CASE StopEarly
    BY <2>2 DEF StopEarly, StopReturnsEarly, NothingToRun, StopFrame, MainInv, IInv
  <2>3. CASE StopGoesOn
    BY <2>3 DEF StopGoesOn, StopFrame, MainInv, IInv
  <2>4. CASE StopJoins
    BY <2>4 DEF StopJoins, StopFrame, MainInv, IInv
  <2>5. CASE RootReturns
    BY <2>5 DEF RootReturns, StopFrame, MainInv, IInv, TypeOK, Threads
  <2>6. CASE Join
    BY <2>6 DEF Join, StopFrame, MainInv, IInv, Threads
  <2> QED
    BY <2>1, <2>2, <2>3, <2>4, <2>5, <2>6
<1>7. IInv' /\ JobCore'
  BY <1>2, <1>3, <1>4, <1>5, <1>6, StopIInv DEF AtWork
<1>8. KeepsJobs
  BY <1>1, <1>2, <1>4, StopKeeps DEF StopFrame, pollVars, jobVars
<1> QED
  BY <1>1, <1>7, <1>8, FrameCore

\* stop() on the caller's thread enters run()
LEMMA StopEntersRunStep ==
  ASSUME RInv, StopEntersRun
  PROVE  RInv'
<1> USE ConstAssumption, ReactorAssumption DEF RInv, ReactCore
<1>1. /\ main = "stopCheck" /\ Caller \in Threads /\ pc[Caller] = "none" /\ step[Caller] = "false"
      /\ main' = "inRun" /\ rootState' = "EXEC" /\ pc' = [pc EXCEPT ![Caller] = "pick"]
      /\ step' = [step EXCEPT ![Caller] = "timers"]
  BY DEF StopEntersRun, Goto, Threads, IInv, MainInv
<1>2. /\ StopFrame /\ UNCHANGED <<m_stopping, m_autoStop, idleState, fault, m_timers,
                                  m_events, m_pendingEventCount, wakes, cbs, got>>
  BY DEF StopEntersRun
<1>3. /\ pc'[Caller] = "pick" /\ \A u \in Threads \ {Caller} : pc'[u] = pc[u]
      /\ step'[Caller] = "timers" /\ \A u \in Threads \ {Caller} : step'[u] = step[u]
      /\ pc' \in [Threads -> PcSet]
  BY <1>1 DEF IInv, TypeOK, PollTypeOK, PcSet
<1>4. MainInv'
  BY <1>1, <1>2, <1>3 DEF MainInv, IInv, StopEntersRun, StopFrame
<1>5. IInv' /\ JobCore'
  <2>1. /\ m_stopping' \in BOOLEAN /\ m_autoStop' \in BOOLEAN /\ rootState' \in FiberState
        /\ main' \in MainSet
    BY <1>1, <1>2 DEF IInv, TypeOK, FiberState, MainSet
  <2> QED
    BY <1>1, <1>2, <1>3, <1>4, <2>1, StopIInv DEF AtWork
<1>6. PollTypeOK' /\ StepInv'
  <2>1. PollTypeOK'
    BY <1>1, <1>2 DEF PollTypeOK, Steps
  <2>2. StepInv'
    BY <1>1, <1>2, <1>3 DEF StepInv
  <2> QED
    BY <2>1, <2>2
<1>7. PendingCovers'
  <2>1. {u \in Threads : step'[u] = "uncount"} = {u \in Threads : step[u] = "uncount"}
    BY <1>1, <1>3
  <2> QED
    BY <1>2, <2>1 DEF PendingCovers
<1>8. \A u \in Threads : pc[u] = "exec" => pc'[u] = "exec"
  BY <1>1, <1>3
<1>9. ReactCore'
  BY <1>2, <1>6, <1>7, <1>8, SameCore DEF StopFrame, fiberVars, jobVars
<1> QED
  BY <1>5, <1>9

-----------------------------------------------------------------------------
\* The constructor leaves the pool empty
LEMMA ReactorInitRInv == ASSUME ReactorInit PROVE RInv
<1> USE ConstAssumption, ReactorAssumption DEF ReactorInit, NoFiber, Fibers
<1>1. /\ ResetEntry \in Entry /\ ResetEntry.fiber = NoFiber /\ ResetEntry.cb = NoJob
      /\ Len(m_fibers) = 0 /\ 1 .. Len(m_fibers) = {}
  BY DEF ResetEntry, Entry
<1>2. \A t \in Threads : /\ pc[t] \in {"pick", "none"} /\ ft[t].fiber = NoFiber /\ ft[t].cb = NoJob
                         /\ cbFiber[t] = NoFiber /\ step[t] = "timers"
  BY <1>1
<1>3. TypeOK
  <2>1. m_fibers \in Seq(Entry) /\ ft \in [Threads -> Entry] /\ pc \in [Threads -> PcSet]
    BY <1>1 DEF PcSet
  <2>2. /\ cbFiber \in [Threads -> Fibers \cup {NoFiber}]
        /\ idleState \in [Threads -> FiberState] /\ m_state \in [Fibers -> FiberState]
        /\ m_cb \in [Fibers -> Jobs \cup {NoJob}]
    BY DEF FiberState
  <2>3. /\ rootState \in FiberState /\ main \in MainSet /\ starts \in 0 .. MaxStarts
        /\ s_fiber_id \in 0 .. MaxFibers /\ yields \in [Jobs -> 0 .. MaxYields]
    BY DEF FiberState, MainSet
  <2> QED
    BY <2>1, <2>2, <2>3 DEF TypeOK
<1>4. CountsExact
  <2>1. ActiveThreads = {} /\ IdleThreads = {}
    BY <1>2 DEF ActiveThreads, IdleThreads
  <2> QED
    BY <2>1, FS_EmptySet DEF CountsExact
<1>5. IInv
  <2>1. NoAbort /\ ListInv /\ ListDistinct /\ ListApart
    BY <1>1 DEF NoAbort, ListInv, ListDistinct, ListApart
  <2>2. ThreadsApart /\ LocalsInv /\ SpareInv /\ ArmedInv
    BY <1>2 DEF ThreadsApart, LocalsInv, SpareInv, ArmedInv, Held, AtWork, SwappedIn
  <2>3. MainInv
    BY DEF MainInv, Threads
  <2> QED
    BY <1>3, <1>4, <2>1, <2>2, <2>3 DEF IInv
<1>6. JobCore
  <2>1. EntryShape /\ SpareEmpty /\ HoldArmed
    BY <1>1, <1>2 DEF EntryShape, SpareEmpty, HoldArmed
  <2>2. EntriesOnce /\ LocalsOnce
    BY <1>1, <1>2 DEF EntriesOnce, LocalsOnce
  <2>3. Pending /\ FiberPlaced
    BY <1>1, <1>2 DEF Pending, FiberPlaced
  <2> QED
    BY <2>1, <2>2, <2>3 DEF JobCore
<1>7. PollTypeOK /\ FiniteInv /\ StepInv
  BY <1>2, FS_EmptySet DEF PollTypeOK, FiniteInv, StepInv, Steps
<1>8. EventInv /\ OutsideInv
  BY DEF EventInv, OutsideInv
<1>9. WakerInv
  <2>1. \A w \in Wakers : ~Placed(w)
    BY <1>1, <1>2 DEF Placed
  <2> QED
    BY <2>1 DEF WakerInv, Live
<1>10. ExecInv /\ AwaitInv
  BY DEF ExecInv, AwaitInv, Live
<1>11. PendingCovers
  <2>1. {t \in Threads : step[t] = "uncount"} = {}
    BY <1>2
  <2>2. m_events = {} /\ m_pendingEventCount = 0 /\ Cardinality({}) = 0
    BY FS_EmptySet
  <2> HIDE DEF ReactorInit
  <2> QED
    BY <2>1, <2>2 DEF PendingCovers
<1> QED
  BY <1>5, <1>6, <1>7, <1>8, <1>9, <1>10, <1>11 DEF RInv, ReactCore

\* Every step of the reactor keeps the invariant
LEMMA ReactorNextRInv ==
  ASSUME EarlyWake => OneThread, RInv, [ReactorNext]_reactVars
  PROVE  RInv'
<1>1. CASE CallerSubmits
  BY <1>1, CallerSubmitsStep
<1>2. CASE CallerAddsTimer
  BY <1>2, NewTimerStep DEF CallerAddsTimer
<1>3. CASE StopCalled
  BY <1>3, StopStepCase
<1>4. CASE StopProceeds
  BY <1>4, StopStepCase, StopEntersRunStep, ReadStep DEF StopProceeds, CallerReads
<1>5. ASSUME NEW t \in Threads, PoolStep(t)
      PROVE  RInv'
  BY <1>5, PoolCase
<1>6. ASSUME NEW t \in Threads, IdleStep(t)
      PROVE  RInv'
  BY <1>6, ReadStep, LeaveIdleStep, PollStep, HandStep, DispatchStep, UncountStep, PassOverStep
     DEF IdleStep
<1>7. ASSUME NEW t \in Threads, JobStep(t)
      PROVE  RInv'
  BY <1>7, NewTimerStep, AddEventStep, AwaitEventStep, SleepStep, SleepOverStep, BodyCase
     DEF JobStep, AddTimer
<1>8. CASE UNCHANGED reactVars
  <2>1. UNCHANGED vars /\ UNCHANGED pollVars
    BY <1>8 DEF reactVars
  <2>2. StepInv' /\ PollTypeOK' /\ PendingCovers'
    BY <2>1 DEF vars, pollVars, RInv, ReactCore, StepInv, PollTypeOK, PendingCovers
  <2>3. ReactCore'
    BY <2>1, <2>2, SameCore DEF vars, pollVars
  <2> QED
    BY <2>1, <2>3, StillStep DEF RInv
<1> QED
  BY <1>1, <1>2, <1>3, <1>4, <1>5, <1>6, <1>7, <1>8 DEF ReactorNext, ThreadStep, Stopped

\* The invariant of the reactor, from which the theorems below follow
THEOREM ReactorInvariance ==
  ASSUME EarlyWake => OneThread
  PROVE  ReactorSpec => []RInv
<1>1. ReactorInit => RInv
  BY ReactorInitRInv
<1>2. RInv /\ [ReactorNext]_reactVars => RInv'
  BY ReactorNextRInv
<1> QED
  BY <1>1, <1>2, PTL DEF ReactorSpec

-----------------------------------------------------------------------------
\* The callback of a sleep() is on a thread exactly when the thread's local
\* entry or the fiber it runs has it
LEMMA WakerPlaces ==
  ASSUME RInv, NEW w \in Wakers
  PROVE  /\ Placed(w) <=> \/ \E i \in 1 .. Len(m_fibers) : m_fibers[i].cb = w
                          \/ \E t \in Threads : OnThread(t, w)
         /\ (\E i \in 1 .. Len(m_fibers) : m_fibers[i].cb = w) => \A t \in Threads : ~OnThread(t, w)
         /\ \A i, k \in 1 .. Len(m_fibers) : m_fibers[i].cb = w /\ m_fibers[k].cb = w => i = k
         /\ \A t, u \in Threads : OnThread(t, w) /\ OnThread(u, w) => t = u
         /\ Placed(w) => w \notin done
<1> USE ConstAssumption, ReactorAssumption DEF RInv, JobCore, ReactCore
<1>1. w \in Jobs /\ w # NoJob
  OBVIOUS
<1>2. \A t \in Threads : Cur(t) # NoFiber => Cur(t) \in Fibers /\ Held(t, Cur(t))
  BY DEF IInv, TypeOK, Entry, Cur, Held
<1>3. \A t \in Threads : OnThread(t, w) =>
        ft[t].cb = w \/ (Cur(t) \in Fibers /\ Held(t, Cur(t)) /\ m_cb[Cur(t)] = w)
  BY <1>2 DEF OnThread
<1>4. \A f \in Fibers : m_cb[f] = w =>
        \E t \in Threads : OnThread(t, w) /\ m_state[f] = "EXEC"
  <2> TAKE f \in Fibers
  <2> HAVE m_cb[f] = w
  <2>1. PICK t \in Threads : pc[t] = "exec" /\ Cur(t) = f
    BY DEF ExecInv
  <2>2. f # NoFiber
    BY DEF Fibers, NoFiber
  <2> QED
    BY <2>1, <2>2 DEF OnThread, IInv, LocalsInv
<1>5. \A t \in Threads : ft[t].cb = w => OnThread(t, w)
  BY <1>1 DEF EntryShape, OnThread
<1>6. Placed(w) <=> \/ \E i \in 1 .. Len(m_fibers) : m_fibers[i].cb = w
                    \/ \E t \in Threads : OnThread(t, w)
  BY <1>3, <1>4, <1>5 DEF Placed
<1>7. (\E i \in 1 .. Len(m_fibers) : m_fibers[i].cb = w) => \A t \in Threads : ~OnThread(t, w)
  BY <1>1, <1>3 DEF EntriesOnce
<1>8. \A i, k \in 1 .. Len(m_fibers) : m_fibers[i].cb = w /\ m_fibers[k].cb = w => i = k
  BY <1>1 DEF EntriesOnce
<1>9. \A t, u \in Threads : OnThread(t, w) /\ OnThread(u, w) => t = u
  <2> SUFFICES ASSUME NEW t \in Threads, NEW u \in Threads, OnThread(t, w), OnThread(u, w), t # u
               PROVE  FALSE
    OBVIOUS
  <2>1. CASE ft[t].cb = w \/ ft[u].cb = w
    BY <1>1, <1>3, <2>1 DEF LocalsOnce
  <2>2. CASE ft[t].cb # w /\ ft[u].cb # w
    <3>1. /\ Cur(t) \in Fibers /\ Held(t, Cur(t)) /\ m_cb[Cur(t)] = w
          /\ Cur(u) \in Fibers /\ Held(u, Cur(u)) /\ m_cb[Cur(u)] = w
      BY <1>3, <2>2
    <3>2. Cur(t) = Cur(u)
      BY <1>1, <3>1 DEF LocalsOnce
    <3> QED
      BY <3>1, <3>2 DEF IInv, ThreadsApart
  <2> QED
    BY <2>1, <2>2
<1>10. Placed(w) => w \notin done
  BY <1>1, <1>4 DEF Placed, Pending
<1> QED
  BY <1>6, <1>7, <1>8, <1>9, <1>10

\* A set with at most one member
LEMMA OneOrNone ==
  ASSUME NEW S, \A x, y \in S : x = y
  PROVE  Cardinality(S) = IF S = {} THEN 0 ELSE 1
<1>1. CASE S = {}
  BY <1>1, FS_EmptySet
<1>2. CASE S # {}
  <2>1. PICK x \in S : TRUE
    BY <1>2
  <2>2. S = {x}
    BY <2>1
  <2> QED
    BY <1>2, <2>2, FS_Singleton
<1> QED
  BY <1>1, <1>2

\* The callback of a sleep() that is not over is in one place, any other nowhere
LEMMA CarriedOnce ==
  ASSUME RInv, NEW w \in Wakers
  PROVE  Carriers(w) = IF Live(w) THEN 1 ELSE 0
<1> USE DEF RInv, ReactCore
<1> DEFINE C == {t \in Threads : w \in cbs[t]}
           L == {i \in 1 .. Len(m_fibers) : m_fibers[i].cb = w}
           O == {t \in Threads : OnThread(t, w)}
<1>1. /\ Placed(w) <=> L # {} \/ O # {}
      /\ L # {} => O = {}
      /\ \A i, k \in L : i = k
      /\ \A t, u \in O : t = u
      /\ Placed(w) => w \notin done
  BY WakerPlaces
<1>2. /\ C # {} => w \notin m_timers /\ ~Placed(w) /\ w \notin done
      /\ w \in m_timers => ~Placed(w) /\ w \notin done
      /\ \A t, u \in C : t = u
  BY DEF OutsideInv, Aside
<1>3. /\ Live(w) => w \in m_timers \/ Placed(w) \/ C # {}
      /\ wakes[w] = NoFiber => w \notin m_timers /\ ~Placed(w) /\ C = {}
  BY DEF WakerInv
<1>4. /\ Carriers(w) = (IF w \in m_timers THEN 1 ELSE 0) + Cardinality(C) + Cardinality(L) + Cardinality(O)
      /\ Live(w) <=> wakes[w] # NoFiber /\ w \notin done
  BY DEF Carriers, Live
<1> HIDE DEF C, L, O
<1>5. /\ Cardinality(C) = IF C = {} THEN 0 ELSE 1
      /\ Cardinality(L) = IF L = {} THEN 0 ELSE 1
      /\ Cardinality(O) = IF O = {} THEN 0 ELSE 1
  BY <1>1, <1>2, OneOrNone
<1> HIDE DEF RInv, ReactCore
<1> QED
  BY <1>1, <1>2, <1>3, <1>4, <1>5

\* A fiber that waits has one who will resume it
LEMMA WaitersHaveOne ==
  ASSUME RInv, NEW f \in Fibers
  PROVE  Cardinality({e \in m_events : e.fiber = f})
           + Cardinality({w \in Wakers : Live(w) /\ wakes[w] = f})
         = IF f \in armed THEN 1 ELSE 0
<1> USE DEF RInv, ReactCore
<1> DEFINE E == {e \in m_events : e.fiber = f}
           W == {w \in Wakers : Live(w) /\ wakes[w] = f}
<1>1. f # NoFiber /\ FiberEntry(f, AnyThread).fiber = f
  BY DEF Fibers, NoFiber, FiberEntry
<1>2. /\ \A e \in E : e = FiberEntry(f, AnyThread) /\ f \in armed
      /\ \A v, w \in W : v = w
      /\ \A w \in W : f \in armed /\ FiberEntry(f, AnyThread) \notin m_events
      /\ f \in armed => E # {} \/ W # {}
  BY <1>1 DEF EventInv, AwaitInv
<1>3. \A e \in E : FiberEntry(f, AnyThread) \in m_events
  BY <1>2
<1>4. /\ Cardinality(E) = IF E = {} THEN 0 ELSE 1
      /\ Cardinality(W) = IF W = {} THEN 0 ELSE 1
  <2> HIDE DEF E, W
  <2> QED
    BY <1>2, OneOrNone
<1>5. E # {} => W = {} /\ f \in armed
  BY <1>2, <1>3
<1>6. W # {} => f \in armed
  BY <1>2
<1>7. Cardinality(E) + Cardinality(W) = IF f \in armed THEN 1 ELSE 0
  <2> HIDE DEF E, W, RInv, ReactCore
  <2> QED
    BY <1>2, <1>4, <1>5, <1>6
<1> QED
  BY <1>7

\* Types of the reactor's variables
THEOREM ReactorTypeCorrect ==
  ASSUME EarlyWake => OneThread
  PROVE  ReactorSpec => []ReactorTypeOK
<1>1. RInv => ReactorTypeOK
  <2> SUFFICES ASSUME RInv PROVE ReactorTypeOK
    OBVIOUS
  <2>1. Cardinality(m_events) \in Nat /\ Cardinality(Owing) \in Nat
    BY OwingFinite, FS_CardinalityType DEF FiniteInv, RInv, ReactCore
  <2>2. m_pendingEventCount \in Nat
    BY <2>1 DEF RInv, ReactCore, PendingCovers, Owing
  <2> QED
    BY <2>2 DEF RInv, ReactCore, IInv, PollTypeOK, ReactorTypeOK
<1> QED
  BY <1>1, ReactorInvariance, PTL

\* The count by which stopping() knows of events covers the registered ones and
\* those triggered but not yet counted out, so it is never too low, and never
\* wraps below zero.
THEOREM EventsCounted ==
  ASSUME EarlyWake => OneThread
  PROVE  ReactorSpec => []PendingCovers
<1>1. RInv => PendingCovers
  BY DEF RInv, ReactCore
<1> QED
  BY <1>1, ReactorInvariance, PTL

\* A fiber that waits in sleep() or for an event has exactly one who will resume
\* it, and the callback of a sleep() is in exactly one place until it has run.
THEOREM OneWakerEach ==
  ASSUME EarlyWake => OneThread
  PROVE  ReactorSpec => []OneWaker
<1>1. RInv => OneWaker
  BY CarriedOnce, WaitersHaveOne DEF OneWaker
<1> QED
  BY <1>1, ReactorInvariance, PTL

\* What the scheduler guarantees it guarantees with the polling idle fiber too:
\* no fiber is on two threads' stacks, and no assertion fails.
THEOREM ReactorExclusive ==
  ASSUME EarlyWake => OneThread
  PROVE  ReactorSpec => [](ExclusiveExecution /\ NoAbort)
<1>1. RInv => ExclusiveExecution /\ NoAbort
  BY OwnershipExcludes DEF RInv, IInv
<1> QED
  BY <1>1, ReactorInvariance, PTL

-----------------------------------------------------------------------------
(* stop() returns only when the timers are drained.                         *)

\* The fibers a step does not end, park or start keep their state and their job
LEMMA StateKept ==
  ASSUME StateInv,
         \A f \in Fibers :
           \/ m_state'[f] = m_state[f] /\ m_cb'[f] = m_cb[f]
           \/ m_state'[f] \in {"INIT", "TERM", "EXCEPT"}
           \/ m_state'[f] \in {"HOLD", "EXEC"} /\ m_cb'[f] \in Jobs
           \/ m_state'[f] = "READY" /\ GiveWay /\ m_cb'[f] \in Jobs
  PROVE  StateInv'
  BY DEF StateInv

\* A thread in run() other than the caller's in stop()
LEMMA ThreadFlag ==
  ASSUME RInv, FlagInv, NEW t \in Threads, pc[t] # "none", UNCHANGED <<main, m_stopping>>,
         \A u \in Threads \ {t} :
           pc'[u] = pc[u] /\ idleState'[u] = idleState[u] /\ step'[u] = step[u],
         step'[Caller] = step[Caller] \/ t = Caller,
         idleState'[t] = "TERM" => idleState[t] = "TERM" \/ step[t] = "true",
         step'[t] = "true" => step[t] = "true" \/ m_stopping,
         pc'[t] # "none", pc'[t] = "idling" => idleState'[t] = "EXEC",
         pc'[t] = "exit" => idleState'[t] = "TERM"
  PROVE  FlagInv'
<1> USE ConstAssumption DEF FlagInv
<1>1. main # "inRun" /\ UseCaller => t # Caller /\ Caller \in Threads
  BY DEF RInv, IInv, MainInv, Threads
<1>2. ~UseCaller => t # Caller
  BY DEF Threads
<1>3. Workers \subseteq Threads
  BY DEF Threads
<1> QED
  BY <1>1, <1>2, <1>3

\* The caller of a pool without workers is in run() only after stopCheck
LEMMA ThreadLone ==
  ASSUME RInv, NEW t \in Threads, pc[t] # "none", main' = main
  PROVE  LoneInv'
<1>1. ~(main = "stopCheck" /\ Workers = {})
  BY ConstAssumption DEF RInv, IInv, MainInv, Threads
<1> QED
  BY <1>1 DEF LoneInv

\* A thread with an entry, or one that finds one: somebody else is still in play
LEMMA BusyStop ==
  ASSUME RInv, StopInv, NEW t \in Threads, UNCHANGED <<main, m_stopping, idleState, step>>,
         pc[t] \in {"dispatch", "exec", "hold", "swapOut"} \/ (pc[t] = "pick" /\ m_fibers # <<>>),
         pc'[t] \notin {"none", "idling", "exit"}, \A u \in Threads \ {t} : pc'[u] = pc[u], StateInv'
  PROVE  StopInv'
<1> USE DEF StopInv
<1>1. FlagInv'
  BY ThreadFlag DEF FlagInv
<1>2. LoneInv'
  BY ThreadLone
<1>3. QuietInv'
  <2> SUFFICES ASSUME Draining
               PROVE  \E u \in Threads : InPlay(u)' /\ ~AtEnd(u)'
    BY DEF QuietInv, Draining
  <2>1. t \in ActiveThreads \/ m_fibers # <<>>
    BY DEF ActiveThreads
  <2>2. PICK u \in Threads : InPlay(u) /\ ~AtEnd(u)
    BY <2>1 DEF QuietInv
  <2>3. InPlay(u)' /\ ~AtEnd(u)'
    BY <2>2 DEF InPlay, AtEnd
  <2> QED
    BY <2>3
<1> QED
  BY <1>1, <1>2, <1>3

\* A thread that lets go of what it had and turns to the list, to idle() or out
LEMMA CalmStop ==
  ASSUME RInv, StopInv, NEW t \in Threads, UNCHANGED <<main, m_stopping, m_fibers, m_timers, step>>,
         pc[t] \in {"pick", "settle", "sethold"},
         \/ pc'[t] \in {"pick", "sethold"} /\ idleState'[t] = idleState[t]
         \/ pc'[t] = "exit" /\ idleState[t] = "TERM" /\ idleState'[t] = "TERM"
         \/ pc'[t] = "idling" /\ idleState[t] # "TERM" /\ idleState'[t] = "EXEC",
         \A u \in Threads \ {t} : pc'[u] = pc[u] /\ idleState'[u] = idleState[u], StateInv'
  PROVE  StopInv'
<1> USE DEF StopInv
<1>1. step[t] = "timers"
  BY DEF RInv, ReactCore, StepInv
<1>2. FlagInv'
  BY ThreadFlag DEF FlagInv
<1>3. LoneInv'
  BY ThreadLone
<1>4. \A u \in Threads : (InPlay(u)' <=> InPlay(u)) /\ (AtEnd(u)' <=> AtEnd(u))
  BY <1>1 DEF InPlay, AtEnd
<1>5. ActiveThreads' = ActiveThreads
  BY DEF ActiveThreads
<1>6. QuietInv'
  BY <1>4, <1>5 DEF QuietInv, Draining
<1> QED
  BY <1>2, <1>3, <1>6

\* A thread that stays in play, and has not found stopping() true
LEMMA PlayStop ==
  ASSUME RInv, StopInv, NEW t \in Threads, UNCHANGED <<main, m_stopping>>, pc[t] = "idling",
         pc'[t] \in {"idling", "pick"}, step'[t] # "true", idleState'[t] # "TERM",
         pc'[t] = "idling" => idleState'[t] = "EXEC",
         \A u \in Threads \ {t} :
           pc'[u] = pc[u] /\ idleState'[u] = idleState[u] /\ step'[u] = step[u],
         step'[Caller] = step[Caller] \/ t = Caller, StateInv'
  PROVE  StopInv'
<1> USE DEF StopInv
<1>1. FlagInv'
  BY ThreadFlag
<1>2. LoneInv'
  BY ThreadLone
<1>3. InPlay(t)' /\ ~AtEnd(t)'
  BY DEF InPlay, AtEnd
<1>4. QuietInv'
  BY <1>3 DEF QuietInv
<1> QED
  BY <1>1, <1>2, <1>4

\* run(), its idle fiber apart
LEMMA PoolStop ==
  ASSUME RInv, StopInv, OnlyInv, GiveWay => OneThread, RInv', NEW t \in Threads, PoolStep(t)
  PROVE  StopInv'
<1> USE ConstAssumption
        DEF callerVars, fiberVars, jobVars, pollVars, SettleFrame, SwapIn, RInv, IInv, StopInv
<1>1. /\ UNCHANGED <<main, m_stopping, m_timers, step>> /\ fault' = "none"
      /\ pc \in [Threads -> PcSet] /\ m_state \in [Fibers -> FiberState]
      /\ m_cb \in [Fibers -> Jobs \cup {NoJob}] /\ idleState \in [Threads -> FiberState]
  BY DEF PoolStep, Pick, PickNothing, RunFiber, RunCallbackReuse, RunCallbackNew, SwapOut,
         Requeue, Finish, NoteHold, SetHold, TypeOK, NoAbort
<1>2. pc[t] \in {"settle", "sethold"} => Cur(t) \in Fibers
  BY DEF LocalsInv, SwappedIn, AtWork, Cur, TypeOK, Entry
<1>3. CASE Pick(t)
  <2>1. StateInv'
    BY <1>3, StateKept DEF Pick
  <2>2. m_fibers # <<>>
    BY <1>3 DEF Pick, Candidates
  <2> QED
    BY <1>1, <1>3, <2>1, <2>2, BusyStop DEF Pick
<1>4. CASE PickNothing(t)
  <2>1. StateInv'
    BY <1>4, StateKept DEF PickNothing
  <2> QED
    BY <1>1, <1>4, <2>1, CalmStop DEF PickNothing
<1>5. CASE RunFiber(t)
  <2>1. StateInv'
    <3>1. ft[t].fiber \in Fibers /\ m_cb[ft[t].fiber] \in Jobs
      BY <1>5 DEF RunFiber, LocalsInv, TypeOK, Entry
    <3> QED
      BY <1>1, <1>5, <3>1, StateKept DEF RunFiber
  <2> QED
    BY <1>1, <1>5, <2>1, BusyStop DEF RunFiber
<1>6. CASE RunCallbackReuse(t)
  <2>1. StateInv'
    <3>1. cbFiber[t] \in Fibers /\ ft[t].cb \in Jobs
      BY <1>6 DEF RunCallbackReuse, LocalsInv, TypeOK, Entry
    <3> QED
      BY <1>1, <1>6, <3>1, StateKept DEF RunCallbackReuse
  <2> QED
    BY <1>1, <1>6, <2>1, BusyStop DEF RunCallbackReuse
<1>7. CASE RunCallbackNew(t)
  <2>1. StateInv'
    <3>1. s_fiber_id + 1 \in Fibers /\ ft[t].cb \in Jobs
      BY <1>7 DEF RunCallbackNew, LocalsInv, TypeOK, Fibers
    <3> QED
      BY <1>1, <1>7, <3>1, StateKept DEF RunCallbackNew
  <2> QED
    BY <1>1, <1>7, <2>1, BusyStop DEF RunCallbackNew
<1>8. CASE SwapOut(t)
  <2>1. StateInv'
    BY <1>8, StateKept DEF SwapOut
  <2> QED
    BY <1>1, <1>8, <2>1, BusyStop DEF SwapOut
<1>9. CASE Requeue(t)
  <2>1. GiveWay
    BY <1>2, <1>9 DEF Requeue, StateInv
  <2>2. pc[t] = "settle" /\ pc' = [pc EXCEPT ![t] = "pick"] /\ UNCHANGED <<m_state, m_cb, idleState>>
    BY <1>9 DEF Requeue
  <2>3. StateInv'
    BY <2>2, StateKept
  <2>4. pc'[t] = "pick" /\ \A u \in Threads \ {t} : pc'[u] = pc[u]
    BY <1>1, <2>2
  <2>5. FlagInv'
    BY <1>1, <2>2, <2>4, ThreadFlag
  <2>6. LoneInv'
    BY <1>1, <2>2, ThreadLone
  <2>7. InPlay(t)' /\ ~AtEnd(t)'
    BY <2>1, <2>2, <2>4 DEF InPlay, AtEnd, OnlyInv
  <2>8. QuietInv'
    BY <2>7 DEF QuietInv
  <2> QED
    BY <2>3, <2>5, <2>6, <2>8
<1>10. CASE Finish(t)
  <2>1. StateInv'
    <3>1. ft[t].fiber = NoFiber => cbFiber[t] \in Fibers
      BY <1>2, <1>10 DEF Finish, Cur
    <3> QED
      BY <1>1, <1>10, <3>1, StateKept DEF Finish
  <2> QED
    BY <1>1, <1>10, <2>1, CalmStop DEF Finish
<1>11. CASE NoteHold(t)
  <2>1. StateInv'
    BY <1>11, StateKept DEF NoteHold
  <2> QED
    BY <1>1, <1>11, <2>1, CalmStop DEF NoteHold
<1>12. CASE SetHold(t)
  <2>1. StateInv'
    <3>1. m_cb[Cur(t)] \in Jobs
      BY <1>12 DEF SetHold, LocalsInv
    <3> QED
      BY <1>1, <1>2, <1>12, <3>1, StateKept DEF SetHold
  <2> QED
    BY <1>1, <1>12, <2>1, CalmStop DEF SetHold
<1> QED
  BY <1>3, <1>4, <1>5, <1>6, <1>7, <1>8, <1>9, <1>10, <1>11, <1>12 DEF PoolStep

\* What jobs do: their thread is active, so somebody is in play
LEMMA JobStop ==
  ASSUME RInv, StopInv, NEW t \in Threads, JobStep(t)
  PROVE  StopInv'
<1> USE ConstAssumption DEF callerVars, jobVars, pollVars, BodyFrame, RInv, IInv, StopInv
<1>1. /\ pc \in [Threads -> PcSet] /\ m_state \in [Fibers -> FiberState]
      /\ m_cb \in [Fibers -> Jobs \cup {NoJob}] /\ s_fiber_id \in 0 .. MaxFibers
  BY DEF TypeOK
<1>2. pc[t] \in {"exec", "hold"} => Cur(t) \in Fibers /\ m_cb[Cur(t)] \in Jobs
  BY DEF LocalsInv, SwappedIn, AtWork, Cur, TypeOK, Entry
<1>3. CASE AddTimer(t) \/ AddEvent(t)
  <2>1. /\ UNCHANGED <<main, m_stopping, idleState, step, m_state, m_cb, pc>> /\ pc[t] = "exec"
    BY <1>3 DEF AddTimer, NewTimer, AddEvent, Register, UserCode, fiberVars
  <2> QED
    BY <2>1, StateKept, BusyStop
<1>4. CASE AwaitEvent(t) \/ Sleep(t)
  <2>1. /\ UNCHANGED <<main, m_stopping, idleState, step, m_state, m_cb>>
        /\ pc[t] = "exec" /\ pc' = [pc EXCEPT ![t] = "hold"]
    BY <1>4 DEF AwaitEvent, Sleep, Register, Arm
  <2> QED
    BY <1>1, <2>1, StateKept, BusyStop
<1>5. CASE SleepOver(t) \/ (Return(t) /\ UNCHANGED pollVars)
  <2>1. /\ UNCHANGED <<main, m_stopping, idleState, step>>
        /\ pc[t] = "exec" /\ pc' = [pc EXCEPT ![t] = "swapOut"]
        /\ m_state' = [m_state EXCEPT ![Cur(t)] = "TERM"]
        /\ m_cb' = [m_cb EXCEPT ![Cur(t)] = NoJob]
    BY <1>5 DEF SleepOver, Return
  <2>2. StateInv'
    BY <1>1, <1>2, <2>1, StateKept
  <2> QED
    BY <1>1, <2>1, <2>2, BusyStop
<1>6. CASE Spawn(t) /\ UNCHANGED pollVars
  <2>1. /\ UNCHANGED <<main, m_stopping, idleState, step, pc>> /\ pc[t] = "exec"
    BY <1>6 DEF Spawn
  <2>2. StateInv'
    <3>1. PICK j \in Fresh, thr \in SpawnPins : ScheduleCb(j, thr) \/ ScheduleFiber(j, thr)
      BY <1>6 DEF Spawn
    <3>2. CASE ScheduleCb(j, thr)
      BY <3>2, StateKept DEF ScheduleCb, fiberVars
    <3>3. CASE ScheduleFiber(j, thr)
      <4>1. s_fiber_id + 1 \in Fibers
        BY <1>1, <3>3 DEF ScheduleFiber, NewFiber, Fibers
      <4> QED
        BY <1>1, <3>3, <4>1, StateKept DEF ScheduleFiber, NewFiber
    <3> QED
      BY <3>1, <3>2, <3>3
  <2> QED
    BY <2>1, <2>2, BusyStop
<1>7. CASE YieldToHold(t) /\ UNCHANGED pollVars
  <2>1. /\ UNCHANGED <<main, m_stopping, idleState, step, m_cb>>
        /\ pc[t] = "hold" /\ pc' = [pc EXCEPT ![t] = "swapOut"]
        /\ m_state' = [m_state EXCEPT ![Cur(t)] = "HOLD"]
    BY <1>7 DEF YieldToHold
  <2>2. StateInv'
    BY <1>1, <1>2, <2>1, StateKept
  <2> QED
    BY <1>1, <2>1, <2>2, BusyStop
<1>8. CASE GiveWay /\ YieldToReady(t) /\ UNCHANGED pollVars
  <2>1. /\ UNCHANGED <<main, m_stopping, idleState, step, m_cb>>
        /\ pc[t] = "exec" /\ pc' = [pc EXCEPT ![t] = "swapOut"]
        /\ m_state' = [m_state EXCEPT ![Cur(t)] = "READY"]
    BY <1>8 DEF YieldToReady
  <2>2. StateInv'
    BY <1>1, <1>2, <1>8, <2>1, StateKept
  <2> QED
    BY <1>1, <2>1, <2>2, BusyStop
<1> QED
  BY <1>3, <1>4, <1>5, <1>6, <1>7, <1>8 DEF JobStep

\* A turn of idle()
LEMMA IdleStop ==
  ASSUME RInv, StopInv, NEW t \in Threads, IdleStep(t)
  PROVE  StopInv'
<1> USE ConstAssumption DEF RInv, IInv, ReactCore, StopInv
<1>1. /\ pc \in [Threads -> PcSet] /\ step \in [Threads \cup {Caller} -> Steps]
      /\ idleState \in [Threads -> FiberState] /\ pc[t] = "idling" /\ idleState[t] = "EXEC"
  BY DEF TypeOK, PollTypeOK, IdleStep, FlagInv
<1>2. UNCHANGED <<main, m_stopping, m_state, m_cb>>
  BY DEF IdleStep, ReadTimers, ReadPending, ReadPool, Read, IdleEnds, Poll, Hand, Dispatch, Uncount,
         PassOver, IdleYields, LeaveIdle, IdleFrame, callerVars, vars
<1>3. StateInv'
  BY <1>2, StateKept
<1>4. CASE ReadPool(t) /\ Stopping
  <2>1. /\ UNCHANGED vars /\ step' = [step EXCEPT ![t] = "true"] /\ m_timers' = m_timers
    BY <1>4 DEF ReadPool, Read, Goto
  <2>2. /\ step'[t] = "true" /\ \A u \in Threads \ {t} : step'[u] = step[u]
        /\ step'[Caller] = step[Caller] \/ t = Caller
    BY <1>1, <2>1
  <2>3. m_stopping /\ m_fibers = <<>> /\ ActiveThreads = {}
    BY <1>4, ThreadSetsFinite, FS_EmptySet DEF Stopping, CountsExact
  <2>4. FlagInv'
    BY <1>1, <1>2, <2>1, <2>2, <2>3, ThreadFlag DEF vars
  <2>5. LoneInv'
    BY <1>1, <1>2, ThreadLone
  <2>6. QuietInv'
    <3>1. m_fibers' = <<>> /\ ActiveThreads' = {} /\ InPlay(t)'
      BY <1>1, <2>1, <2>3 DEF vars, ActiveThreads, InPlay
    <3> QED
      BY <3>1 DEF QuietInv
  <2> QED
    BY <1>3, <2>4, <2>5, <2>6
<1>5. CASE ReadTimers(t) \/ ReadPending(t) \/ (ReadPool(t) /\ ~Stopping)
  <2>1. PICK s \in {"pending", "pool", "false"} : step' = [step EXCEPT ![t] = s]
    BY <1>5 DEF ReadTimers, ReadPending, ReadPool, Read, Goto
  <2>2. UNCHANGED <<pc, idleState>>
    BY <1>5 DEF ReadTimers, ReadPending, ReadPool, Read, vars
  <2>3. step'[t] # "true" /\ \A u \in Threads \cup {Caller} : u # t => step'[u] = step[u]
    BY <1>1, <2>1
  <2> QED
    BY <1>1, <1>2, <1>3, <2>2, <2>3, PlayStop
<1>6. CASE Poll(t) \/ Hand(t) \/ Dispatch(t) \/ Uncount(t) \/ PassOver(t)
  <2>1. PICK s \in {"hand", "dispatch", "uncount"} : step' = [step EXCEPT ![t] = s]
    <3>1. CASE PassOver(t)
      <4>1. step[t] = "dispatch" /\ step' = step
        BY <3>1 DEF PassOver
      <4>2. step' = [step EXCEPT ![t] = "dispatch"]
        BY <1>1, <4>1
      <4> QED
        BY <4>2
    <3>2. CASE ~PassOver(t)
      BY <1>6, <3>2 DEF Poll, Hand, Dispatch, Uncount, Goto
    <3> QED
      BY <3>1, <3>2
  <2>2. UNCHANGED <<pc, idleState>>
    BY <1>6 DEF Poll, Hand, Dispatch, Uncount, PassOver, PollFrame
  <2>3. step'[t] # "true" /\ \A u \in Threads \cup {Caller} : u # t => step'[u] = step[u]
    BY <1>1, <2>1
  <2> QED
    BY <1>1, <1>2, <1>3, <2>2, <2>3, PlayStop
<1>7. ASSUME NEW s \in {"TERM", "HOLD"}, LeaveIdle(t, s)
      PROVE  /\ pc'[t] = "pick" /\ idleState'[t] = s /\ step'[t] = "timers"
             /\ \A u \in Threads \ {t} : pc'[u] = pc[u] /\ idleState'[u] = idleState[u]
             /\ \A u \in Threads \cup {Caller} : u # t => step'[u] = step[u]
             /\ UNCHANGED <<m_fibers, m_timers>>
  BY <1>1, <1>7 DEF LeaveIdle, Goto
<1>8. CASE IdleYields(t)
  BY <1>1, <1>2, <1>3, <1>7, <1>8, PlayStop DEF IdleYields
<1>9. CASE IdleEnds(t)
  <2>1. /\ pc'[t] = "pick" /\ idleState'[t] = "TERM" /\ step'[t] = "timers"
        /\ \A u \in Threads \ {t} : pc'[u] = pc[u] /\ idleState'[u] = idleState[u]
        /\ \A u \in Threads \cup {Caller} : u # t => step'[u] = step[u]
        /\ UNCHANGED <<m_fibers, m_timers>> /\ step[t] = "true" /\ m_timers = {}
    BY <1>7, <1>9 DEF IdleEnds, NoTimerLeft
  <2>2. FlagInv'
    BY <1>1, <1>2, <2>1, ThreadFlag
  <2>3. LoneInv'
    BY <1>1, <1>2, ThreadLone
  <2>4. QuietInv'
    <3>1. ActiveThreads' = ActiveThreads
      BY <1>1, <2>1 DEF ActiveThreads
    <3>2. AtEnd(t) /\ \A u \in Threads \ {t} : (InPlay(u)' <=> InPlay(u)) /\ (AtEnd(u)' <=> AtEnd(u))
      BY <1>1, <2>1 DEF AtEnd, InPlay
    <3>3. (\A u \in Threads : InPlay(u)' => AtEnd(u)') => (\A u \in Threads : InPlay(u) => AtEnd(u))
      BY <3>2
    <3> QED
      BY <1>2, <2>1, <3>1, <3>3 DEF QuietInv, Draining
  <2> QED
    BY <1>3, <2>2, <2>3, <2>4
<1> QED
  BY <1>4, <1>5, <1>6, <1>8, <1>9 DEF IdleStep

\* The caller hands out work only before it calls stop()
LEMMA CallerFreeStop ==
  ASSUME RInv, StopInv, CallerSubmits \/ CallerAddsTimer
  PROVE  StopInv'
<1> USE ConstAssumption, ReactorAssumption DEF RInv, StopInv
<1>1. main = "started"
  BY DEF CallerSubmits, CallerAddsTimer, CallerFree, FlagInv, IInv, MainInv, TypeOK
<1>2. UNCHANGED <<main, m_stopping, pc, idleState, step, m_state, m_cb>>
  BY DEF CallerSubmits, CallerAddsTimer, NewTimer, ScheduleCb, BodyFrame, callerVars, fiberVars, pollVars
<1>3. StateInv'
  BY <1>2, StateKept
<1>4. FlagInv'
  BY <1>2 DEF FlagInv
<1>5. QuietInv' /\ LoneInv'
  BY <1>1, <1>2 DEF QuietInv, LoneInv, Draining
<1> QED
  BY <1>3, <1>4, <1>5

\* The caller reads stopping() in stop()
LEMMA CallerReadsStop ==
  ASSUME RInv, StopInv, CallerReads
  PROVE  StopInv'
<1> USE ConstAssumption DEF RInv, IInv, ReactCore, StopInv
<1>1. CASE Caller \in Threads /\ pc[Caller] = "idling"
  <2>1. fault = "none"
    BY DEF NoAbort
  <2> QED
    BY <1>1, <2>1, IdleStop DEF CallerReads, IdleStep
<1>2. CASE ~(Caller \in Threads /\ pc[Caller] = "idling")
  <2>1. UseCaller /\ main = "stopCheck" /\ Caller \in Threads /\ pc[Caller] = "none"
    BY <1>2 DEF CallerReads, ReadTimers, ReadPending, ReadPool, Read, Evaluates, Threads, MainInv
  <2>2. UNCHANGED <<vars, m_timers>>
    BY DEF CallerReads, ReadTimers, ReadPending, ReadPool, Read
  <2>3. step \in [Threads \cup {Caller} -> Steps]
    BY DEF PollTypeOK
  <2>4. /\ \A u \in Threads \ {Caller} : step'[u] = step[u]
        /\ \/ step[Caller] = "timers" /\ (step'[Caller] = "pending" => m_timers = {})
              /\ step'[Caller] \in {"pending", "false"}
           \/ step[Caller] = "pending" /\ step'[Caller] \in {"pool", "false"}
           \/ step[Caller] = "pool" /\ (step'[Caller] = "true" => Stopping)
              /\ step'[Caller] \in {"true", "false"}
    BY <2>3 DEF CallerReads, ReadTimers, ReadPending, ReadPool, Read, Goto
  <2>5. Stopping => m_fibers = <<>> /\ ActiveThreads = {}
    BY ThreadSetsFinite, FS_EmptySet DEF Stopping, CountsExact
  <2>6. ActiveThreads' = ActiveThreads /\ \A u \in Threads : InPlay(u)' <=> InPlay(u)
    BY <2>2 DEF vars, ActiveThreads, InPlay
  <2>7. \A u \in Threads : AtEnd(u)' <=> AtEnd(u)
    BY <2>1, <2>2, <2>4 DEF vars, AtEnd
  <2>8. StateInv'
    BY <2>2, StateKept DEF vars
  <2>9. FlagInv'
    BY <2>1, <2>2 DEF FlagInv, vars
  <2>10. QuietInv'
    BY <2>2, <2>6, <2>7 DEF QuietInv, Draining, vars
  <2>11. LoneInv'
    BY <2>1, <2>2, <2>4, <2>5, <2>6 DEF LoneInv, vars
  <2> QED
    BY <2>8, <2>9, <2>10, <2>11
<1> QED
  BY <1>1, <1>2

\* stop() from its call to the return
LEMMA StopStop ==
  ASSUME RInv, StopInv,
         StopCalled \/ StopEarly \/ StopGoesOn \/ StopEntersRun \/ StopJoins
         \/ ((RootReturns \/ Join) /\ UNCHANGED pollVars)
  PROVE  StopInv'
<1> USE ConstAssumption, ReactorAssumption DEF RInv, IInv, ReactCore, StopInv
<1>1. UNCHANGED <<m_fibers, m_timers, idleState, m_state, m_cb, m_activeThreadCount>>
  BY DEF StopCalled, StopBegins, StopEarly, StopReturnsEarly, StopGoesOn, StopEntersRun, StopJoins,
         RootReturns, Join, StopFrame, fiberVars, pollVars
<1>2. StateInv'
  BY <1>1, StateKept
<1>3. /\ pc \in [Threads -> PcSet] /\ step \in [Threads \cup {Caller} -> Steps]
      /\ Workers \subseteq Threads /\ (UseCaller => Caller \in Threads)
      /\ Threads \subseteq Workers \cup {Caller}
  BY DEF TypeOK, PollTypeOK, Threads
<1>4. CASE StopCalled
  <2>1. main = "started" /\ main' = "stop" /\ UNCHANGED <<m_stopping, pc, step>>
    BY <1>4 DEF StopCalled, StopBegins, pollVars
  <2>2. FlagInv'
    BY <1>1, <2>1 DEF FlagInv
  <2> QED
    BY <1>2, <2>1, <2>2 DEF QuietInv, LoneInv, Draining
<1>5. CASE StopEarly
  <2>1. /\ main = "stop" /\ main' = "stopped" /\ UNCHANGED <<pc, step>> /\ m_timers = {}
        /\ m_fibers = <<>> /\ m_activeThreadCount = 0
    BY <1>5 DEF StopEarly, StopReturnsEarly, NothingToRun, NothingPending, pollVars
  <2>2. ActiveThreads' = {}
    <3>1. ActiveThreads = {}
      BY <2>1, ThreadSetsFinite, FS_EmptySet DEF CountsExact
    <3> QED
      BY <2>1, <3>1 DEF ActiveThreads
  <2>3. FlagInv'
    BY <1>1, <2>1 DEF FlagInv
  <2> QED
    BY <1>1, <1>2, <2>1, <2>2, <2>3 DEF QuietInv, LoneInv
<1>6. CASE StopGoesOn
  <2>1. main = "stop" /\ main' = "stopCheck" /\ UNCHANGED <<pc, step>>
    BY <1>6 DEF StopGoesOn, pollVars
  <2>2. FlagInv'
    BY <1>1, <1>3, <2>1 DEF FlagInv
  <2>3. QuietInv'
    <3> SUFFICES ASSUME NEW w \in Workers
                 PROVE  \E t \in Threads : InPlay(t)' /\ ~AtEnd(t)'
      BY <2>1 DEF QuietInv, Draining
    <3>1. InPlay(w)' /\ ~AtEnd(w)'
      BY <1>1, <1>3, <2>1 DEF InPlay, AtEnd, FlagInv
    <3> QED
      BY <1>3, <3>1
  <2>4. LoneInv'
    BY <2>1 DEF LoneInv, FlagInv
  <2> QED
    BY <1>2, <2>2, <2>3, <2>4
<1>7. CASE StopEntersRun
  <2>1. /\ main = "stopCheck" /\ main' = "inRun" /\ UseCaller
        /\ pc' = [pc EXCEPT ![Caller] = "pick"] /\ step' = [step EXCEPT ![Caller] = "timers"]
        /\ m_stopping' = m_stopping
    BY <1>7 DEF StopEntersRun, Goto
  <2>2. /\ pc'[Caller] = "pick" /\ \A t \in Threads \ {Caller} : pc'[t] = pc[t]
        /\ step'[Caller] = "timers"
    BY <1>3, <2>1
  <2>3. FlagInv'
    BY <1>1, <2>1, <2>2 DEF FlagInv
  <2>4. InPlay(Caller)' /\ ~AtEnd(Caller)'
    BY <1>1, <2>1, <2>2 DEF InPlay, AtEnd, FlagInv
  <2>5. QuietInv' /\ LoneInv'
    BY <1>3, <2>1, <2>4 DEF QuietInv, LoneInv
  <2> QED
    BY <1>2, <2>3, <2>5
<1>8. CASE StopJoins
  <2>1. /\ main = "stopCheck" /\ main' = "join" /\ UNCHANGED <<pc, step, m_stopping>>
        /\ (UseCaller => step[Caller] = "true")
    BY <1>8 DEF StopJoins, pollVars
  <2>2. FlagInv'
    BY <1>1, <2>1 DEF FlagInv
  <2>3. /\ ActiveThreads' = ActiveThreads
        /\ \A t \in Threads : (InPlay(t)' <=> InPlay(t)) /\ (AtEnd(t)' <=> AtEnd(t))
    BY <1>1, <2>1 DEF ActiveThreads, InPlay, AtEnd
  <2>4. CASE Workers = {}
    <3>1. m_timers = {} /\ m_fibers = <<>> /\ ActiveThreads = {}
      BY <2>1, <2>4 DEF LoneInv
    <3> QED
      BY <1>1, <1>2, <2>1, <2>2, <2>3, <3>1 DEF QuietInv, LoneInv
  <2>5. CASE Workers # {}
    BY <1>1, <1>2, <2>1, <2>2, <2>3, <2>5 DEF QuietInv, LoneInv, Draining
  <2> QED
    BY <2>4, <2>5
<1>9. CASE (RootReturns \/ Join) /\ UNCHANGED pollVars
  <2>1. /\ main \in {"inRun", "join"} /\ main' \in {"join", "stopped"}
        /\ UNCHANGED <<step, m_stopping>>
        /\ \A t \in Threads : pc'[t] = pc[t] \/ (pc[t] = "exit" /\ pc'[t] = "none")
    BY <1>3, <1>9 DEF RootReturns, Join, AllExited, pollVars
  <2>2. FlagInv'
    BY <1>1, <2>1 DEF FlagInv
  <2>3. \A t \in Threads : (InPlay(t)' <=> InPlay(t)) /\ (AtEnd(t)' <=> AtEnd(t))
    BY <1>1, <2>1 DEF InPlay, AtEnd, FlagInv
  <2>4. ActiveThreads' = ActiveThreads
    BY <2>1 DEF ActiveThreads
  <2> QED
    BY <1>1, <1>2, <2>1, <2>2, <2>3, <2>4 DEF QuietInv, LoneInv, Draining
<1> QED
  BY <1>4, <1>5, <1>6, <1>7, <1>8, <1>9

\* The constructor has not called stop()
LEMMA ReactorInitStop == ASSUME ReactorInit PROVE StopInv
<1> USE ConstAssumption DEF ReactorInit
<1>1. FlagInv
  BY DEF FlagInv, Threads
<1>2. StateInv
  BY DEF StateInv
<1>3. QuietInv /\ LoneInv
  BY DEF QuietInv, LoneInv, Draining
<1> QED
  BY <1>1, <1>2, <1>3 DEF StopInv

\* Every step of the reactor keeps StopInv
LEMMA ReactorNextStop ==
  ASSUME EarlyWake => OneThread, GiveWay => OneThread, RInv, RInv', StopInv, OnlyInv, [ReactorNext]_reactVars
  PROVE  StopInv'
<1>1. CASE CallerSubmits \/ CallerAddsTimer
  BY <1>1, CallerFreeStop
<1>2. CASE StopCalled
  BY <1>2, StopStop
<1>3. CASE StopProceeds
  BY <1>3, StopStop, CallerReadsStop DEF StopProceeds
<1>4. ASSUME NEW t \in Threads, ThreadStep(t)
      PROVE  StopInv'
  BY <1>4, PoolStop, IdleStop, JobStop DEF ThreadStep
<1>5. CASE UNCHANGED reactVars
  <2>1. UNCHANGED <<vars, m_timers, step>>
    BY <1>5 DEF reactVars, pollVars
  <2>2. FlagInv' /\ StateInv'
    BY <2>1 DEF vars, StopInv, FlagInv, StateInv
  <2>3. QuietInv' /\ LoneInv'
    BY <2>1 DEF vars, StopInv, QuietInv, LoneInv, Draining, ActiveThreads, InPlay, AtEnd
  <2> QED
    BY <2>2, <2>3 DEF StopInv
<1> QED
  BY <1>1, <1>2, <1>3, <1>4, <1>5 DEF ReactorNext, Stopped

\* When stop() has returned nothing is left, and what waits waits for an event
LEMMA StoppedDrained == ASSUME RInv, StopInv PROVE TimersDrained
<1> USE ConstAssumption, ReactorAssumption DEF RInv, IInv, JobCore, ReactCore, StopInv
<1> SUFFICES ASSUME main = "stopped" PROVE
      /\ m_timers = {} /\ m_fibers = <<>>
      /\ \A f \in 1 .. s_fiber_id : Settled(f) \/ \E e \in m_events : e.fiber = f
  BY DEF TimersDrained
<1>1. \A t \in Threads : pc[t] = "none"
  BY DEF MainInv, Threads
<1>2. m_timers = {} /\ m_fibers = <<>>
  BY <1>1 DEF QuietInv, Draining, InPlay
<1>3. \A w \in Wakers : ~Live(w)
  <2> SUFFICES ASSUME NEW w \in Wakers, Live(w) PROVE FALSE
    OBVIOUS
  <2>1. \A t \in Threads : ~OnThread(t, w) /\ w \notin cbs[t]
    BY <1>1 DEF OnThread, StepInv
  <2>2. 1 .. Len(m_fibers) = {}
    BY <1>2
  <2>3. ~Placed(w)
    BY <2>1, <2>2, WakerPlaces
  <2> QED
    BY <1>2, <2>1, <2>3 DEF WakerInv
<1>4. \A f \in armed : \E e \in m_events : e.fiber = f
  <2> TAKE f \in armed
  <2>1. FiberEntry(f, AnyThread) \in m_events /\ FiberEntry(f, AnyThread).fiber = f
    BY <1>3 DEF AwaitInv, FiberEntry
  <2> QED
    BY <2>1
<1>5. ASSUME NEW f \in 1 .. s_fiber_id, ~Settled(f)
      PROVE  f \in armed
  <2>1. f \in Fibers
    BY DEF TypeOK, Fibers
  <2>2. m_state[f] \in {"READY", "HOLD", "EXEC"}
    BY <1>5, <2>1 DEF Settled, TypeOK, FiberState
  <2>3. m_cb[f] \in Jobs \ done
    BY <2>1, <2>2 DEF StateInv, Pending
  <2>4. 1 .. Len(m_fibers) = {} /\ \A t \in Threads : ~AtWork(t)
    BY <1>1, <1>2 DEF AtWork
  <2> QED
    BY <2>1, <2>3, <2>4 DEF FiberPlaced
<1> QED
  BY <1>2, <1>4, <1>5

\* The first evaluation of stopping() is still to come
LEMMA ReactorInitOnly == ASSUME ReactorInit PROVE OnlyInv
<1> USE ConstAssumption DEF ReactorInit
<1>1. \A t \in Threads : idleState[t] # "TERM"
  OBVIOUS
<1>2. m_pendingEventCount = 0
  OBVIOUS
<1> QED
  BY <1>1, <1>2 DEF OnlyInv

\* A thread in run() is the only one: nobody evaluates stopping() meanwhile
LEMMA OnlyBusy ==
  ASSUME RInv, StopInv, OnlyInv, OneThread, NEW t \in Threads, pc[t] # "none"
  PROVE  /\ Threads = {t} /\ ~(main = "join" /\ Workers = {}) /\ main # "stopped"
         /\ ~(Evaluates(Caller) /\ t # Caller)
         /\ (Evaluates(Caller) => pc[t] = "idling")
<1> USE ConstAssumption DEF RInv, IInv, StopInv
<1>1. Threads = {t}
  BY DEF OneThread
<1>2. main # "stopped"
  BY DEF MainInv, Threads
<1>3. ~(main = "join" /\ Workers = {})
  BY DEF MainInv, Threads
<1>4. UseCaller => t = Caller
  BY <1>1 DEF Threads
<1>5. ~(Evaluates(Caller) /\ t # Caller)
  BY <1>1, <1>4 DEF Evaluates
<1>6. Evaluates(Caller) => pc[t] = "idling"
  BY <1>1, <1>4 DEF Evaluates, MainInv
<1> QED
  BY <1>1, <1>2, <1>3, <1>5, <1>6

\* Nothing it speaks of comes about
LEMMA OnlyStays ==
  ASSUME OnlyInv, m_pendingEventCount' = m_pendingEventCount,
         \A t \in Threads : idleState'[t] = "TERM" =>
           idleState[t] = "TERM" /\ (pc'[t] = pc[t] \/ pc'[t] \in {"exit", "none"}),
         \A t \in Threads \cup {Caller} : Evaluates(t)' /\ step'[t] \in {"pool", "true"} =>
           Evaluates(t) /\ step[t] \in {"pool", "true"},
         main' \in {"join", "stopped"} => main' = main
  PROVE  OnlyInv'
BY DEF OnlyInv, OneThread

\* run(), its idle fiber apart
LEMMA PoolOnly ==
  ASSUME RInv, StopInv, OnlyInv, OneThread, NEW t \in Threads, PoolStep(t)
  PROVE  OnlyInv'
<1> USE DEF RInv, IInv, StopInv, callerVars, fiberVars, jobVars, pollVars, SettleFrame, SwapIn
<1>1. pc \in [Threads -> PcSet] /\ idleState \in [Threads -> FiberState]
  BY DEF TypeOK
<1>2. pc[t] \notin {"none", "idling"}
  BY DEF PoolStep, Pick, PickNothing, RunFiber, RunCallbackReuse, RunCallbackNew, SwapOut,
         Requeue, Finish, NoteHold, SetHold
<1>3. /\ Threads = {t} /\ ~(main = "join" /\ Workers = {}) /\ main # "stopped" /\ ~Evaluates(Caller)
  BY <1>2, OnlyBusy
<1>4. step[t] = "timers"
  BY <1>2 DEF ReactCore, StepInv
<1>5. UNCHANGED <<main, m_pendingEventCount, step>>
  BY DEF PoolStep, Pick, PickNothing, RunFiber, RunCallbackReuse, RunCallbackNew, SwapOut,
         Requeue, Finish, NoteHold, SetHold
<1>6. idleState'[t] = "TERM" => idleState[t] = "TERM" /\ pc'[t] = "exit"
  <2>1. CASE PickNothing(t)
    BY <1>1, <2>1 DEF PickNothing
  <2>2. CASE ~PickNothing(t)
    <3>1. idleState' = idleState /\ (pc[t] = "pick" => Pick(t))
      BY <2>2 DEF PoolStep, Pick, RunFiber, RunCallbackReuse, RunCallbackNew, SwapOut,
                  Requeue, Finish, NoteHold, SetHold
    <3>2. ASSUME idleState[t] = "TERM", Pick(t) PROVE FALSE
      <4>1. \A u \in Threads : ~InPlay(u)
        BY <1>3, <3>2 DEF InPlay
      <4>2. Draining
        <5>1. main \notin {"started", "stop"}
          BY <3>2 DEF FlagInv
        <5>2. Workers = {} => main # "stopCheck"
          <6>1. Workers = {} => UseCaller /\ t = Caller
            BY <1>3, ConstAssumption DEF Threads
          <6> QED
            BY <3>2, <6>1 DEF FlagInv
        <5> QED
          BY <5>1, <5>2 DEF Draining, FlagInv
      <4>3. m_fibers = <<>>
        BY <4>1, <4>2 DEF QuietInv
      <4> QED
        BY <3>2, <4>3 DEF Pick, Candidates
    <3>3. idleState[t] = "TERM" => pc[t] = "pick"
      <4>1. pc[t] # "exit"
        BY DEF PoolStep, Pick, PickNothing, RunFiber, RunCallbackReuse, RunCallbackNew, SwapOut,
               Requeue, Finish, NoteHold, SetHold
      <4> QED
        BY <1>2, <4>1 DEF OnlyInv
    <3> QED
      BY <3>1, <3>2, <3>3
  <2> QED
    BY <2>1, <2>2
<1>7. \A u \in Threads \cup {Caller} : ~(Evaluates(u)' /\ step'[u] \in {"pool", "true"})
  <2>1. ~Evaluates(Caller)' \/ t = Caller
    BY <1>3, <1>5 DEF Evaluates
  <2> QED
    BY <1>3, <1>4, <1>5, <2>1
<1> QED
  BY <1>3, <1>5, <1>6, <1>7, OnlyStays

\* What jobs do: the only thread is busy
LEMMA JobOnly ==
  ASSUME RInv, StopInv, OnlyInv, OneThread, NEW t \in Threads, JobStep(t)
  PROVE  OnlyInv'
<1> USE DEF RInv, IInv, StopInv, callerVars, fiberVars, jobVars, pollVars, BodyFrame
<1>1. pc \in [Threads -> PcSet]
  BY DEF TypeOK
<1>2. pc[t] \in {"exec", "hold"} /\ pc'[t] \in {"exec", "hold", "swapOut"}
      /\ UNCHANGED <<main, idleState>>
  BY <1>1 DEF JobStep, AddTimer, NewTimer, AddEvent, AwaitEvent, Sleep, SleepOver, UserCode, Return,
              Spawn, YieldToReady, YieldToHold, Arm, Register
<1>3. /\ Threads = {t} /\ ~(main = "join" /\ Workers = {}) /\ main # "stopped" /\ ~Evaluates(Caller)
  BY <1>2, OnlyBusy
<1>4. idleState'[t] # "TERM"
  BY <1>2 DEF OnlyInv
<1>5. \A u \in Threads \cup {Caller} : ~Evaluates(u)'
  <2>1. ~(UseCaller /\ main = "stopCheck")
    BY <1>3 DEF Evaluates
  <2> QED
    BY <1>2, <1>3, <2>1 DEF Evaluates
<1> QED
  BY <1>2, <1>3, <1>4, <1>5 DEF OnlyInv

\* stopping(), read by whoever evaluates it
LEMMA ReadsOnly ==
  ASSUME RInv, StopInv, OnlyInv, OneThread, NEW t \in Threads \cup {Caller},
         ReadTimers(t) \/ ReadPending(t) \/ ReadPool(t)
  PROVE  OnlyInv'
<1>1. /\ UNCHANGED <<vars, m_pendingEventCount>> /\ Evaluates(t)
      /\ step \in [Threads \cup {Caller} -> Steps]
  BY DEF ReadTimers, ReadPending, ReadPool, Read, RInv, ReactCore, PollTypeOK
<1>2. UNCHANGED <<main, pc, idleState>> /\ \A u \in Threads \cup {Caller} : Evaluates(u)' <=> Evaluates(u)
  BY <1>1 DEF vars, callerVars, Evaluates
<1>3. /\ \A u \in Threads \cup {Caller} : u # t => step'[u] = step[u]
      /\ step'[t] \in {"pool", "true"} => step[t] = "pool" \/ m_pendingEventCount = 0
  BY <1>1 DEF ReadTimers, ReadPending, ReadPool, Read, Goto
<1> QED
  BY <1>1, <1>2, <1>3 DEF OnlyInv, OneThread

\* A turn of idle()
LEMMA IdleOnly ==
  ASSUME RInv, StopInv, OnlyInv, OneThread, NEW t \in Threads, IdleStep(t)
  PROVE  OnlyInv'
<1> USE DEF RInv, IInv, ReactCore, StopInv
<1>1. /\ pc \in [Threads -> PcSet] /\ step \in [Threads \cup {Caller} -> Steps]
      /\ idleState \in [Threads -> FiberState] /\ pc[t] = "idling" /\ idleState[t] = "EXEC"
  BY DEF TypeOK, PollTypeOK, IdleStep, FlagInv
<1>2. UNCHANGED main
  BY DEF IdleStep, ReadTimers, ReadPending, ReadPool, Read, IdleEnds, Poll, Hand, Dispatch, Uncount,
         PassOver, IdleYields, LeaveIdle, IdleFrame, callerVars, vars
<1>3. /\ Threads = {t} /\ ~(main = "join" /\ Workers = {}) /\ main # "stopped"
      /\ ~(Evaluates(Caller) /\ t # Caller)
  BY <1>1, OnlyBusy
<1>4. ~(Evaluates(Caller)' /\ t # Caller)
  BY <1>2, <1>3 DEF Evaluates, Threads
<1>5. CASE ReadTimers(t) \/ ReadPending(t) \/ ReadPool(t)
  BY <1>5, ReadsOnly
<1>6. CASE Poll(t) \/ Hand(t) \/ Dispatch(t) \/ Uncount(t) \/ PassOver(t)
  <2>1. step'[t] \in {"hand", "dispatch", "uncount"} /\ UNCHANGED idleState
    <3>1. CASE PassOver(t)
      BY <3>1 DEF PassOver, PollFrame
    <3>2. CASE ~PassOver(t)
      BY <1>1, <1>6, <3>2 DEF Poll, Hand, Dispatch, Uncount, Goto, PollFrame
    <3> QED
      BY <3>1, <3>2
  <2> QED
    BY <1>1, <1>2, <1>3, <1>4, <2>1 DEF OnlyInv
<1>7. CASE IdleYields(t) \/ IdleEnds(t)
  <2>1. /\ pc'[t] = "pick" /\ step'[t] = "timers" /\ m_pendingEventCount' = m_pendingEventCount
        /\ idleState'[t] = "TERM" => step[t] = "true"
    BY <1>1, <1>7 DEF IdleYields, IdleEnds, LeaveIdle, Goto
  <2>2. Evaluates(t)
    BY <1>1 DEF Evaluates
  <2> QED
    BY <1>2, <1>3, <1>4, <2>1, <2>2 DEF OnlyInv
<1> QED
  BY <1>5, <1>6, <1>7 DEF IdleStep

\* The caller, in stop() and before
LEMMA CallerOnly ==
  ASSUME RInv, StopInv, OnlyInv, OneThread,
         CallerSubmits \/ CallerAddsTimer \/ StopCalled \/ StopProceeds
  PROVE  OnlyInv'
<1> USE ConstAssumption DEF RInv, IInv, ReactCore, StopInv
<1>1. /\ pc \in [Threads -> PcSet] /\ step \in [Threads \cup {Caller} -> Steps]
      /\ (Workers = {} => UseCaller) /\ (UseCaller => Caller \in Threads) /\ Workers \subseteq Threads
  BY DEF TypeOK, PollTypeOK, Threads
<1>2. CASE CallerSubmits \/ CallerAddsTimer
  <2>1. UNCHANGED <<main, pc, idleState, step, m_pendingEventCount>>
    BY <1>2 DEF CallerSubmits, CallerAddsTimer, NewTimer, ScheduleCb, BodyFrame, callerVars, fiberVars,
                pollVars
  <2> QED
    BY <2>1, OnlyStays DEF Evaluates
<1>3. CASE StopCalled
  <2>1. /\ UNCHANGED <<pc, idleState, step, m_pendingEventCount>>
        /\ main = "started" /\ main' = "stop"
    BY <1>3 DEF StopCalled, StopBegins, StopFrame, pollVars
  <2> QED
    BY <2>1, OnlyStays DEF Evaluates
<1>4. CASE StopEarly
  <2>1. /\ UNCHANGED <<pc, idleState, step, m_pendingEventCount>>
        /\ main' = "stopped" /\ m_pendingEventCount = 0
    BY <1>4 DEF StopEarly, StopReturnsEarly, StopFrame, NothingPending, pollVars
  <2> QED
    BY <2>1 DEF OnlyInv, Evaluates
<1>5. CASE StopGoesOn
  <2>1. /\ UNCHANGED <<pc, idleState, step, m_pendingEventCount>>
        /\ main = "stop" /\ main' = "stopCheck"
    BY <1>5 DEF StopGoesOn, StopFrame, pollVars
  <2>2. step[Caller] = "timers"
    BY <2>1 DEF FlagInv
  <2> QED
    BY <2>1, <2>2, OnlyStays DEF Evaluates
<1>6. CASE CallerReads
  BY <1>6, ReadsOnly DEF CallerReads
<1>7. CASE StopEntersRun
  <2>1. /\ UNCHANGED <<idleState, m_pendingEventCount>> /\ UseCaller
        /\ main = "stopCheck" /\ main' = "inRun"
        /\ pc' = [pc EXCEPT ![Caller] = "pick"] /\ step' = [step EXCEPT ![Caller] = "timers"]
    BY <1>7 DEF StopEntersRun, StopFrame, Goto
  <2>2. Threads = {Caller} /\ idleState[Caller] # "TERM"
    BY <1>1, <2>1 DEF OneThread, FlagInv
  <2>3. pc'[Caller] = "pick" /\ step'[Caller] = "timers"
    BY <1>1, <2>1, <2>2
  <2> QED
    BY <2>1, <2>2, <2>3 DEF OnlyInv
<1>8. CASE StopJoins
  <2>1. /\ UNCHANGED <<pc, idleState, step, m_pendingEventCount>>
        /\ main = "stopCheck" /\ main' = "join" /\ (UseCaller => step[Caller] = "true")
    BY <1>8 DEF StopJoins, StopFrame, pollVars
  <2>2. Workers = {} => m_pendingEventCount = 0
    BY <1>1, <2>1 DEF OnlyInv, Evaluates
  <2>3. \A u \in Threads \cup {Caller} : Evaluates(u)' => Evaluates(u)
    BY <2>1 DEF Evaluates
  <2> QED
    BY <2>1, <2>2, <2>3 DEF OnlyInv, OneThread
<1>9. CASE (RootReturns \/ Join) /\ UNCHANGED pollVars
  <2>1. /\ UNCHANGED <<idleState, step, m_pendingEventCount>>
        /\ main \in {"inRun", "join"} /\ main' \in {"join", "stopped"}
        /\ \A u \in Threads : pc'[u] = pc[u] \/ (pc[u] = "exit" /\ pc'[u] = "none")
    BY <1>1, <1>9 DEF RootReturns, Join, AllExited, StopFrame, pollVars
  <2>2. (main' = "join" /\ Workers = {}) \/ main' = "stopped" => m_pendingEventCount = 0
    <3>1. CASE RootReturns
      <4>1. Caller \in Threads /\ idleState[Caller] = "TERM"
        BY <1>1, <3>1 DEF RootReturns, FlagInv, MainInv
      <4> QED
        BY <4>1 DEF OnlyInv
    <3>2. CASE Join
      <4>1. CASE Workers = {}
        BY <3>2, <4>1 DEF Join, OnlyInv
      <4>2. CASE Workers # {}
        <5>1. PICK w \in Workers : pc[w] = "exit"
          BY <3>2, <4>2 DEF Join, AllExited
        <5>2. w \in Threads /\ idleState[w] = "TERM"
          BY <1>1, <5>1 DEF FlagInv
        <5> QED
          BY <5>2 DEF OnlyInv
      <4> QED
        BY <4>1, <4>2
    <3> QED
      BY <1>9, <3>1, <3>2
  <2>3. \A u \in Threads \cup {Caller} : Evaluates(u)' => Evaluates(u)
    BY <2>1 DEF Evaluates
  <2>4. \A u \in Threads : idleState[u] = "TERM" => pc'[u] \in {"pick", "exit", "none"}
    BY <2>1 DEF OnlyInv
  <2> QED
    BY <2>1, <2>2, <2>3, <2>4 DEF OnlyInv, OneThread
<1> QED
  BY <1>2, <1>3, <1>4, <1>5, <1>6, <1>7, <1>8, <1>9 DEF StopProceeds

\* Every step of the reactor keeps OnlyInv
LEMMA ReactorNextOnly ==
  ASSUME RInv, StopInv, OnlyInv, [ReactorNext]_reactVars
  PROVE  OnlyInv'
<1>1. CASE ~OneThread
  BY <1>1 DEF OnlyInv, OneThread
<1>2. CASE OneThread
  <2>1. ASSUME NEW t \in Threads, ThreadStep(t)
        PROVE  OnlyInv'
    BY <1>2, <2>1, PoolOnly, IdleOnly, JobOnly DEF ThreadStep
  <2>2. CASE UNCHANGED reactVars
    <3>1. UNCHANGED <<main, pc, idleState, step, m_pendingEventCount>>
      BY <2>2 DEF reactVars, pollVars, vars
    <3> QED
      BY <3>1, OnlyStays DEF Evaluates
  <2> QED
    BY <1>2, <2>1, <2>2, CallerOnly DEF ReactorNext, Stopped
<1> QED
  BY <1>1, <1>2

\* All of it together
ReactorInv == RInv /\ StopInv /\ OnlyInv

LEMMA InitReactor == ASSUME ReactorInit PROVE ReactorInv
  BY ReactorInitRInv, ReactorInitStop, ReactorInitOnly DEF ReactorInv

LEMMA NextReactor ==
  ASSUME EarlyWake => OneThread, GiveWay => OneThread, ReactorInv, [ReactorNext]_reactVars
  PROVE  ReactorInv'
  BY ReactorNextRInv, ReactorNextStop, ReactorNextOnly DEF ReactorInv

\* What stop() leaves follows
LEMMA StoppedLeaves ==
  ASSUME ReactorInv
  PROVE  NothingLeft
<1> USE DEF ReactorInv
<1>1. TimersDrained
  BY StoppedDrained
<1>2. ASSUME OneThread, main = "stopped" PROVE m_events = {}
  <2>1. m_pendingEventCount = 0
    BY <1>2 DEF OnlyInv
  <2>2. IsFiniteSet(m_events) /\ IsFiniteSet(Owing)
    BY OwingFinite DEF RInv, ReactCore, FiniteInv
  <2>3. Cardinality(m_events) \in Nat /\ Cardinality(Owing) \in Nat
    BY <2>2, FS_CardinalityType
  <2>4. Cardinality(m_events) + Cardinality(Owing) = 0
    BY <2>1 DEF RInv, ReactCore, PendingCovers, Owing
  <2>5. Cardinality(m_events) = 0
    BY <2>3, <2>4
  <2> QED
    BY <2>2, <2>5, FS_EmptySet
<1>3. ASSUME OneThread, main = "stopped", NEW f \in 1 .. s_fiber_id PROVE Settled(f)
  BY <1>1, <1>2, <1>3 DEF TimersDrained
<1> QED
  BY <1>1, <1>2, <1>3 DEF NothingLeft, EventsDrained, OnlyInv

\* Where jobs do not call YieldToReady(), stop() returns only when no timer and
\* no entry is left and every fiber has ended, is new, or waits for an event
\* that is still registered, whatever the other threads do meanwhile.  Where
\* there is one thread, jobs may do so, and no event is left either: no job
\* is lost and no suspended fiber leaked.
THEOREM StopLeavesNothing ==
  ASSUME EarlyWake => OneThread, GiveWay => OneThread
  PROVE  ReactorSpec => []NothingLeft
<1>1. ReactorInit => ReactorInv
  BY InitReactor
<1>2. ReactorInv /\ [ReactorNext]_reactVars => ReactorInv'
  BY NextReactor
<1>3. ReactorInv => NothingLeft
  BY StoppedLeaves
<1> QED
  BY <1>1, <1>2, <1>3, PTL DEF ReactorSpec

\* The part of it that concerns several threads
THEOREM StopDrainsTimers ==
  ASSUME EarlyWake => OneThread, GiveWay => OneThread
  PROVE  ReactorSpec => []TimersDrained
<1>1. NothingLeft => TimersDrained
  BY DEF NothingLeft
<1> QED
  BY <1>1, StopLeavesNothing, PTL
=============================================================================
