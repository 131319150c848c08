------------------------------ MODULE JobProofs ------------------------------
(***************************************************************************)
(* Proofs that no job is lost or run twice by the scheduler, that stop()   *)
(* drains it, and that it implements TaskPool, for every pool, set of jobs *)
(* and bound.  On top of IInv, which says who owns a fiber, JobInv says    *)
(* where the job is that a fiber or an entry stands for.                   *)
(***************************************************************************)
EXTENDS SchedulerProofs

\* An entry holds a fiber or a callback, not both, and run() clears its local
\* entry's callback once a fiber has taken it over
EntryShape ==
  /\ \A i \in 1 .. Len(m_fibers) : m_fibers[i].fiber # NoFiber => m_fibers[i].cb = NoJob
  /\ \A t \in Threads : ft[t].fiber # NoFiber \/ pc[t] # "dispatch" => ft[t].cb = NoJob

\* A cb_fiber that is not swapped in, and a fiber not made yet, has no job
SpareEmpty ==
  /\ \A t \in Threads :
       cbFiber[t] # NoFiber /\ (SwappedIn(t) => Cur(t) # cbFiber[t]) =>
         m_cb[cbFiber[t]] = NoJob
  /\ \A f \in Fibers : f > s_fiber_id => m_cb[f] = NoJob

\* No job is in two entries, in two fibers, or in an entry and in a fiber
EntriesOnce ==
  /\ \A i, k \in 1 .. Len(m_fibers) :
       i # k /\ m_fibers[i].cb # NoJob => m_fibers[i].cb # m_fibers[k].cb
  /\ \A i \in 1 .. Len(m_fibers), t \in Threads :
       m_fibers[i].cb # NoJob => m_fibers[i].cb # ft[t].cb
  /\ \A i \in 1 .. Len(m_fibers), f \in Fibers :
       m_fibers[i].cb # NoJob => m_fibers[i].cb # m_cb[f]

LocalsOnce ==
  /\ \A t, u \in Threads : t # u /\ ft[t].cb # NoJob => ft[t].cb # ft[u].cb
  /\ \A t \in Threads, f \in Fibers : ft[t].cb # NoJob => ft[t].cb # m_cb[f]
  /\ \A f, g \in Fibers : f # g /\ m_cb[f] # NoJob => m_cb[f] # m_cb[g]

\* Entries hold submitted jobs that have not ended; so do fibers, unless they
\* have ended with an exception
Pending ==
  /\ done \subseteq submitted
  /\ \A i \in 1 .. Len(m_fibers) :
       m_fibers[i].cb # NoJob => m_fibers[i].cb \in submitted \ done
  /\ \A t \in Threads : ft[t].cb # NoJob => ft[t].cb \in submitted \ done
  /\ \A f \in Fibers :
       /\ m_cb[f] # NoJob => m_cb[f] \in submitted
       /\ m_cb[f] \in done => m_state[f] = "EXCEPT"
       /\ m_state[f] \in {"TERM", "EXCEPT"} => m_cb[f] \in done \cup {NoJob}

\* A fiber with an unfinished job is in the list, on a thread or armed
FiberPlaced ==
  \A f \in Fibers : m_cb[f] \in Jobs \ done =>
    \/ \E i \in 1 .. Len(m_fibers) : m_fibers[i].fiber = f
    \/ \E t \in Threads : AtWork(t) /\ Cur(t) = f
    \/ f \in armed /\ Parked(f)

\* A submitted job that has not ended is in an entry or in a fiber
JobPlaced ==
  \A j \in submitted \ done :
    \/ \E i \in 1 .. Len(m_fibers) : m_fibers[i].cb = j
    \/ \E t \in Threads : ft[t].cb = j
    \/ \E f \in Fibers : m_cb[f] = j

\* Somebody has been asked to resume fiber f, and may have done so already
Asked(f) == f \in armed \/ \E i \in 1 .. Len(m_fibers) : m_fibers[i].fiber = f

\* A job waits only when somebody has been asked to resume it
HoldArmed ==
  \A t \in Threads :
    /\ pc[t] \in {"hold", "sethold"} => Asked(Cur(t))
    /\ pc[t] \in {"swapOut", "settle"} /\ m_state[Cur(t)] = "HOLD" => Asked(Cur(t))

\* Without JobPlaced this holds of IOManager's scheduler too, whose jobs may
\* also be timers and events
JobCore ==
  /\ EntryShape /\ SpareEmpty /\ EntriesOnce /\ LocalsOnce
  /\ Pending /\ FiberPlaced /\ HoldArmed

JobInv == JobCore /\ JobPlaced

-----------------------------------------------------------------------------
\* A turn of idle() touches no job
LEMMA IdleJob ==
  ASSUME IInv, JobCore, NEW t \in Threads,
         pc[t] = "idling", pc' = [pc EXCEPT ![t] = "pick"],
         UNCHANGED <<m_fibers, callerVars, ft, cbFiber, fiberVars, jobVars>>
  PROVE  JobCore' /\ (JobPlaced => JobPlaced')
<1> USE ConstAssumption DEF IInv, JobCore, NoFiber, Fibers, callerVars, fiberVars, jobVars
<1>1. EntryShape'
  BY DEF EntryShape, TypeOK
<1>2. SpareEmpty'
  BY DEF SpareEmpty, LocalsInv, ThreadsApart, Held, SwappedIn, AtWork, Cur, TypeOK, Entry
<1>3. EntriesOnce'
  BY DEF EntriesOnce, TypeOK
<1>4. LocalsOnce'
  BY DEF LocalsOnce, TypeOK
<1>5. Pending'
  BY DEF Pending, TypeOK
<1>6. FiberPlaced'
  BY ZenonT(60) DEF FiberPlaced, Parked, SwappedIn, AtWork, Cur, TypeOK
<1>7. JobPlaced => JobPlaced'
  BY DEF JobPlaced, TypeOK
<1>8. HoldArmed'
  BY DEF HoldArmed, Asked, SwappedIn, AtWork, Cur, TypeOK
<1> QED
  BY <1>1, <1>2, <1>3, <1>4, <1>5, <1>6, <1>7, <1>8

\* A thread that takes nothing holds no job
LEMMA PickNothingJob ==
  ASSUME IInv, JobCore, NEW t \in Threads, PickNothing(t)
  PROVE  JobCore' /\ (JobPlaced => JobPlaced')
<1> USE ConstAssumption DEF IInv, JobCore, NoFiber, Fibers, PickNothing, callerVars, fiberVars, jobVars
<1>1. EntryShape'
  BY DEF EntryShape, TypeOK
<1>2. SpareEmpty'
  BY DEF SpareEmpty, LocalsInv, ThreadsApart, Held, SwappedIn, AtWork, Cur, TypeOK, Entry
<1>3. EntriesOnce'
  BY DEF EntriesOnce, TypeOK
<1>4. LocalsOnce'
  BY DEF LocalsOnce, TypeOK
<1>5. Pending'
  BY DEF Pending, TypeOK
<1>6. FiberPlaced'
  <2> SUFFICES ASSUME NEW f \in Fibers, (m_cb[f] \in Jobs \ done)'
               PROVE  \/ \E i \in 1 .. Len(m_fibers') : m_fibers'[i].fiber = f
                      \/ \E u \in Threads : AtWork(u)' /\ Cur(u)' = f
                      \/ f \in armed' /\ Parked(f)'
    BY DEF FiberPlaced
  <2>1. \A u \in Threads : AtWork(u) => AtWork(u)' /\ Cur(u)' = Cur(u)
    BY DEF AtWork, Cur, TypeOK
  <2>2. Parked(f) => Parked(f)'
    BY DEF Parked, TypeOK
  <2> QED
    BY <2>1, <2>2 DEF FiberPlaced
<1>7. JobPlaced => JobPlaced'
  BY DEF JobPlaced, TypeOK
<1>8. HoldArmed'
  <2>1. \A u \in Threads :
          pc'[u] \in {"hold", "sethold", "swapOut", "settle"} => pc[u] = pc'[u] /\ Cur(u)' = Cur(u)
    BY DEF Cur, TypeOK
  <2> QED
    BY <2>1 DEF HoldArmed, Asked
<1> QED
  BY <1>1, <1>2, <1>3, <1>4, <1>5, <1>6, <1>7, <1>8

\* swapIn() of a picked fiber
LEMMA RunFiberJob ==
  ASSUME IInv, JobCore, NEW t \in Threads, RunFiber(t)
  PROVE  JobCore' /\ (JobPlaced => JobPlaced')
<1> USE ConstAssumption DEF IInv, JobCore, NoFiber, Fibers, RunFiber, callerVars, jobVars, SwapIn
<1>1. EntryShape'
  BY DEF EntryShape, TypeOK
<1>2. SpareEmpty'
  BY DEF SpareEmpty, LocalsInv, ThreadsApart, Held, SwappedIn, AtWork, Cur, TypeOK, Entry
<1>3. EntriesOnce'
  BY DEF EntriesOnce, TypeOK
<1>4. LocalsOnce'
  BY DEF LocalsOnce, TypeOK
<1>5. Pending'
  BY ZenonT(60) DEF Pending, LocalsOnce, ResumableState, LocalsInv, ThreadsApart, Held, SwappedIn, AtWork, Cur, TypeOK, Entry
<1>6. FiberPlaced'
  BY SMTT(30) DEF FiberPlaced, Parked, SwappedIn, AtWork, Cur, TypeOK
<1>7. JobPlaced => JobPlaced'
  BY DEF JobPlaced, TypeOK
<1>8. HoldArmed'
  BY DEF HoldArmed, Asked, SwappedIn, AtWork, Cur, TypeOK
<1> QED
  BY <1>1, <1>2, <1>3, <1>4, <1>5, <1>6, <1>7, <1>8

\* A job that gives way stays on its thread until it is queued
LEMMA YieldToReadyJob ==
  ASSUME IInv, JobCore, NEW t \in Threads, YieldToReady(t)
  PROVE  JobCore' /\ (JobPlaced => JobPlaced')
<1> USE ConstAssumption DEF IInv, JobCore, NoFiber, Fibers, YieldToReady, BodyFrame, callerVars, MayYield, CountYield
<1>1. EntryShape'
  BY DEF EntryShape, TypeOK
<1>2. SpareEmpty'
  BY DEF SpareEmpty, LocalsInv, ThreadsApart, Held, SwappedIn, AtWork, Cur, TypeOK, Entry
<1>3. EntriesOnce'
  BY DEF EntriesOnce, TypeOK
<1>4. LocalsOnce'
  BY DEF LocalsOnce, TypeOK
<1>5. Pending'
  BY DEF Pending, LocalsOnce, ResumableState, LocalsInv, ThreadsApart, Held, SwappedIn, AtWork, Cur, TypeOK, Entry
<1>6. FiberPlaced'
  <2> SUFFICES ASSUME NEW f \in Fibers, (m_cb[f] \in Jobs \ done)'
               PROVE  \/ \E i \in 1 .. Len(m_fibers') : m_fibers'[i].fiber = f
                      \/ \E u \in Threads : AtWork(u)' /\ Cur(u)' = f
                      \/ f \in armed' /\ Parked(f)'
    BY DEF FiberPlaced
  <2>1. \A u \in Threads : AtWork(u) => AtWork(u)' /\ Cur(u)' = Cur(u)
    BY DEF AtWork, Cur, TypeOK
  <2>2. Parked(f) => Parked(f)'
    BY DEF Parked, TypeOK
  <2> QED
    BY <2>1, <2>2 DEF FiberPlaced
<1>7. JobPlaced => JobPlaced'
  BY DEF JobPlaced, TypeOK
<1>8. HoldArmed'
  BY DEF HoldArmed, Asked, SpareInv, LocalsInv, ThreadsApart, Held, SwappedIn, AtWork, Cur, TypeOK, Entry
<1> QED
  BY <1>1, <1>2, <1>3, <1>4, <1>5, <1>6, <1>7, <1>8

\* A job that asks to be resumed is still on its thread
LEMMA ArmJob ==
  ASSUME IInv, JobCore, NEW t \in Threads, Arm(t)
  PROVE  JobCore' /\ (JobPlaced => JobPlaced')
<1> USE ConstAssumption DEF IInv, JobCore, NoFiber, Fibers, Arm, BodyFrame, callerVars, MayYield, CountYield
<1>1. EntryShape'
  BY DEF EntryShape, TypeOK
<1>2. SpareEmpty'
  BY DEF SpareEmpty, LocalsInv, ThreadsApart, Held, SwappedIn, AtWork, Cur, TypeOK, Entry
<1>3. EntriesOnce'
  BY DEF EntriesOnce, TypeOK
<1>4. LocalsOnce'
  BY DEF LocalsOnce, TypeOK
<1>5. Pending'
  BY DEF Pending, TypeOK
<1>6. FiberPlaced'
  <2> SUFFICES ASSUME NEW f \in Fibers, (m_cb[f] \in Jobs \ done)'
               PROVE  \/ \E i \in 1 .. Len(m_fibers') : m_fibers'[i].fiber = f
                      \/ \E u \in Threads : AtWork(u)' /\ Cur(u)' = f
                      \/ f \in armed' /\ Parked(f)'
    BY DEF FiberPlaced
  <2>1. \A u \in Threads : AtWork(u) => AtWork(u)' /\ Cur(u)' = Cur(u)
    BY DEF AtWork, Cur, TypeOK
  <2>2. Parked(f) => Parked(f)'
    BY DEF Parked, TypeOK
  <2> QED
    BY <2>1, <2>2 DEF FiberPlaced, TypeOK
<1>7. JobPlaced => JobPlaced'
  BY DEF JobPlaced, TypeOK
<1>8. HoldArmed'
  BY DEF HoldArmed, Asked, SwappedIn, AtWork, Cur, TypeOK
<1> QED
  BY <1>1, <1>2, <1>3, <1>4, <1>5, <1>6, <1>7, <1>8

\* A job that waits has been armed before
LEMMA YieldToHoldJob ==
  ASSUME EarlyInv, JobCore, NEW t \in Threads, YieldToHold(t)
  PROVE  JobCore' /\ (JobPlaced => JobPlaced')
<1> USE ConstAssumption DEF EarlyInv, JobCore, NoFiber, Fibers, YieldToHold, BodyFrame, callerVars, jobVars
<1>1. EntryShape'
  BY DEF EntryShape, TypeOK
<1>2. SpareEmpty'
  BY DEF SpareEmpty, LocalsInv, ThreadsApart, Held, SwappedIn, AtWork, Cur, TypeOK, Entry
<1>3. EntriesOnce'
  BY DEF EntriesOnce, TypeOK
<1>4. LocalsOnce'
  BY DEF LocalsOnce, TypeOK
<1>5. Pending'
  BY DEF Pending, LocalsOnce, ResumableState, LocalsInv, ThreadsApart, Held, SwappedIn, AtWork, Cur, TypeOK, Entry
<1>6. FiberPlaced'
  BY SMTT(30) DEF FiberPlaced, Parked, SwappedIn, AtWork, Cur, TypeOK
<1>7. JobPlaced => JobPlaced'
  BY DEF JobPlaced, TypeOK
<1>8. HoldArmed'
  BY DEF HoldArmed, Asked, SwappedIn, AtWork, Cur, TypeOK
<1> QED
  BY <1>1, <1>2, <1>3, <1>4, <1>5, <1>6, <1>7, <1>8

\* The thread is back in run() with the fiber in its locals
LEMMA SwapOutJob ==
  ASSUME EarlyInv, JobCore, NEW t \in Threads, SwapOut(t)
  PROVE  JobCore' /\ (JobPlaced => JobPlaced')
<1> USE ConstAssumption DEF EarlyInv, JobCore, NoFiber, Fibers, SwapOut, callerVars, fiberVars, jobVars, Deactivate
<1>1. EntryShape'
  BY DEF EntryShape, TypeOK
<1>2. SpareEmpty'
  BY DEF SpareEmpty, LocalsInv, ThreadsApart, Held, SwappedIn, AtWork, Cur, TypeOK, Entry
<1>3. EntriesOnce'
  BY DEF EntriesOnce, TypeOK
<1>4. LocalsOnce'
  BY DEF LocalsOnce, TypeOK
<1>5. Pending'
  BY DEF Pending, TypeOK
<1>6. FiberPlaced'
  BY DEF FiberPlaced, Parked, SwappedIn, AtWork, Cur, TypeOK
<1>7. JobPlaced => JobPlaced'
  BY DEF JobPlaced, TypeOK
<1>8. HoldArmed'
  BY DEF HoldArmed, Asked, SwappedIn, AtWork, Cur, TypeOK
<1> QED
  BY <1>1, <1>2, <1>3, <1>4, <1>5, <1>6, <1>7, <1>8

\* The last branch of run() is chosen
LEMMA NoteHoldJob ==
  ASSUME EarlyInv, JobCore, NEW t \in Threads, NoteHold(t)
  PROVE  JobCore' /\ (JobPlaced => JobPlaced')
<1> USE ConstAssumption DEF EarlyInv, JobCore, NoFiber, Fibers, NoteHold, SettleFrame, callerVars, jobVars
<1>1. EntryShape'
  BY DEF EntryShape, TypeOK
<1>2. SpareEmpty'
  BY DEF SpareEmpty, LocalsInv, ThreadsApart, Held, SwappedIn, AtWork, Cur, TypeOK, Entry
<1>3. EntriesOnce'
  BY DEF EntriesOnce, TypeOK
<1>4. LocalsOnce'
  BY DEF LocalsOnce, TypeOK
<1>5. Pending'
  BY DEF Pending, TypeOK
<1>6. FiberPlaced'
  BY DEF FiberPlaced, Parked, LocalsInv, ThreadsApart, Held, SwappedIn, AtWork, Cur, TypeOK, Entry
<1>7. JobPlaced => JobPlaced'
  BY DEF JobPlaced, TypeOK
<1>8. HoldArmed'
  BY DEF HoldArmed, Asked, SpareInv, LocalsInv, ThreadsApart, Held, SwappedIn, AtWork, Cur, TypeOK, Entry
<1> QED
  BY <1>1, <1>2, <1>3, <1>4, <1>5, <1>6, <1>7, <1>8

\* A job that returned has ended, and its fiber is empty
LEMMA ReturnJob ==
  ASSUME IInv, JobCore, NEW t \in Threads, Return(t)
  PROVE  JobCore' /\ (JobPlaced => JobPlaced')
<1> USE ConstAssumption DEF IInv, JobCore, NoFiber, Fibers, Return, BodyFrame, callerVars
<1>1. EntryShape'
  BY DEF EntryShape, TypeOK
<1>2. SpareEmpty'
  BY DEF SpareEmpty, LocalsInv, ThreadsApart, Held, SwappedIn, AtWork, Cur, TypeOK, Entry
<1>3. EntriesOnce'
  BY DEF EntriesOnce, TypeOK
<1>4. LocalsOnce'
  BY DEF LocalsOnce, TypeOK
<1>5. Pending'
  BY DEF Pending, EntriesOnce, LocalsOnce, LocalsInv, ThreadsApart, Held, SwappedIn, AtWork, Cur, TypeOK, Entry
<1>6. FiberPlaced'
  <2> SUFFICES ASSUME NEW f \in Fibers, (m_cb[f] \in Jobs \ done)'
               PROVE  \/ \E i \in 1 .. Len(m_fibers') : m_fibers'[i].fiber = f
                      \/ \E u \in Threads : AtWork(u)' /\ Cur(u)' = f
                      \/ f \in armed' /\ Parked(f)'
    BY DEF FiberPlaced
  <2>1. \A u \in Threads : AtWork(u) => AtWork(u)' /\ Cur(u)' = Cur(u)
    BY DEF AtWork, Cur, TypeOK
  <2>2. Parked(f) => Parked(f)'
    BY DEF Parked, TypeOK
  <2> QED
    BY <2>1, <2>2 DEF FiberPlaced, TypeOK
<1>7. JobPlaced => JobPlaced'
  BY DEF JobPlaced, TypeOK
<1>8. HoldArmed'
  BY DEF HoldArmed, Asked, SpareInv, LocalsInv, ThreadsApart, Held, SwappedIn, AtWork, Cur, TypeOK, Entry
<1> QED
  BY <1>1, <1>2, <1>3, <1>4, <1>5, <1>6, <1>7, <1>8

\* A job that threw has ended, and its fiber says EXCEPT
LEMMA ThrowJob ==
  ASSUME IInv, JobCore, NEW t \in Threads, Throw(t)
  PROVE  JobCore' /\ (JobPlaced => JobPlaced')
<1> USE ConstAssumption DEF IInv, JobCore, NoFiber, Fibers, Throw, BodyFrame, callerVars
<1>1. EntryShape'
  BY DEF EntryShape, TypeOK
<1>2. SpareEmpty'
  BY DEF SpareEmpty, LocalsInv, ThreadsApart, Held, SwappedIn, AtWork, Cur, TypeOK, Entry
<1>3. EntriesOnce'
  BY DEF EntriesOnce, TypeOK
<1>4. LocalsOnce'
  BY DEF LocalsOnce, TypeOK
<1>5. Pending'
  BY DEF Pending, EntriesOnce, LocalsOnce, LocalsInv, ThreadsApart, Held, SwappedIn, AtWork, Cur, TypeOK, Entry
<1>6. FiberPlaced'
  <2> SUFFICES ASSUME NEW f \in Fibers, (m_cb[f] \in Jobs \ done)'
               PROVE  \/ \E i \in 1 .. Len(m_fibers') : m_fibers'[i].fiber = f
                      \/ \E u \in Threads : AtWork(u)' /\ Cur(u)' = f
                      \/ f \in armed' /\ Parked(f)'
    BY DEF FiberPlaced
  <2>1. \A u \in Threads : AtWork(u) => AtWork(u)' /\ Cur(u)' = Cur(u)
    BY DEF AtWork, Cur, TypeOK
  <2>2. Parked(f) => Parked(f)'
    BY DEF Parked, TypeOK
  <2> QED
    BY <2>1, <2>2 DEF FiberPlaced, TypeOK
<1>7. JobPlaced => JobPlaced'
  BY DEF JobPlaced, TypeOK
<1>8. HoldArmed'
  BY DEF HoldArmed, Asked, SpareInv, LocalsInv, ThreadsApart, Held, SwappedIn, AtWork, Cur, TypeOK, Entry
<1> QED
  BY <1>1, <1>2, <1>3, <1>4, <1>5, <1>6, <1>7, <1>8

\* The fiber of a waiting job is let go of: it is armed and parked, or listed
LEMMA SetHoldJob ==
  ASSUME EarlyInv, JobCore, NEW t \in Threads, SetHold(t)
  PROVE  JobCore' /\ (JobPlaced => JobPlaced')
<1> USE ConstAssumption DEF EarlyInv, JobCore, NoFiber, Fibers, SetHold, SettleFrame, callerVars, jobVars, LetGo, ResetEntry
<1>1. EntryShape'
  BY DEF EntryShape, TypeOK
<1>2. SpareEmpty'
  BY DEF SpareEmpty, LocalsInv, ThreadsApart, Held, SwappedIn, AtWork, Cur, TypeOK, Entry
<1>3. EntriesOnce'
  BY DEF EntriesOnce, TypeOK
<1>4. LocalsOnce'
  BY DEF LocalsOnce, TypeOK
<1>5. Pending'
  BY DEF Pending, LocalsOnce, ResumableState, LocalsInv, ThreadsApart, Held, SwappedIn, AtWork, Cur, TypeOK, Entry
<1>6. FiberPlaced'
  <2> SUFFICES ASSUME NEW f \in Fibers, (m_cb[f] \in Jobs \ done)'
               PROVE  \/ \E i \in 1 .. Len(m_fibers') : m_fibers'[i].fiber = f
                      \/ \E u \in Threads : AtWork(u)' /\ Cur(u)' = f
                      \/ f \in armed' /\ Parked(f)'
    BY DEF FiberPlaced
  <2>1. \A u \in Threads \ {t} : AtWork(u) => AtWork(u)' /\ Cur(u)' = Cur(u)
    BY DEF AtWork, Cur, TypeOK
  <2>2. ASSUME f = Cur(t), f \in armed PROVE Parked(f)'
    <3>1. Held(t, f)
      BY <2>2 DEF Held, Cur
    <3>2. ft'[t].fiber # f /\ cbFiber'[t] # f
      BY <2>2 DEF ThreadsApart, Cur, TypeOK
    <3>3. \A u \in Threads \ {t} : ft'[u] = ft[u] /\ cbFiber'[u] = cbFiber[u] /\ ~Held(u, f)
      BY <3>1 DEF ThreadsApart, TypeOK
    <3> QED
      BY <3>1, <3>2, <3>3 DEF Parked, Held
  <2>3. Parked(f) => Parked(f)'
    BY DEF Parked, TypeOK
  <2>4. f = Cur(t) => Asked(f)
    BY DEF HoldArmed
  <2> QED
    BY <2>1, <2>2, <2>3, <2>4 DEF FiberPlaced, Asked
<1>7. JobPlaced => JobPlaced'
  <2>1. \A u \in Threads : ft'[u].cb = ft[u].cb
    BY DEF EntryShape, TypeOK
  <2> QED
    BY <2>1 DEF JobPlaced
<1>8. HoldArmed'
  BY DEF HoldArmed, Asked, SwappedIn, AtWork, Cur, TypeOK
<1> QED
  BY <1>1, <1>2, <1>3, <1>4, <1>5, <1>6, <1>7, <1>8

\* The fiber of a job that has ended is dropped, or reset
LEMMA FinishJob ==
  ASSUME IInv, JobCore, NEW t \in Threads, Finish(t)
  PROVE  JobCore' /\ (JobPlaced => JobPlaced')
<1> USE ConstAssumption DEF IInv, JobCore, NoFiber, Fibers, Finish, SettleFrame, callerVars, jobVars, ResetEntry
<1>1. EntryShape'
  BY DEF EntryShape, TypeOK
<1>2. SpareEmpty'
  BY DEF SpareEmpty, LocalsInv, ThreadsApart, Held, SwappedIn, AtWork, Cur, TypeOK, Entry
<1>3. EntriesOnce'
  BY DEF EntriesOnce, TypeOK
<1>4. LocalsOnce'
  <2>1. \A u \in Threads : ft'[u].cb = ft[u].cb
    BY DEF EntryShape, TypeOK
  <2>2. \A f \in Fibers : m_cb'[f] = m_cb[f] \/ m_cb'[f] = NoJob
    BY DEF TypeOK
  <2> QED
    BY <2>1, <2>2 DEF LocalsOnce
<1>5. Pending'
  BY DEF Pending, TypeOK
<1>6. FiberPlaced'
  <2> SUFFICES ASSUME NEW f \in Fibers, (m_cb[f] \in Jobs \ done)'
               PROVE  \/ \E i \in 1 .. Len(m_fibers') : m_fibers'[i].fiber = f
                      \/ \E u \in Threads : AtWork(u)' /\ Cur(u)' = f
                      \/ f \in armed' /\ Parked(f)'
    BY DEF FiberPlaced
  <2>1. \A u \in Threads \ {t} : AtWork(u) => AtWork(u)' /\ Cur(u)' = Cur(u)
    BY DEF AtWork, Cur, TypeOK
  <2>2. f # Cur(t) /\ m_cb[f] \in Jobs \ done
    BY DEF Pending, LocalsInv, SwappedIn, AtWork, Cur, TypeOK, Entry
  <2>3. Parked(f) => Parked(f)'
    BY DEF Parked, TypeOK
  <2> QED
    BY <2>1, <2>2, <2>3 DEF FiberPlaced
<1>7. JobPlaced => JobPlaced'
  <2>1. \A u \in Threads : ft'[u].cb = ft[u].cb
    BY DEF EntryShape, TypeOK
  <2>2. \A f \in Fibers : m_cb[f] \notin done \cup {NoJob} => m_cb'[f] = m_cb[f]
    BY DEF Pending, LocalsInv, SwappedIn, AtWork, Cur, TypeOK, Entry
  <2>3. NoJob \notin submitted
    BY DEF TypeOK
  <2> SUFFICES ASSUME JobPlaced, NEW j \in submitted \ done
               PROVE  \/ \E i \in 1 .. Len(m_fibers) : m_fibers[i].cb = j
                      \/ \E u \in Threads : ft'[u].cb = j
                      \/ \E f \in Fibers : m_cb'[f] = j
    BY DEF JobPlaced
  <2> QED
    BY <2>1, <2>2, <2>3 DEF JobPlaced
<1>8. HoldArmed'
  BY DEF HoldArmed, Asked, SpareInv, LocalsInv, ThreadsApart, Held, SwappedIn, AtWork, Cur, TypeOK, Entry
<1> QED
  BY <1>1, <1>2, <1>3, <1>4, <1>5, <1>6, <1>7, <1>8

\* The job of a callback moves from the local entry to the spare fiber
LEMMA RunCallbackReuseJob ==
  ASSUME IInv, JobCore, NEW t \in Threads, RunCallbackReuse(t)
  PROVE  JobCore' /\ (JobPlaced => JobPlaced')
<1> USE ConstAssumption DEF IInv, JobCore, NoFiber, Fibers, RunCallbackReuse, callerVars, jobVars, SwapIn, ResetEntry
<1>1. EntryShape'
  BY DEF EntryShape, TypeOK
<1>2. SpareEmpty'
  BY SMTT(30) DEF SpareEmpty, LocalsInv, ThreadsApart, Held, SwappedIn, AtWork, Cur, TypeOK, Entry
<1>3. EntriesOnce'
  BY SMTT(30) DEF EntriesOnce, TypeOK
<1>4. LocalsOnce'
  <2>1. CASE UNCHANGED <<m_cb, ft>>
    BY <2>1 DEF LocalsOnce
  <2>2. CASE /\ m_cb' = [m_cb EXCEPT ![cbFiber[t]] = ft[t].cb]
             /\ ft' = [ft EXCEPT ![t] = ResetEntry]
    <3>1. /\ ft'[t].cb = NoJob /\ \A u \in Threads \ {t} : ft'[u] = ft[u]
          /\ m_cb'[cbFiber[t]] = ft[t].cb
          /\ \A f \in Fibers \ {cbFiber[t]} : m_cb'[f] = m_cb[f]
      BY <2>2 DEF TypeOK
    <3>2. \A u, v \in Threads : u # v /\ ft'[u].cb # NoJob => ft'[u].cb # ft'[v].cb
      BY <3>1 DEF LocalsOnce
    <3>3. \A u \in Threads, f \in Fibers : ft'[u].cb # NoJob => ft'[u].cb # m_cb'[f]
      BY <3>1 DEF LocalsOnce
    <3>4. \A f, g \in Fibers : f # g /\ m_cb'[f] # NoJob => m_cb'[f] # m_cb'[g]
      BY <3>1 DEF LocalsOnce
    <3> QED
      BY <3>2, <3>3, <3>4 DEF LocalsOnce
  <2> QED
    BY <2>1, <2>2
<1>5. Pending'
  BY DEF Pending, TypeOK
<1>6. FiberPlaced'
  <2> SUFFICES ASSUME NEW f \in Fibers, (m_cb[f] \in Jobs \ done)'
               PROVE  \/ \E i \in 1 .. Len(m_fibers') : m_fibers'[i].fiber = f
                      \/ \E u \in Threads : AtWork(u)' /\ Cur(u)' = f
                      \/ f \in armed' /\ Parked(f)'
    BY DEF FiberPlaced
  <2>1. \A u \in Threads \ {t} : AtWork(u) => AtWork(u)' /\ Cur(u)' = Cur(u)
    BY DEF AtWork, Cur, TypeOK
  <2>2. AtWork(t)' /\ Cur(t)' = cbFiber[t] /\ Cur(t) = cbFiber[t]
    BY DEF SpareInv, SwappedIn, AtWork, Cur, TypeOK
  <2>3. Parked(f) => Parked(f)'
    BY DEF Parked, TypeOK
  <2> QED
    BY <2>1, <2>2, <2>3 DEF FiberPlaced, TypeOK
<1>7. JobPlaced => JobPlaced'
  <2>1. \A u \in Threads \ {t} : ft'[u] = ft[u]
    BY DEF SpareInv, SwappedIn, AtWork, TypeOK
  <2>2. cbFiber[t] \in Fibers /\ m_cb'[cbFiber[t]] = ft[t].cb /\ m_cb[cbFiber[t]] = NoJob
    BY DEF SpareInv, SpareEmpty, SwappedIn, AtWork, TypeOK
  <2>3. \A f \in Fibers \ {cbFiber[t]} : m_cb'[f] = m_cb[f]
    BY DEF SpareInv, SwappedIn, AtWork, TypeOK
  <2>4. NoJob \notin submitted
    BY DEF TypeOK
  <2> SUFFICES ASSUME JobPlaced, NEW j \in submitted \ done
               PROVE  \/ \E i \in 1 .. Len(m_fibers) : m_fibers[i].cb = j
                      \/ \E u \in Threads : ft'[u].cb = j
                      \/ \E f \in Fibers : m_cb'[f] = j
    BY DEF JobPlaced
  <2> QED
    BY <2>1, <2>2, <2>3, <2>4 DEF JobPlaced
<1>8. HoldArmed'
  BY DEF HoldArmed, Asked, SpareInv, LocalsInv, ThreadsApart, Held, SwappedIn, AtWork, Cur, TypeOK, Entry
<1> QED
  BY <1>1, <1>2, <1>3, <1>4, <1>5, <1>6, <1>7, <1>8

\* The job of a callback moves from the local entry to a new fiber
LEMMA RunCallbackNewJob ==
  ASSUME IInv, JobCore, NEW t \in Threads, RunCallbackNew(t)
  PROVE  JobCore' /\ (JobPlaced => JobPlaced')
<1> USE ConstAssumption DEF IInv, JobCore, NoFiber, Fibers, RunCallbackNew, callerVars, jobVars, SwapIn, ResetEntry
<1>1. EntryShape'
  BY DEF EntryShape, TypeOK
<1>2. SpareEmpty'
  BY SMTT(30) DEF SpareEmpty, LocalsInv, ThreadsApart, Held, SwappedIn, AtWork, Cur, TypeOK, Entry
<1>3. EntriesOnce'
  BY DEF EntriesOnce, TypeOK
<1>4. LocalsOnce'
  BY DEF LocalsOnce, TypeOK
<1>5. Pending'
  BY DEF Pending, TypeOK
<1>6. FiberPlaced'
  BY DEF FiberPlaced, Parked, SwappedIn, AtWork, Cur, TypeOK
<1>7. JobPlaced => JobPlaced'
  BY DEF JobPlaced, TypeOK
<1>8. HoldArmed'
  BY DEF HoldArmed, Asked, SwappedIn, AtWork, Cur, TypeOK
<1> QED
  BY <1>1, <1>2, <1>3, <1>4, <1>5, <1>6, <1>7, <1>8

\* start() and stop() touch no job: the threads they create and join hold none
LEMMA CallerFrameJob ==
  ASSUME EarlyInv, JobCore, UNCHANGED <<m_fibers, ft, cbFiber, fiberVars, submitted, done>>,
         \A t \in Threads : AtWork(t) \/ AtWork(t)' => pc'[t] = pc[t]
  PROVE  JobCore' /\ (JobPlaced => JobPlaced')
<1> USE DEF JobCore, fiberVars
<1>0. \A t \in Threads : /\ AtWork(t)' <=> AtWork(t)
                         /\ SwappedIn(t)' <=> SwappedIn(t)
                         /\ Cur(t)' = Cur(t)
                         /\ pc[t] = "dispatch" => AtWork(t)
                         /\ pc'[t] = "dispatch" => AtWork(t)'
                         /\ pc'[t] \in {"hold", "sethold", "swapOut", "settle"} => AtWork(t)'
  BY DEF AtWork, SwappedIn, Cur
<1>1. EntryShape' /\ EntriesOnce' /\ LocalsOnce' /\ (JobPlaced => JobPlaced')
  BY <1>0 DEF EntryShape, EntriesOnce, LocalsOnce, JobPlaced
<1>2. SpareEmpty' /\ HoldArmed'
  BY <1>0 DEF SpareEmpty, HoldArmed, Asked
<1>3. Pending'
  BY DEF Pending
<1>4. FiberPlaced'
  BY <1>0 DEF FiberPlaced, Parked
<1> QED
  BY <1>1, <1>2, <1>3, <1>4

\* The steps of the caller's thread are of that kind
LEMMA CallerJob ==
  ASSUME EarlyInv, JobCore, Start \/ StopBegins \/ StopStep
  PROVE  JobCore' /\ (JobPlaced => JobPlaced')
<1> USE ConstAssumption DEF StopFrame, jobVars
<1>1. CASE Start
  <2>1. \A t \in Threads : pc'[t] = pc[t] \/ (pc[t] = "none" /\ pc'[t] = "pick")
    BY <1>1 DEF Start, CallerFree, EarlyInv, MainInv
  <2> QED
    BY <1>1, <2>1, CallerFrameJob DEF Start, AtWork
<1>2. CASE StopBegins
  BY <1>2, CallerFrameJob DEF StopBegins
<1>3. CASE StopReturnsEarly \/ StopFlags
  BY <1>3, CallerFrameJob DEF StopReturnsEarly, StopFlags
<1>4. CASE StopCalls
  <2>1. \A t \in Threads : pc'[t] = pc[t] \/ (pc[t] = "none" /\ pc'[t] = "pick")
    BY <1>4 DEF StopCalls, EarlyInv, MainInv, TypeOK
  <2> QED
    BY <1>4, <2>1, CallerFrameJob DEF StopCalls, AtWork
<1>5. CASE RootReturns
  <2>1. \A t \in Threads : pc'[t] = pc[t] \/ (pc[t] = "exit" /\ pc'[t] = "none")
    BY <1>5 DEF RootReturns, EarlyInv, TypeOK
  <2> QED
    BY <1>5, <2>1, CallerFrameJob DEF RootReturns, AtWork
<1>6. CASE Join
  <2>1. \A t \in Threads : pc'[t] = pc[t] \/ (pc[t] = "exit" /\ pc'[t] = "none")
    BY <1>6 DEF Join, AllExited
  <2> QED
    BY <1>6, <2>1, CallerFrameJob DEF Join, AtWork
<1> QED
  BY <1>1, <1>2, <1>3, <1>4, <1>5, <1>6 DEF StopStep

-----------------------------------------------------------------------------
\* The job of an entry passes from the list to the thread that takes it
LEMMA PickJob ==
  ASSUME IInv, JobCore, NEW t \in Threads, Pick(t)
  PROVE  JobCore' /\ (JobPlaced => JobPlaced')
<1> USE ConstAssumption DEF IInv, JobCore, NoFiber, Fibers, callerVars, fiberVars, jobVars
<1>1. PICK i \in Candidates(t) :
        /\ ft' = [ft EXCEPT ![t] = m_fibers[i]]
        /\ m_fibers' = RemoveAt(m_fibers, i)
  BY DEF Pick
<1>2. /\ pc[t] = "pick" /\ pc' = [pc EXCEPT ![t] = "dispatch"]
      /\ UNCHANGED <<callerVars, cbFiber, fiberVars, jobVars>>
  BY DEF Pick
<1>3. i \in 1 .. Len(m_fibers) /\ m_fibers[i] \in Entry
  BY DEF Candidates, TypeOK
<1>4. /\ m_fibers' \in Seq(Entry) /\ Len(m_fibers') = Len(m_fibers) - 1
      /\ \A k \in 1 .. Len(m_fibers') :
           m_fibers'[k] = IF k < i THEN m_fibers[k] ELSE m_fibers[k + 1]
  BY <1>1, <1>3, RemoveAtFacts, ZenonT(60) DEF TypeOK
<1>5. /\ ft'[t] = m_fibers[i] /\ \A u \in Threads \ {t} : ft'[u] = ft[u]
      /\ pc'[t] = "dispatch" /\ \A u \in Threads \ {t} : pc'[u] = pc[u]
      /\ ft[t].fiber = NoFiber /\ ft[t].cb = NoJob
  BY <1>1, <1>2 DEF TypeOK, LocalsInv, EntryShape, AtWork
<1> DEFINE old(k) == IF k < i THEN k ELSE k + 1
           new(k) == IF k < i THEN k ELSE k - 1
<1>6. \A k \in 1 .. Len(m_fibers') :
        old(k) \in 1 .. Len(m_fibers) /\ old(k) # i /\ m_fibers'[k] = m_fibers[old(k)]
  BY <1>3, <1>4 DEF TypeOK
<1>7. \A k \in 1 .. Len(m_fibers) : k # i =>
        new(k) \in 1 .. Len(m_fibers') /\ m_fibers'[new(k)] = m_fibers[k]
  BY <1>3, <1>4 DEF TypeOK
<1>8. \A a, b \in 1 .. Len(m_fibers') : a # b => old(a) # old(b)
  BY <1>3, <1>4 DEF TypeOK
<1> HIDE DEF old, new
<1>9. \A u \in Threads \ {t} : /\ AtWork(u)' <=> AtWork(u)
                               /\ SwappedIn(u)' <=> SwappedIn(u)
                               /\ Cur(u)' = Cur(u)
  BY <1>2, <1>5 DEF AtWork, SwappedIn, Cur
<1>10. /\ AtWork(t)' /\ ~AtWork(t) /\ ~SwappedIn(t)' /\ ~SwappedIn(t)
       /\ m_fibers[i].fiber # NoFiber => Cur(t)' = m_fibers[i].fiber
  BY <1>2, <1>5 DEF AtWork, SwappedIn, Cur
<1>11. EntryShape'
  BY <1>3, <1>5, <1>6 DEF EntryShape
<1>12. SpareEmpty'
  BY <1>2, <1>9, <1>10 DEF SpareEmpty
<1>13. EntriesOnce'
  <2>1. \A a, b \in 1 .. Len(m_fibers') :
          a # b /\ m_fibers'[a].cb # NoJob => m_fibers'[a].cb # m_fibers'[b].cb
    BY <1>6, <1>8 DEF EntriesOnce
  <2>2. \A a \in 1 .. Len(m_fibers'), u \in Threads :
          m_fibers'[a].cb # NoJob => m_fibers'[a].cb # ft'[u].cb
    BY <1>3, <1>5, <1>6 DEF EntriesOnce
  <2>3. \A a \in 1 .. Len(m_fibers'), f \in Fibers :
          m_fibers'[a].cb # NoJob => m_fibers'[a].cb # m_cb'[f]
    BY <1>2, <1>6 DEF EntriesOnce
  <2> QED
    BY <2>1, <2>2, <2>3 DEF EntriesOnce
<1>14. LocalsOnce'
  BY <1>2, <1>3, <1>5 DEF LocalsOnce, EntriesOnce
<1>15. Pending'
  <2>1. \A a \in 1 .. Len(m_fibers') :
          m_fibers'[a].cb # NoJob => m_fibers'[a].cb \in submitted \ done
    BY <1>6 DEF Pending
  <2>2. \A u \in Threads : ft'[u].cb # NoJob => ft'[u].cb \in submitted \ done
    BY <1>3, <1>5 DEF Pending
  <2> QED
    BY <1>2, <2>1, <2>2 DEF Pending
<1>16. FiberPlaced'
  <2> SUFFICES ASSUME NEW f \in Fibers, m_cb[f] \in Jobs \ done
               PROVE  \/ \E k \in 1 .. Len(m_fibers') : m_fibers'[k].fiber = f
                      \/ \E u \in Threads : AtWork(u)' /\ Cur(u)' = f
                      \/ f \in armed' /\ Parked(f)'
    BY <1>2 DEF FiberPlaced
  <2>1. ASSUME f \in armed, Parked(f) PROVE Parked(f)'
    BY <1>2, <1>3, <1>5, <2>1 DEF Parked, ListInv
  <2>2. ASSUME NEW k \in 1 .. Len(m_fibers), m_fibers[k].fiber = f
        PROVE  \/ \E m \in 1 .. Len(m_fibers') : m_fibers'[m].fiber = f
               \/ \E u \in Threads : AtWork(u)' /\ Cur(u)' = f
    BY <1>7, <1>10, <2>2
  <2> QED
    BY <1>2, <1>9, <1>10, <2>1, <2>2 DEF FiberPlaced
<1>17. JobPlaced => JobPlaced'
  <2> SUFFICES ASSUME JobPlaced, NEW j \in submitted \ done
               PROVE  \/ \E k \in 1 .. Len(m_fibers') : m_fibers'[k].cb = j
                      \/ \E u \in Threads : ft'[u].cb = j
                      \/ \E f \in Fibers : m_cb[f] = j
    BY <1>2 DEF JobPlaced
  <2>1. j # NoJob
    BY DEF TypeOK
  <2>2. ASSUME NEW k \in 1 .. Len(m_fibers), m_fibers[k].cb = j
        PROVE  \/ \E m \in 1 .. Len(m_fibers') : m_fibers'[m].cb = j
               \/ \E u \in Threads : ft'[u].cb = j
    BY <1>5, <1>7, <2>2
  <2> QED
    BY <1>5, <2>1, <2>2 DEF JobPlaced
<1>18. HoldArmed'
  <2>1. ASSUME NEW u \in Threads \ {t}, SwappedIn(u), Asked(Cur(u)) PROVE Asked(Cur(u))'
    <3>1. Cur(u) # NoFiber /\ Held(u, Cur(u))
      BY <2>1 DEF LocalsInv, Held, Cur
    <3>2. Cur(u) \in armed
      BY <2>1, <3>1 DEF Asked, ListApart
    <3> QED
      BY <1>2, <1>9, <3>2 DEF Asked
  <2>2. \A u \in Threads \ {t} :
          /\ pc'[u] = pc[u] /\ Cur(u)' = Cur(u)
          /\ pc[u] \in {"hold", "sethold", "swapOut", "settle"} => SwappedIn(u)
    BY <1>5, <1>9 DEF SwappedIn, AtWork
  <2>3. \A u \in Threads \ {t} : SwappedIn(u) /\ Asked(Cur(u)) => Asked(Cur(u))'
    BY <2>1
  <2>4. pc'[t] \notin {"hold", "sethold", "swapOut", "settle"} /\ m_state' = m_state
    BY <1>2, <1>5
  <2> QED
    BY <2>2, <2>3, <2>4 DEF HoldArmed
<1> QED
  BY <1>11, <1>12, <1>13, <1>14, <1>15, <1>16, <1>17, <1>18

\* What scheduleNoLock() leaves: the old entries, and the new one at the end
LEMMA AppendFacts ==
  ASSUME NEW S, NEW s \in Seq(S), NEW e \in S
  PROVE  /\ Append(s, e) \in Seq(S) /\ Len(Append(s, e)) = Len(s) + 1
         /\ Len(s) + 1 \in 1 .. Len(Append(s, e)) /\ Append(s, e)[Len(s) + 1] = e
         /\ \A i \in 1 .. Len(s) : i \in 1 .. Len(Append(s, e)) /\ Append(s, e)[i] = s[i]
         /\ \A i \in 1 .. Len(Append(s, e)) :
              i \in 1 .. Len(s) \/ (i = Len(s) + 1 /\ Append(s, e)[i] = e)
<1>1. /\ Append(s, e) \in Seq(S) /\ Len(Append(s, e)) = Len(s) + 1 /\ Len(s) \in Nat
      /\ Append(s, e)[Len(s) + 1] = e /\ \A i \in 1 .. Len(s) : Append(s, e)[i] = s[i]
  OBVIOUS
<1> QED
  BY <1>1

\* Queueing the fiber of a job that has not ended: whoever else knew the fiber
\* may let go of it, as long as nothing else changes place
LEMMA FiberQueuedJob ==
  ASSUME EarlyInv, JobCore, NEW f \in Fibers,
         m_fibers' = Append(m_fibers, FiberEntry(f, AnyThread)),
         UNCHANGED <<m_state, m_cb, s_fiber_id, submitted, done>>,
         \A g \in armed : g # f => g \in armed',
         \A g \in Fibers : g # f /\ Parked(g) => Parked(g)',
         \A t \in Threads :
           /\ ft'[t].cb = ft[t].cb
           /\ pc'[t] = "dispatch" <=> pc[t] = "dispatch"
           /\ ft'[t].fiber = ft[t].fiber \/ ft'[t].fiber = NoFiber
           /\ AtWork(t) /\ Cur(t) # f => AtWork(t)' /\ Cur(t)' = Cur(t),
         SpareEmpty', HoldArmed'
  PROVE  JobCore' /\ (JobPlaced => JobPlaced')
<1> USE ConstAssumption DEF EarlyInv, JobCore
<1> DEFINE e == FiberEntry(f, AnyThread)
<1>1. e \in Entry /\ e.fiber = f /\ e.cb = NoJob /\ m_fibers \in Seq(Entry)
  BY DEF FiberEntry, Entry, TypeOK
<1>2. m_fibers' = Append(m_fibers, e)
  OBVIOUS
<1> HIDE DEF e
<1>3. /\ Len(m_fibers) + 1 \in 1 .. Len(m_fibers') /\ m_fibers'[Len(m_fibers) + 1] = e
      /\ \A i \in 1 .. Len(m_fibers) : i \in 1 .. Len(m_fibers') /\ m_fibers'[i] = m_fibers[i]
      /\ \A i \in 1 .. Len(m_fibers') : i \in 1 .. Len(m_fibers) \/ m_fibers'[i] = e
  BY <1>1, <1>2, AppendFacts
<1>4. EntryShape'
  BY <1>1, <1>3 DEF EntryShape
<1>5. EntriesOnce'
  BY <1>1, <1>3 DEF EntriesOnce
<1>6. LocalsOnce'
  BY DEF LocalsOnce
<1>7. Pending'
  <2>1. \A i \in 1 .. Len(m_fibers') : m_fibers'[i].cb # NoJob => m_fibers'[i].cb \in submitted \ done
    BY <1>1, <1>3 DEF Pending
  <2> QED
    BY <2>1 DEF Pending
<1>8. FiberPlaced'
  BY <1>1, <1>3 DEF FiberPlaced
<1>9. JobPlaced => JobPlaced'
  BY <1>3 DEF JobPlaced
<1> QED
  BY <1>4, <1>5, <1>6, <1>7, <1>8, <1>9

\* A job that gave way passes from its thread to the list
LEMMA RequeueJob ==
  ASSUME IInv, JobCore, NEW t \in Threads, Requeue(t)
  PROVE  JobCore' /\ (JobPlaced => JobPlaced')
<1> USE ConstAssumption DEF IInv, JobCore, NoFiber, Fibers, SettleFrame, callerVars, jobVars
<1>1. /\ pc[t] = "settle" /\ m_fibers' = Append(m_fibers, FiberEntry(Cur(t), AnyThread))
      /\ UNCHANGED <<m_state, m_cb, s_fiber_id, armed, submitted, done>>
      /\ LetGo(t) /\ pc' = [pc EXCEPT ![t] = "pick"]
  BY DEF Requeue, Enqueue
<1>2. Cur(t) \in Fibers /\ Held(t, Cur(t)) /\ AtWork(t)
  BY <1>1 DEF LocalsInv, SwappedIn, AtWork, Cur, Held, TypeOK, Entry
<1>3. /\ \A u \in Threads \ {t} : ft'[u] = ft[u] /\ cbFiber'[u] = cbFiber[u] /\ pc'[u] = pc[u]
      /\ ft'[t] = ResetEntry /\ pc'[t] = "pick" /\ ft[t].cb = NoJob
      /\ cbFiber'[t] = cbFiber[t] \/ cbFiber'[t] = NoFiber
  BY <1>1 DEF LetGo, EntryShape, TypeOK
<1>4. SpareEmpty'
  <2>1. ASSUME NEW u \in Threads, cbFiber'[u] # NoFiber, SwappedIn(u)' => Cur(u)' # cbFiber'[u]
        PROVE  m_cb[cbFiber'[u]] = NoJob
    <3>1. CASE u # t
      BY <1>3, <2>1, <3>1 DEF SpareEmpty, SwappedIn, AtWork, Cur
    <3>2. CASE u = t
      <4>1. cbFiber'[t] = cbFiber[t] /\ Cur(t) # cbFiber[t]
        BY <1>1, <2>1, <3>2 DEF LetGo, ThreadsApart, Cur, TypeOK
      <4> QED
        BY <2>1, <3>2, <4>1 DEF SpareEmpty
    <3> QED
      BY <3>1, <3>2
  <2> QED
    BY <1>1, <2>1 DEF SpareEmpty
<1>5. HoldArmed'
  BY <1>1, <1>3 DEF HoldArmed, Asked, Cur
<1>6. \A g \in Fibers : Parked(g) => Parked(g)'
  BY <1>3 DEF Parked, ResetEntry
<1>7. \A u \in Threads :
        /\ ft'[u].cb = ft[u].cb
        /\ pc'[u] = "dispatch" <=> pc[u] = "dispatch"
        /\ ft'[u].fiber = ft[u].fiber \/ ft'[u].fiber = NoFiber
        /\ AtWork(u) /\ Cur(u) # Cur(t) => AtWork(u)' /\ Cur(u)' = Cur(u)
  BY <1>1, <1>3 DEF ResetEntry, AtWork, Cur
<1> QED
  BY <1>1, <1>2, <1>4, <1>5, <1>6, <1>7, FiberQueuedJob, LateIsEarly

\* A job that waits is put into the list, early or not
LEMMA WakeJob ==
  ASSUME EarlyInv, JobCore, NEW f \in Fibers, Wake(f)
  PROVE  JobCore' /\ (JobPlaced => JobPlaced')
<1> USE ConstAssumption DEF EarlyInv, JobCore, NoFiber, Fibers, callerVars, jobVars
<1>1. /\ f \in armed /\ armed' = armed \ {f}
      /\ m_fibers' = Append(m_fibers, FiberEntry(f, AnyThread))
      /\ UNCHANGED <<pc, ft, cbFiber, m_state, m_cb, s_fiber_id, submitted, done>>
  BY DEF Wake, Enqueue
<1>2. SpareEmpty'
  BY <1>1 DEF SpareEmpty, SwappedIn, AtWork, Cur
<1>3. HoldArmed'
  <2>1. m_fibers \in Seq(Entry) /\ FiberEntry(f, AnyThread) \in Entry
        /\ FiberEntry(f, AnyThread).fiber = f
    BY DEF TypeOK, FiberEntry, Entry
  <2>2. \A g : Asked(g) => Asked(g)'
    BY <1>1, <2>1, AppendFacts DEF Asked
  <2> QED
    BY <1>1, <2>2 DEF HoldArmed, Cur
<1>4. /\ \A g \in Fibers : Parked(g) => Parked(g)'
      /\ \A u \in Threads : AtWork(u)' = AtWork(u) /\ Cur(u)' = Cur(u)
  BY <1>1 DEF Parked, AtWork, Cur
<1> QED
  BY <1>1, <1>2, <1>3, <1>4, FiberQueuedJob

-----------------------------------------------------------------------------
\* Jobs that have not ended and that neither the list, nor a thread, nor a
\* fiber knows
Unplaced ==
  {j \in Jobs \ done : /\ \A i \in 1 .. Len(m_fibers) : m_fibers[i].cb # j
                       /\ \A t \in Threads : ft[t].cb # j
                       /\ \A f \in Fibers : m_cb[f] # j}

\* A job submitted for the first time is one of them
LEMMA FreshUnplaced == ASSUME EarlyInv, JobCore PROVE Fresh \subseteq Unplaced
  BY ConstAssumption DEF EarlyInv, TypeOK, Fresh, JobCore, Pending, Unplaced

\* Callbacks of such jobs, one or several, each in an entry of its own
LEMMA CallbacksQueuedJob ==
  ASSUME EarlyInv, JobCore, ScheduleFrame, UNCHANGED fiberVars, NEW n \in Nat,
         m_fibers' \in Seq(Entry), n = Len(m_fibers), n <= Len(m_fibers'),
         \A i \in 1 .. n : m_fibers'[i] = m_fibers[i],
         \A i \in 1 .. Len(m_fibers') : i > n =>
            m_fibers'[i].fiber = NoFiber /\ m_fibers'[i].cb \in Unplaced,
         \A i, k \in 1 .. Len(m_fibers') :
            i # k /\ i > n /\ k > n => m_fibers'[i].cb # m_fibers'[k].cb,
         submitted' = submitted \cup {m_fibers'[i].cb : i \in n + 1 .. Len(m_fibers')}
  PROVE  JobCore' /\ (JobPlaced => JobPlaced')
<1> USE ConstAssumption DEF EarlyInv, JobCore, ScheduleFrame, fiberVars
<1>0. /\ \A i \in 1 .. n : i \in 1 .. Len(m_fibers')
      /\ \A i \in 1 .. Len(m_fibers') : i \in 1 .. n \/ i > n
      /\ \A i \in n + 1 .. Len(m_fibers') : i \in 1 .. Len(m_fibers') /\ i > n
      /\ \A i \in 1 .. Len(m_fibers') : i > n => i \in n + 1 .. Len(m_fibers')
      /\ Len(m_fibers') \in Nat
  <2>1. Len(m_fibers') \in Nat
    OBVIOUS
  <2> QED
    BY <2>1
<1>1. /\ \A j \in Unplaced : /\ j \in Jobs \ done
                             /\ \A i \in 1 .. n : m_fibers[i].cb # j
                             /\ \A t \in Threads : ft[t].cb # j
                             /\ \A f \in Fibers : m_cb[f] # j
  BY DEF Unplaced
<1>2. EntryShape'
  BY <1>0 DEF EntryShape
<1>3. SpareEmpty' /\ HoldArmed'
  BY DEF SpareEmpty, HoldArmed, Asked, SwappedIn, AtWork, Cur
<1>4. EntriesOnce'
  <2>1. \A i, k \in 1 .. Len(m_fibers') :
          i # k /\ m_fibers'[i].cb # NoJob => m_fibers'[i].cb # m_fibers'[k].cb
    BY <1>0, <1>1 DEF EntriesOnce
  <2>2. \A i \in 1 .. Len(m_fibers'), t \in Threads :
          m_fibers'[i].cb # NoJob => m_fibers'[i].cb # ft[t].cb
    BY <1>0, <1>1 DEF EntriesOnce
  <2>3. \A i \in 1 .. Len(m_fibers'), f \in Fibers :
          m_fibers'[i].cb # NoJob => m_fibers'[i].cb # m_cb[f]
    BY <1>0, <1>1 DEF EntriesOnce
  <2> QED
    BY <2>1, <2>2, <2>3 DEF EntriesOnce
<1>5. LocalsOnce'
  BY DEF LocalsOnce
<1>6. Pending'
  <2>1. done \subseteq submitted /\ submitted \subseteq submitted' /\ done' = done
    BY DEF Pending
  <2>2. \A i \in 1 .. Len(m_fibers') :
          m_fibers'[i].cb # NoJob => m_fibers'[i].cb \in submitted' \ done
    BY <1>0, <1>1, <2>1 DEF Pending
  <2> QED
    BY <2>1, <2>2 DEF Pending
<1>7. FiberPlaced'
  BY <1>0 DEF FiberPlaced, Parked, AtWork, Cur
<1>8. JobPlaced => JobPlaced'
  <2> SUFFICES ASSUME JobPlaced, NEW j \in submitted' \ done
               PROVE  \/ \E i \in 1 .. Len(m_fibers') : m_fibers'[i].cb = j
                      \/ \E t \in Threads : ft[t].cb = j
                      \/ \E f \in Fibers : m_cb[f] = j
    BY DEF JobPlaced
  <2>1. CASE j \in submitted
    BY <1>0, <2>1 DEF JobPlaced
  <2>2. CASE j \notin submitted
    BY <1>0, <2>2
  <2> QED
    BY <2>1, <2>2
<1> QED
  BY <1>2, <1>3, <1>4, <1>5, <1>6, <1>7, <1>8

\* schedule(cb, thread) of a job
LEMMA ScheduleCbJob ==
  ASSUME EarlyInv, JobCore, ScheduleFrame, NEW j \in Fresh,
         NEW thr \in Workers \cup {Caller, AnyThread}, ScheduleCb(j, thr)
  PROVE  JobCore' /\ (JobPlaced => JobPlaced')
<1> DEFINE e == CbEntry(j, thr)
<1>1. e \in Entry /\ e.fiber = NoFiber /\ e.cb = j
  BY DEF CbEntry, Entry, Fresh
<1>2. /\ m_fibers' = Append(m_fibers, e) /\ UNCHANGED fiberVars
      /\ submitted' = submitted \cup {j}
  BY DEF ScheduleCb, Enqueue
<1>3. m_fibers \in Seq(Entry)
  BY DEF EarlyInv, TypeOK
<1> HIDE DEF e
<1> DEFINE n == Len(m_fibers)
<1>4. /\ m_fibers' \in Seq(Entry) /\ n \in Nat /\ Len(m_fibers') = n + 1
      /\ \A i \in 1 .. n : m_fibers'[i] = m_fibers[i]
      /\ m_fibers'[n + 1] = e
  BY <1>1, <1>2, <1>3, AppendFacts
<1> HIDE DEF n
<1>5. \A i \in 1 .. Len(m_fibers') : i > n => i = n + 1
  BY <1>4
<1>6. {m_fibers'[i].cb : i \in n + 1 .. Len(m_fibers')} = {j}
  <2>1. n + 1 .. Len(m_fibers') = {n + 1}
    BY <1>4
  <2> QED
    BY <1>1, <1>4, <2>1
<1>7. n = Len(m_fibers) /\ n <= Len(m_fibers')
  BY <1>4 DEF n
<1>8. /\ \A i \in 1 .. Len(m_fibers') : i > n =>
           m_fibers'[i].fiber = NoFiber /\ m_fibers'[i].cb \in Unplaced
      /\ \A i, k \in 1 .. Len(m_fibers') :
           i # k /\ i > n /\ k > n => m_fibers'[i].cb # m_fibers'[k].cb
  BY <1>1, <1>4, <1>5, FreshUnplaced
<1> QED
  BY <1>2, <1>4, <1>6, <1>7, <1>8, CallbacksQueuedJob

\* schedule(begin, end) of two jobs
LEMMA ScheduleRangeJob ==
  ASSUME EarlyInv, JobCore, ScheduleFrame, NEW j \in Fresh, NEW k \in Fresh, ScheduleRange(j, k)
  PROVE  JobCore' /\ (JobPlaced => JobPlaced')
<1> DEFINE r == <<CbEntry(j, AnyThread), CbEntry(k, AnyThread)>>
<1>1. /\ r \in Seq(Entry) /\ Len(r) = 2 /\ r[1].cb = j /\ r[2].cb = k
      /\ r[1].fiber = NoFiber /\ r[2].fiber = NoFiber
  BY DEF CbEntry, Entry, Fresh
<1>2. /\ m_fibers' = m_fibers \o r /\ UNCHANGED fiberVars /\ j # k
      /\ submitted' = submitted \cup {j, k}
  BY DEF ScheduleRange
<1>3. m_fibers \in Seq(Entry)
  BY DEF EarlyInv, TypeOK
<1> HIDE DEF r
<1> DEFINE n == Len(m_fibers)
<1>4. /\ m_fibers' \in Seq(Entry) /\ n \in Nat /\ Len(m_fibers') = n + 2
      /\ \A i \in 1 .. n : m_fibers'[i] = m_fibers[i]
      /\ m_fibers'[n + 1] = r[1] /\ m_fibers'[n + 2] = r[2]
  <2>0. /\ m_fibers \o r \in Seq(Entry) /\ Len(m_fibers \o r) = Len(m_fibers) + Len(r)
        /\ \A i \in 1 .. Len(m_fibers) + Len(r) : (m_fibers \o r)[i] =
             IF i <= Len(m_fibers) THEN m_fibers[i] ELSE r[i - Len(m_fibers)]
    BY <1>1, <1>3, ConcatProperties
  <2>1. /\ m_fibers \o r \in Seq(Entry) /\ Len(m_fibers \o r) = n + 2 /\ n \in Nat
        /\ \A i \in 1 .. n + 2 : (m_fibers \o r)[i] =
             IF i <= n THEN m_fibers[i] ELSE r[i - n]
    BY <1>1, <1>3, <2>0
  <2> HIDE DEF n
  <2>2. /\ \A i \in 1 .. n : i \in 1 .. n + 2 /\ i <= n
        /\ n + 1 \in 1 .. n + 2 /\ n + 2 \in 1 .. n + 2 /\ (n + 1) - n = 1 /\ (n + 2) - n = 2
        /\ ~(n + 1 <= n) /\ ~(n + 2 <= n)
    BY <2>1
  <2> QED
    BY <1>2, <2>1, <2>2
<1> HIDE DEF n
<1>5. \A i \in 1 .. Len(m_fibers') : i > n => i = n + 1 \/ i = n + 2
  BY <1>4
<1>6. {m_fibers'[i].cb : i \in n + 1 .. Len(m_fibers')} = {j, k}
  <2>1. n + 1 .. Len(m_fibers') = {n + 1, n + 2}
    BY <1>4
  <2> QED
    BY <1>1, <1>4, <2>1
<1>7. n = Len(m_fibers) /\ n <= Len(m_fibers')
  BY <1>4 DEF n
<1>8. /\ \A i \in 1 .. Len(m_fibers') : i > n =>
           m_fibers'[i].fiber = NoFiber /\ m_fibers'[i].cb \in Unplaced
      /\ \A i, m \in 1 .. Len(m_fibers') :
           i # m /\ i > n /\ m > n => m_fibers'[i].cb # m_fibers'[m].cb
  BY <1>1, <1>2, <1>4, <1>5, FreshUnplaced
<1> QED
  BY <1>2, <1>4, <1>6, <1>7, <1>8, CallbacksQueuedJob

\* schedule(fiber, thread) of a job, in a fiber of its own
LEMMA ScheduleFiberJob ==
  ASSUME EarlyInv, JobCore, ScheduleFrame, NEW j \in Fresh,
         NEW thr \in Workers \cup {Caller, AnyThread}, ScheduleFiber(j, thr)
  PROVE  JobCore' /\ (JobPlaced => JobPlaced')
<1> USE ConstAssumption DEF EarlyInv, JobCore, NoFiber, Fibers
<1> DEFINE n == s_fiber_id + 1
           e == FiberEntry(n, thr)
<1>1. /\ n \in Fibers /\ n > s_fiber_id /\ s_fiber_id' = n /\ armed' = armed
      /\ m_state' = [m_state EXCEPT ![n] = "INIT"]
      /\ m_cb' = [m_cb EXCEPT ![n] = j] /\ j \in Jobs
      /\ submitted' = submitted \cup {j} /\ s_fiber_id \in Nat /\ j \notin submitted
      /\ UNCHANGED <<pc, ft, cbFiber, done>>
  BY DEF ScheduleFiber, NewFiber, TypeOK, Fresh, ScheduleFrame
<1>2. /\ e \in Entry /\ e.fiber = n /\ e.cb = NoJob /\ m_fibers' = Append(m_fibers, e)
      /\ m_fibers \in Seq(Entry)
  BY <1>1 DEF FiberEntry, Entry, ScheduleFiber, Enqueue, TypeOK
<1>3. \A f \in Fibers : f > n => f > s_fiber_id
  BY <1>1
<1> HIDE DEF e, n
<1>4. /\ Len(m_fibers) + 1 \in 1 .. Len(m_fibers') /\ m_fibers'[Len(m_fibers) + 1] = e
      /\ \A i \in 1 .. Len(m_fibers) : i \in 1 .. Len(m_fibers') /\ m_fibers'[i] = m_fibers[i]
      /\ \A i \in 1 .. Len(m_fibers') : i \in 1 .. Len(m_fibers) \/ m_fibers'[i] = e
  BY <1>2, AppendFacts
<1>5. /\ \A f \in Fibers \ {n} : m_state'[f] = m_state[f] /\ m_cb'[f] = m_cb[f]
      /\ m_state'[n] = "INIT" /\ m_cb'[n] = j
  BY <1>1 DEF TypeOK
<1>6. /\ \A t \in Threads : cbFiber[t] # n /\ ft[t].fiber # n /\ Cur(t) # n /\ Cur(t)' = Cur(t)
      /\ \A t \in Threads : cbFiber[t] # NoFiber => cbFiber[t] \in Fibers
      /\ \A t \in Threads : Cur(t) # NoFiber => Cur(t) \in Fibers
      /\ \A t \in Threads : SwappedIn(t)' = SwappedIn(t) /\ AtWork(t)' = AtWork(t)
  <2>1. \A t \in Threads : cbFiber[t] # n /\ ft[t].fiber # n
    BY <1>1 DEF ThreadsApart, Held, TypeOK
  <2> QED
    BY <1>1, <2>1 DEF Cur, SwappedIn, AtWork, TypeOK, Entry
<1>7. /\ \A i \in 1 .. Len(m_fibers) : m_fibers[i].cb # j
      /\ \A t \in Threads : ft[t].cb # j
      /\ \A f \in Fibers : m_cb[f] # j
      /\ j # NoJob /\ j \notin done
  BY <1>1 DEF Pending
<1>8. EntryShape'
  BY <1>1, <1>2, <1>4 DEF EntryShape
<1>9. SpareEmpty'
  <2>1. \A t \in Threads : cbFiber[t] # NoFiber /\ (SwappedIn(t) => Cur(t) # cbFiber[t]) =>
          m_cb'[cbFiber[t]] = NoJob
    BY <1>5, <1>6 DEF SpareEmpty
  <2>2. \A f \in Fibers : f > n => m_cb'[f] = NoJob
    BY <1>1, <1>3, <1>5 DEF SpareEmpty
  <2> QED
    BY <1>1, <1>6, <2>1, <2>2 DEF SpareEmpty
<1>10. EntriesOnce'
  BY <1>1, <1>2, <1>4, <1>5, <1>7 DEF EntriesOnce
<1>11. LocalsOnce'
  BY <1>1, <1>5, <1>7 DEF LocalsOnce
<1>12. Pending'
  <2>1. \A i \in 1 .. Len(m_fibers') :
          m_fibers'[i].cb # NoJob => m_fibers'[i].cb \in submitted' \ done
    BY <1>1, <1>2, <1>4 DEF Pending
  <2> QED
    BY <1>1, <1>5, <1>7, <2>1 DEF Pending
<1>13. FiberPlaced'
  BY <1>1, <1>2, <1>4, <1>5, <1>6, SMTT(30) DEF FiberPlaced, Parked
<1>14. JobPlaced => JobPlaced'
  <2> SUFFICES ASSUME JobPlaced, NEW h \in submitted' \ done
               PROVE  \/ \E i \in 1 .. Len(m_fibers') : m_fibers'[i].cb = h
                      \/ \E t \in Threads : ft[t].cb = h
                      \/ \E f \in Fibers : m_cb'[f] = h
    BY <1>1 DEF JobPlaced
  <2>1. m_cb[n] = NoJob /\ NoJob \notin submitted
    BY <1>1 DEF SpareEmpty, TypeOK
  <2> QED
    BY <1>1, <1>4, <1>5, <2>1 DEF JobPlaced
<1>15. HoldArmed'
  <2>1. \A g : Asked(g) => Asked(g)'
    BY <1>1, <1>4 DEF Asked
  <2>2. \A t \in Threads :
          pc[t] \in {"hold", "sethold", "swapOut", "settle"} => Cur(t) \in Fibers \ {n}
    BY <1>6 DEF LocalsInv, SwappedIn, AtWork
  <2> QED
    BY <1>1, <1>5, <1>6, <2>1, <2>2 DEF HoldArmed
<1> QED
  BY <1>8, <1>9, <1>10, <1>11, <1>12, <1>13, <1>14, <1>15

-----------------------------------------------------------------------------
\* The constructed scheduler knows no job
LEMMA InitJob == ASSUME Init PROVE JobInv
<1> USE ConstAssumption DEF Init, ResetEntry, NoFiber
<1>1. EntryShape /\ SpareEmpty /\ HoldArmed
  BY DEF EntryShape, SpareEmpty, HoldArmed
<1>2. EntriesOnce /\ LocalsOnce
  BY DEF EntriesOnce, LocalsOnce
<1>3. Pending /\ FiberPlaced /\ JobPlaced
  BY DEF Pending, FiberPlaced, JobPlaced
<1> QED
  BY <1>1, <1>2, <1>3 DEF JobInv, JobCore

\* Every step keeps JobInv.  While a listed fiber is being left, its thread is
\* the only one, and it is between the request to be resumed and the end of
\* run()'s loop body.
LEMMA NextJob ==
  ASSUME EarlyInv, EarlyWake => OneThread, ~EarlyWake => IInv, JobInv, [Next]_vars
  PROVE  JobInv'
<1> USE DEF JobInv
<1>1. CASE CallerSchedules
  <2>1. ScheduleFrame
    BY <1>1 DEF CallerSchedules, ScheduleFrame
  <2> QED
    BY <1>1, <2>1, ConstAssumption, ScheduleCbJob, ScheduleFiberJob, ScheduleRangeJob
       DEF CallerSchedules
<1>2. CASE Start \/ StopBegins \/ StopStep
  BY <1>2, CallerJob
<1>3. ASSUME NEW t \in Threads, RunStep(t) \/ BodyStep(t) PROVE JobInv'
  <2>1. CASE IInv
    <3>1. CASE RunStep(t)
      BY <2>1, <3>1, PickJob, PickNothingJob, IdleJob, RunFiberJob, RunCallbackReuseJob,
         RunCallbackNewJob, SwapOutJob, RequeueJob, FinishJob, NoteHoldJob, SetHoldJob
         DEF RunStep, Idle
    <3>2. CASE Spawn(t)
      <4>1. ScheduleFrame
        BY <3>2 DEF Spawn, BodyFrame, ScheduleFrame
      <4> QED
        BY <3>2, <4>1, ConstAssumption, ScheduleCbJob, ScheduleFiberJob DEF Spawn
    <3>3. CASE BodyStep(t)
      BY <2>1, <3>2, <3>3, ReturnJob, ThrowJob, YieldToReadyJob, ArmJob, YieldToHoldJob
         DEF BodyStep
    <3> QED
      BY <1>3, <3>1, <3>3
  <2>2. CASE ~IInv
    <3>1. EarlyEntry(t)
      BY <2>2, EarlyIsLate DEF OneThread
    <3>2. YieldToHold(t) \/ SwapOut(t) \/ NoteHold(t) \/ SetHold(t)
      BY <1>3, <3>1, EarlyWayOut
    <3> QED
      BY <3>2, YieldToHoldJob, SwapOutJob, NoteHoldJob, SetHoldJob
  <2> QED
    BY <2>1, <2>2
<1>4. ASSUME NEW f \in Fibers, Wake(f) PROVE JobInv'
  BY <1>4, WakeJob
<1>5. CASE UNCHANGED vars
  BY <1>5, CallerFrameJob DEF vars, fiberVars
<1> QED
  BY <1>1, <1>2, <1>3, <1>4, <1>5 DEF Next, Terminated

\* Where JobInv leaves a job: in one entry, on one thread, or in a parked fiber
LEMMA OnePlace ==
  ASSUME IInv, JobInv, NEW j \in submitted \ done
  PROVE  LET listed == {i \in 1 .. Len(m_fibers) : CarriedBy(m_fibers[i], j)}
             onThread == {t \in Threads : OnThread(t, j)}
         IN  \/ (\E i \in 1 .. Len(m_fibers) : listed = {i}) /\ onThread = {} /\ ~Waiting(j)
             \/ listed = {} /\ (\E t \in Threads : onThread = {t}) /\ ~Waiting(j)
             \/ listed = {} /\ onThread = {} /\ Waiting(j)
<1> DEFINE listed == {i \in 1 .. Len(m_fibers) : CarriedBy(m_fibers[i], j)}
           onThread == {t \in Threads : OnThread(t, j)}
<1> USE ConstAssumption
<1>0. /\ j \in Jobs /\ j # NoJob /\ armed \subseteq Fibers /\ NoFiber \notin Fibers
      /\ \A i \in 1 .. Len(m_fibers) : m_fibers[i].fiber \in Fibers \cup {NoFiber}
      /\ \A t \in Threads : Cur(t) \in Fibers \cup {NoFiber}
  <2>1. \A i \in 1 .. Len(m_fibers) : m_fibers[i] \in Entry
    BY DEF IInv, TypeOK
  <2> QED
    BY <2>1 DEF IInv, TypeOK, Cur, Entry, NoFiber, Fibers
<1>1. ASSUME NEW i \in 1 .. Len(m_fibers), m_fibers[i].cb = j
      PROVE  listed = {i} /\ onThread = {} /\ ~Waiting(j)
  <2>1. \A f \in Fibers : m_cb[f] # j
    BY <1>0, <1>1 DEF JobInv, JobCore, EntriesOnce
  <2>2. \A k \in 1 .. Len(m_fibers) : CarriedBy(m_fibers[k], j) => k = i
    BY <1>0, <1>1, <2>1 DEF CarriedBy, JobInv, JobCore, EntriesOnce
  <2>3. \A t \in Threads : ~OnThread(t, j)
    BY <1>0, <1>1, <2>1 DEF OnThread, JobInv, JobCore, EntriesOnce
  <2> QED
    BY <1>0, <1>1, <2>1, <2>2, <2>3 DEF Waiting, CarriedBy
<1>2. ASSUME NEW t \in Threads, ft[t].cb = j
      PROVE  listed = {} /\ onThread = {t} /\ ~Waiting(j)
  <2>1. \A f \in Fibers : m_cb[f] # j
    BY <1>0, <1>2 DEF JobInv, JobCore, LocalsOnce
  <2>2. \A k \in 1 .. Len(m_fibers) : ~CarriedBy(m_fibers[k], j)
    BY <1>0, <1>2, <2>1 DEF CarriedBy, JobInv, JobCore, EntriesOnce
  <2>3. \A u \in Threads : OnThread(u, j) => u = t
    BY <1>0, <1>2, <2>1 DEF OnThread, JobInv, JobCore, LocalsOnce
  <2>4. OnThread(t, j)
    BY <1>0, <1>2 DEF OnThread, JobInv, JobCore, EntryShape
  <2> QED
    BY <1>0, <2>1, <2>2, <2>3, <2>4 DEF Waiting
<1>3. ASSUME NEW f \in Fibers, m_cb[f] = j,
             \A i \in 1 .. Len(m_fibers) : m_fibers[i].cb # j,
             \A t \in Threads : ft[t].cb # j
      PROVE  \/ (\E i \in 1 .. Len(m_fibers) : listed = {i}) /\ onThread = {} /\ ~Waiting(j)
             \/ listed = {} /\ (\E t \in Threads : onThread = {t}) /\ ~Waiting(j)
             \/ listed = {} /\ onThread = {} /\ Waiting(j)
  <2>1. \A g \in Fibers : m_cb[g] = j <=> g = f
    BY <1>0, <1>3 DEF JobInv, JobCore, LocalsOnce
  <2>2. \A k \in 1 .. Len(m_fibers) : CarriedBy(m_fibers[k], j) <=> m_fibers[k].fiber = f
    BY <1>0, <1>3, <2>1 DEF CarriedBy
  <2>3. \A u \in Threads : OnThread(u, j) <=> AtWork(u) /\ Cur(u) = f
    BY <1>0, <1>3, <2>1 DEF OnThread, AtWork
  <2>4. Waiting(j) <=> f \in armed /\ Parked(f)
    BY <1>0, <2>1 DEF Waiting
  <2>5. \A u \in Threads : Cur(u) = f => Held(u, f)
    BY DEF Held, Cur
  <2>6. CASE \E i \in 1 .. Len(m_fibers) : m_fibers[i].fiber = f
    <3>1. PICK i \in 1 .. Len(m_fibers) : m_fibers[i].fiber = f
      BY <2>6
    <3>2. \A k \in 1 .. Len(m_fibers) : m_fibers[k].fiber = f => k = i
      BY <1>0, <3>1 DEF IInv, ListDistinct
    <3>3. (\A u \in Threads : ~Held(u, f)) /\ f \notin armed
      BY <1>0, <3>1 DEF IInv, ListApart, ListInv
    <3> QED
      BY <2>2, <2>3, <2>4, <2>5, <3>1, <3>2, <3>3
  <2>7. CASE \E t \in Threads : AtWork(t) /\ Cur(t) = f
    <3>1. PICK t \in Threads : AtWork(t) /\ Cur(t) = f
      BY <2>7
    <3>2. /\ \A u \in Threads : Held(u, f) => u = t
          /\ \A k \in 1 .. Len(m_fibers) : m_fibers[k].fiber # f
          /\ ~Parked(f)
      BY <1>0, <2>5, <3>1 DEF IInv, ThreadsApart, ListApart, Held, Parked
    <3> QED
      BY <2>2, <2>3, <2>4, <2>5, <3>1, <3>2
  <2>8. CASE f \in armed /\ Parked(f)
    <3>1. /\ \A u \in Threads : ~Held(u, f)
          /\ \A k \in 1 .. Len(m_fibers) : m_fibers[k].fiber # f
      BY <1>0, <2>8 DEF IInv, ListInv, Held, Parked
    <3> QED
      BY <2>2, <2>3, <2>4, <2>5, <2>8, <3>1
  <2> QED
    BY <1>0, <1>3, <2>6, <2>7, <2>8 DEF JobInv, JobCore, FiberPlaced
<1>4. \/ \E i \in 1 .. Len(m_fibers) : m_fibers[i].cb = j
      \/ \E t \in Threads : ft[t].cb = j
      \/ \E f \in Fibers : m_cb[f] = j
  BY DEF JobInv, JobPlaced
<1> HIDE DEF listed, onThread
<1>5. \/ (\E i \in 1 .. Len(m_fibers) : listed = {i}) /\ onThread = {} /\ ~Waiting(j)
      \/ listed = {} /\ (\E t \in Threads : onThread = {t}) /\ ~Waiting(j)
      \/ listed = {} /\ onThread = {} /\ Waiting(j)
  BY <1>1, <1>2, <1>3, <1>4
<1> QED
  BY <1>5 DEF listed, onThread

\* ... which is what JobConserved counts
LEMMA PlacesCounted == ASSUME IInv, JobInv PROVE JobConserved
<1> SUFFICES ASSUME NEW j \in submitted \ done
             PROVE  Cardinality({i \in 1 .. Len(m_fibers) : CarriedBy(m_fibers[i], j)})
                    + Cardinality({t \in Threads : OnThread(t, j)})
                    + (IF Waiting(j) THEN 1 ELSE 0) = 1
  BY DEF JobConserved
<1> DEFINE listed == {i \in 1 .. Len(m_fibers) : CarriedBy(m_fibers[i], j)}
           onThread == {t \in Threads : OnThread(t, j)}
<1>1. \/ (\E i \in 1 .. Len(m_fibers) : listed = {i}) /\ onThread = {} /\ ~Waiting(j)
      \/ listed = {} /\ (\E t \in Threads : onThread = {t}) /\ ~Waiting(j)
      \/ listed = {} /\ onThread = {} /\ Waiting(j)
  BY OnePlace
<1> HIDE DEF listed, onThread
<1>2. \/ Cardinality(listed) = 1 /\ Cardinality(onThread) = 0 /\ ~Waiting(j)
      \/ Cardinality(listed) = 0 /\ Cardinality(onThread) = 1 /\ ~Waiting(j)
      \/ Cardinality(listed) = 0 /\ Cardinality(onThread) = 0 /\ Waiting(j)
  BY <1>1, FS_EmptySet, FS_Singleton, Zenon
<1>3. Cardinality(listed) + Cardinality(onThread) + (IF Waiting(j) THEN 1 ELSE 0) = 1
  BY <1>2
<1> QED
  BY <1>3 DEF listed, onThread

-----------------------------------------------------------------------------
\* JobInv holds in every state, for any number of threads, jobs and yields,
\* under the conditions under which IInv does.
THEOREM JobInvariance ==
  ASSUME ~EarlyWake, UseCaller => MaxStarts < 2
  PROVE  Spec => [](IInv /\ JobInv)
<1>1. Init => IInv /\ JobInv
  BY InitEstablishes, InitJob
<1>2. (IInv /\ JobInv) /\ [Next]_vars => (IInv /\ JobInv)'
  BY NextPreserves, NextJob, LateIsEarly
<1> QED
  BY <1>1, <1>2, PTL DEF Spec

\* On one thread it holds with EarlyInv, whenever fibers are resumed.
THEOREM EarlyJobInvariance ==
  ASSUME EarlyWake => OneThread, UseCaller => MaxStarts < 2
  PROVE  Spec => [](EarlyInv /\ JobInv)
<1>1. CASE ~EarlyWake
  <2>1. IInv => EarlyInv
    BY LateIsEarly
  <2> QED
    BY <1>1, <2>1, JobInvariance, PTL
<1>2. CASE EarlyWake
  <2>1. Init => EarlyInv /\ JobInv
    BY InitEstablishes, LateIsEarly, InitJob
  <2>2. (EarlyInv /\ JobInv) /\ [Next]_vars => (EarlyInv /\ JobInv)'
    BY <1>2, EarlyNextPreserves, NextJob
  <2> QED
    BY <2>1, <2>2, PTL DEF Spec
<1> QED
  BY <1>1, <1>2

\* A job handed to schedule() that has not ended is in exactly one place: an
\* entry of m_fibers, a thread's locals in run(), or a parked fiber somebody
\* will resume.  None is dropped and none is run twice.
THEOREM NoJobLost ==
  ASSUME ~EarlyWake, UseCaller => MaxStarts < 2
  PROVE  Spec => []JobConserved
<1>1. IInv /\ JobInv => JobConserved
  BY PlacesCounted
<1> QED
  BY <1>1, JobInvariance, PTL

-----------------------------------------------------------------------------
(* stop() drains the scheduler.                                             *)

\* Some thread has seen stopping() and will leave run()
Ending == \E t \in Threads : pc[t] # "none" /\ idleState[t] = "TERM"

\* Which threads exist, and that one leaves run() only after its idle fiber ended
ExitInv ==
  /\ main \notin {"created", "stopped"} => \A w \in Workers : pc[w] # "none"
  /\ \A t \in Threads : pc[t] = "exit" => idleState[t] = "TERM"

\* stopping() is seen only while stop() is at work
StoppingInv ==
  /\ m_stopping => main \notin {"started", "stop"}
  /\ Ending => main \in {"stopCheck", "inRun", "join"}

\* The thread arguments that no thread of the pool passes over
OpenPins == {AnyThread} \cup {t \in Threads : OneThread}

\* Once it has been seen, whatever is still queued may be taken by any thread
UnpinnedInv ==
  Ending => \A i \in 1 .. Len(m_fibers) : m_fibers[i].thread \in OpenPins

\* When the last thread has left run(), only fibers resumed too late are queued
DrainedInv ==
  /\ main \in {"inRun", "join"} \/ (main = "stopCheck" /\ ~UseCaller)
  /\ \A t \in Threads : pc[t] \in {"none", "exit"}
  => \A i \in 1 .. Len(m_fibers) :
       m_fibers[i].fiber # NoFiber /\ m_state[m_fibers[i].fiber] = "HOLD"

DrainInv == ExitInv /\ StoppingInv /\ UnpinnedInv /\ DrainedInv

\* Steps of a thread that stays in run() without having seen stopping(), and
\* queues entries for any thread only
LEMMA BusyDrain ==
  ASSUME DrainInv, NEW t \in Threads, UNCHANGED <<main, m_stopping>>,
         pc[t] \notin {"none", "exit"}, pc'[t] \notin {"none", "exit"},
         \A u \in Threads \ {t} : pc'[u] = pc[u],
         \A u \in Threads : idleState'[u] = idleState[u] \/ idleState'[u] # "TERM",
         \A u \in Threads \ {t} : idleState'[u] = idleState[u],
         \A i \in 1 .. Len(m_fibers') :
            \/ m_fibers'[i].thread \in OpenPins
            \/ \E k \in 1 .. Len(m_fibers) : m_fibers'[i] = m_fibers[k]
  PROVE  DrainInv'
<1> USE ConstAssumption DEF DrainInv
<1>1. ExitInv'
  BY DEF ExitInv, Threads
<1>2. Ending' => Ending
  BY DEF Ending
<1>3. StoppingInv' /\ UnpinnedInv'
  BY <1>2 DEF StoppingInv, UnpinnedInv
<1>4. DrainedInv'
  BY DEF DrainedInv
<1> QED
  BY <1>1, <1>3, <1>4

\* Every step of run() and of a job, if running jobs pin nothing
LEMMA ThreadDrain ==
  ASSUME EarlyInv, EarlyWake => OneThread, ~EarlyWake => IInv, DrainInv,
         SpawnPins \subseteq OpenPins, NEW t \in Threads,
         RunStep(t) \/ BodyStep(t)
  PROVE  DrainInv'
<1> USE ConstAssumption DEF EarlyInv, callerVars
<1>0. m_fibers \in Seq(Entry) /\ Len(m_fibers) \in Nat
  BY DEF TypeOK
<1>1. CASE Pick(t)
  <2>1. PICK i \in 1 .. Len(m_fibers) : m_fibers' = RemoveAt(m_fibers, i)
    BY <1>1 DEF Pick, Candidates
  <2>2. /\ Len(m_fibers') = Len(m_fibers) - 1
        /\ \A k \in 1 .. Len(m_fibers') :
             m_fibers'[k] = IF k < i THEN m_fibers[k] ELSE m_fibers[k + 1]
    BY <1>0, <2>1, RemoveAtFacts
  <2>3. \A k \in 1 .. Len(m_fibers') :
          \E n \in 1 .. Len(m_fibers) : m_fibers'[k] = m_fibers[n]
    BY <1>0, <2>2
  <2> QED
    BY <1>1, <2>3, BusyDrain, SMTT(30) DEF Pick, TypeOK
<1>2. CASE PickNothing(t)
  <2>1. CASE idleState[t] # "TERM"
    <3>1. /\ pc[t] = "pick" /\ pc' = [pc EXCEPT ![t] = "idling"]
          /\ idleState' = [idleState EXCEPT ![t] = "EXEC"]
          /\ UNCHANGED <<m_fibers, main, m_stopping>>
      BY <1>2, <2>1 DEF PickNothing
    <3>2. /\ pc'[t] = "idling" /\ idleState'[t] = "EXEC"
          /\ \A u \in Threads \ {t} : pc'[u] = pc[u] /\ idleState'[u] = idleState[u]
      BY <3>1 DEF TypeOK
    <3> QED
      BY <3>1, <3>2, BusyDrain
  <2>2. CASE idleState[t] = "TERM"
    <3>1. /\ pc[t] = "pick" /\ pc' = [pc EXCEPT ![t] = "exit"] /\ Candidates(t) = {}
          /\ UNCHANGED <<m_fibers, main, m_stopping, idleState, m_state>>
      BY <1>2, <2>2 DEF PickNothing, fiberVars
    <3>2. Ending /\ (Ending' => Ending)
      BY <2>2, <3>1 DEF Ending, TypeOK
    <3>3. Len(m_fibers) = 0
      <4>1. \A i \in 1 .. Len(m_fibers) : Runnable(t, m_fibers[i])
        <5>1. IInv
          BY <3>1, RestIsLate DEF OneThread, AtWork
        <5>2. \A e \in OpenPins : e \in {AnyThread, t}
          BY DEF OpenPins, OneThread
        <5>3. \A i \in 1 .. Len(m_fibers) : m_fibers[i].thread \in {AnyThread, t}
          BY <3>2, <5>2 DEF DrainInv, UnpinnedInv
        <5> QED
          BY <5>1, <5>3 DEF IInv, Runnable, ListInv, ResumableState
      <4>2. 1 \notin 1 .. Len(m_fibers)
        BY <3>1, <4>1 DEF Candidates
      <4> QED
        BY <1>0, <4>2
    <3>4. ExitInv' /\ StoppingInv' /\ UnpinnedInv'
      BY <2>2, <3>1, <3>2 DEF DrainInv, ExitInv, StoppingInv, UnpinnedInv, TypeOK, Threads
    <3>5. DrainedInv'
      BY <3>1, <3>3 DEF DrainedInv
    <3> QED
      BY <3>4, <3>5 DEF DrainInv
  <2> QED
    BY <2>1, <2>2
<1>3. CASE Idle(t)
  <2>1. CASE ~Stopping
    BY <1>3, <2>1, BusyDrain DEF Idle, TypeOK
  <2>2. CASE Stopping
    <3>1. /\ pc[t] = "idling" /\ pc' = [pc EXCEPT ![t] = "pick"] /\ m_fibers' = <<>>
          /\ idleState' = [idleState EXCEPT ![t] = "TERM"]
          /\ UNCHANGED <<main, m_stopping>> /\ m_stopping
      BY <1>3, <2>2 DEF Idle, Stopping
    <3>2. main \in {"stopCheck", "inRun", "join"}
      <4>1. main \notin {"started", "stop"}
        BY <3>1 DEF DrainInv, StoppingInv
      <4>2. main \notin {"created", "stopped"}
        BY <3>1 DEF MainInv, Threads
      <4> QED
        BY <4>1, <4>2 DEF TypeOK, MainSet
    <3>3. ExitInv' /\ StoppingInv' /\ UnpinnedInv' /\ DrainedInv'
      BY <3>1, <3>2 DEF DrainInv, ExitInv, StoppingInv, UnpinnedInv, DrainedInv, TypeOK, Threads
    <3> QED
      BY <3>3 DEF DrainInv
  <2> QED
    BY <2>1, <2>2
<1>4. CASE RunFiber(t) \/ RunCallbackNew(t)
  BY <1>4, BusyDrain DEF RunFiber, RunCallbackNew, SwapIn, TypeOK
<1>5. CASE RunCallbackReuse(t)
  <2>1. m_state[cbFiber[t]] = "INIT"
    BY <1>5 DEF RunCallbackReuse, SpareInv, SwappedIn, AtWork, TypeOK
  <2> QED
    BY <1>5, <2>1, BusyDrain DEF RunCallbackReuse, SwapIn, TypeOK
<1>6. CASE SwapOut(t) \/ Finish(t) \/ NoteHold(t) \/ SetHold(t)
  BY <1>6, BusyDrain, SMTT(30) DEF SwapOut, Finish, NoteHold, SetHold, SettleFrame, TypeOK
<1>7. CASE Requeue(t)
  <2>1. Cur(t) \in Fibers
    BY <1>7 DEF Requeue, LocalsInv, SwappedIn, AtWork, Cur, TypeOK, Entry
  <2>2. \A i \in 1 .. Len(m_fibers') :
          \/ m_fibers'[i].thread \in OpenPins
          \/ \E k \in 1 .. Len(m_fibers) : m_fibers'[i] = m_fibers[k]
    <3>1. FiberEntry(Cur(t), AnyThread) \in Entry /\ FiberEntry(Cur(t), AnyThread).thread \in OpenPins
      BY <2>1 DEF FiberEntry, Entry, OpenPins
    <3> QED
      BY <1>0, <1>7, <3>1, AppendFacts DEF Requeue, Enqueue
  <2> QED
    BY <1>7, <2>2, BusyDrain DEF Requeue, SettleFrame, TypeOK
<1>8. CASE Return(t) \/ Throw(t) \/ YieldToReady(t) \/ Arm(t) \/ YieldToHold(t)
  BY <1>8, BusyDrain DEF Return, Throw, YieldToReady, Arm, YieldToHold, BodyFrame, TypeOK
<1>9. CASE Spawn(t)
  <2>1. PICK j \in Fresh, thr \in SpawnPins : ScheduleCb(j, thr) \/ ScheduleFiber(j, thr)
    BY <1>9 DEF Spawn
  <2>2. ASSUME NEW e \in Entry, e.thread \in OpenPins, m_fibers' = Append(m_fibers, e)
        PROVE  \A i \in 1 .. Len(m_fibers') :
                 \/ m_fibers'[i].thread \in OpenPins
                 \/ \E k \in 1 .. Len(m_fibers) : m_fibers'[i] = m_fibers[k]
    BY <1>0, <2>2, AppendFacts
  <2>3. \A i \in 1 .. Len(m_fibers') :
          \/ m_fibers'[i].thread \in OpenPins
          \/ \E k \in 1 .. Len(m_fibers) : m_fibers'[i] = m_fibers[k]
    <3>1. CASE ScheduleCb(j, thr)
      <4>1. CbEntry(j, thr) \in Entry /\ CbEntry(j, thr).thread \in OpenPins
        BY <2>1 DEF CbEntry, Entry, Fresh
      <4> QED
        BY <2>2, <3>1, <4>1 DEF ScheduleCb, Enqueue
    <3>2. CASE ScheduleFiber(j, thr)
      <4>1. s_fiber_id + 1 \in Fibers
        BY <3>2 DEF ScheduleFiber, NewFiber, Fibers, TypeOK
      <4>2. FiberEntry(s_fiber_id + 1, thr) \in Entry /\ FiberEntry(s_fiber_id + 1, thr).thread \in OpenPins
        BY <2>1, <4>1 DEF FiberEntry, Entry
      <4> QED
        BY <2>2, <3>2, <4>2 DEF ScheduleFiber, Enqueue
    <3> QED
      BY <2>1, <3>1, <3>2
  <2> QED
    BY <1>9, <2>3, BusyDrain DEF Spawn, BodyFrame, TypeOK
<1> QED
  BY <1>1, <1>2, <1>3, <1>4, <1>5, <1>6, <1>7, <1>8, <1>9 DEF RunStep, BodyStep

\* Every other step: those of the caller, and the wake-ups
LEMMA NextDrain ==
  ASSUME EarlyInv, EarlyWake => OneThread, ~EarlyWake => IInv, DrainInv,
         SpawnPins \subseteq OpenPins, UseCaller => MaxStarts < 2, [Next]_vars
  PROVE  DrainInv'
<1> USE ConstAssumption DEF EarlyInv, DrainInv, ExitInv, StoppingInv, UnpinnedInv, Ending, DrainedInv
<1>0. m_fibers \in Seq(Entry)
  BY DEF TypeOK
<1>1. CASE CallerSchedules
  <2>1. /\ main \in {"created", "started", "stopped"}
        /\ UNCHANGED <<main, m_stopping, pc, idleState>>
    BY <1>1 DEF CallerSchedules, CallerFree, callerVars
  <2> QED
    BY <2>1
<1>2. CASE Start
  <2>1. /\ main \in {"created", "stopped"} /\ main' = "started" /\ ~m_stopping'
        /\ \A w \in Workers : pc'[w] = "pick" /\ idleState'[w] = "INIT"
        /\ UseCaller => pc'[Caller] = "none"
    BY <1>2 DEF Start, CallerFree, MainInv, TypeOK, MainSet, Threads
  <2> QED
    BY <2>1 DEF Threads
<1>3. CASE StopBegins
  BY <1>3 DEF StopBegins, StopFrame
<1>4. CASE StopReturnsEarly
  BY <1>4 DEF StopReturnsEarly, StopFrame, NothingToRun
<1>5. CASE StopFlags
  <2>1. /\ main = "stop" /\ main' = "stopCheck" /\ UNCHANGED <<m_fibers, pc, idleState>>
    BY <1>5 DEF StopFlags, StopFrame
  <2>2. ~Ending
    BY <2>1
  <2>3. ~UseCaller => \E w \in Threads : pc[w] \notin {"none", "exit"}
    BY <2>1, <2>2 DEF Threads
  <2> QED
    BY <2>1, <2>2, <2>3
<1>6. CASE StopCalls
  <2>1. CASE UseCaller /\ ~Stopping
    <3>1. rootState = "INIT" /\ Caller \in Threads /\ pc[Caller] = "none"
      BY <1>6, <2>1 DEF MainInv, Threads, StopCalls
    <3>2. /\ main = "stopCheck" /\ main' = "inRun" /\ UNCHANGED <<m_fibers, m_stopping>>
          /\ pc' = [pc EXCEPT ![Caller] = "pick"]
          /\ idleState' = [idleState EXCEPT ![Caller] = "INIT"]
      BY <1>6, <2>1, <3>1 DEF StopCalls, StopFrame
    <3>3. /\ pc'[Caller] = "pick" /\ idleState'[Caller] = "INIT"
          /\ \A u \in Threads \ {Caller} : pc'[u] = pc[u] /\ idleState'[u] = idleState[u]
      BY <3>1, <3>2 DEF TypeOK
    <3> QED
      BY <3>1, <3>2, <3>3 DEF Threads
  <2>2. CASE ~(UseCaller /\ ~Stopping)
    <3>1. /\ main = "stopCheck" /\ main' = "join"
          /\ UNCHANGED <<m_fibers, m_stopping, pc, idleState, m_state>>
      BY <1>6, <2>2 DEF StopCalls, StopFrame, fiberVars
    <3>2. UseCaller => Len(m_fibers) = 0
      BY <2>2 DEF Stopping
    <3> QED
      BY <3>1, <3>2
  <2> QED
    BY <2>1, <2>2
<1>7. CASE RootReturns
  <2>1. /\ main = "inRun" /\ main' = "join" /\ pc[Caller] = "exit" /\ Caller \in Threads
        /\ pc' = [pc EXCEPT ![Caller] = "none"]
        /\ UNCHANGED <<m_fibers, m_stopping, idleState, m_state>>
    BY <1>7 DEF RootReturns, StopFrame, fiberVars, MainInv, Threads
  <2>2. pc'[Caller] = "none" /\ \A u \in Threads \ {Caller} : pc'[u] = pc[u]
    BY <2>1 DEF TypeOK
  <2> QED
    BY <2>1, <2>2
<1>8. CASE Join
  <2>1. \A u \in Threads : pc'[u] = "none"
    BY <1>8 DEF Join, MainInv, Threads
  <2> QED
    BY <1>8, <2>1 DEF Join, StopFrame
<1>9. ASSUME NEW f \in Fibers, Wake(f) PROVE DrainInv'
  <2> DEFINE e == FiberEntry(f, AnyThread)
  <2>1. /\ m_fibers' = Append(m_fibers, e)
        /\ UNCHANGED <<main, m_stopping, pc, idleState, m_state>>
        /\ f # NoFiber /\ f \in armed
    BY <1>9 DEF Wake, Enqueue, callerVars, Fibers, NoFiber
  <2>2. e \in Entry /\ e.fiber = f /\ e.thread \in OpenPins
    BY DEF FiberEntry, Entry, OpenPins
  <2> HIDE DEF e
  <2>3. /\ \A i \in 1 .. Len(m_fibers) : m_fibers'[i] = m_fibers[i]
        /\ \A i \in 1 .. Len(m_fibers') : i \in 1 .. Len(m_fibers) \/ m_fibers'[i] = e
    BY <1>0, <2>1, <2>2, AppendFacts
  <2>4. (\A t \in Threads : pc[t] \in {"none", "exit"}) => m_state[f] = "HOLD"
    <3>1. \A t \in Threads : pc[t] \in {"none", "exit"} => ~AtWork(t) /\ ~SwappedIn(t)
      BY DEF AtWork, SwappedIn
    <3> QED
      BY <2>1, <3>1 DEF ArmedInv, Parked, SpareInv, LocalsInv
  <2> QED
    BY <2>1, <2>2, <2>3, <2>4
<1>10. ASSUME NEW t \in Threads, RunStep(t) \/ BodyStep(t) PROVE DrainInv'
  BY <1>10, ThreadDrain
<1>11. CASE UNCHANGED vars
  BY <1>11 DEF vars
<1> QED
  BY <1>1, <1>2, <1>3, <1>4, <1>5, <1>6, <1>7, <1>8, <1>9, <1>10, <1>11
     DEF Next, StopStep, Terminated

\* What stop() leaves behind when it returns: threads that hold nothing, and in
\* the list nothing but fibers that were resumed too late
LEMMA StopLeaves ==
  ASSUME EarlyInv, DrainInv, main # "stopped", main' = "stopped", [Next]_vars
  PROVE  /\ StopReturnsEarly \/ Join
         /\ UNCHANGED <<m_fibers, m_state, m_cb, submitted, done>>
         /\ \A t \in Threads : ~AtWork(t)
         /\ \A i \in 1 .. Len(m_fibers) :
              m_fibers[i].fiber # NoFiber /\ m_state[m_fibers[i].fiber] = "HOLD"
<1> USE ConstAssumption
<1>1. StopReturnsEarly \/ Join
  <2>1. ~CallerSchedules /\ ~Start /\ ~StopBegins /\ ~UNCHANGED vars /\ ~Terminated
    BY DEF CallerSchedules, callerVars, Start, StopBegins, vars, Terminated
  <2>2. \A f \in Fibers : ~Wake(f)
    BY DEF Wake, callerVars
  <2>3. \A t \in Threads : ~RunStep(t) /\ ~BodyStep(t)
    BY DEF RunStep, Pick, PickNothing, Idle, RunFiber, RunCallbackReuse, RunCallbackNew,
           SwapOut, Requeue, Finish, NoteHold, SetHold, SettleFrame, BodyStep, Return, Throw,
           YieldToReady, Arm, YieldToHold, Spawn, BodyFrame, callerVars
  <2>4. ~StopFlags /\ ~StopCalls /\ ~RootReturns
    BY DEF StopFlags, StopCalls, RootReturns
  <2> QED
    BY <2>1, <2>2, <2>3, <2>4 DEF Next, StopStep
<1>2. CASE StopReturnsEarly
  <2>1. Threads = {Caller} /\ pc[Caller] = "none" /\ Len(m_fibers) = 0
    BY <1>2 DEF StopReturnsEarly, NothingToRun, Threads, EarlyInv, MainInv
  <2> QED
    BY <1>2, <2>1 DEF StopReturnsEarly, StopFrame, fiberVars, jobVars, AtWork
<1>3. CASE Join
  <2>1. \A t \in Threads : pc[t] \in {"none", "exit"}
    BY <1>3 DEF Join, AllExited, Threads, EarlyInv, MainInv
  <2> QED
    BY <1>3, <2>1 DEF Join, StopFrame, fiberVars, jobVars, AtWork, DrainInv, DrainedInv
<1> QED
  BY <1>1, <1>2, <1>3

\* So a job that has not ended by then waits in a fiber in HOLD
LEMMA LeftInHold ==
  ASSUME IInv, JobInv, NEW j \in submitted \ done,
         \A t \in Threads : ~AtWork(t),
         \A i \in 1 .. Len(m_fibers) :
           m_fibers[i].fiber # NoFiber /\ m_state[m_fibers[i].fiber] = "HOLD"
  PROVE  \E f \in Fibers : m_cb[f] = j /\ m_state[f] = "HOLD"
<1>1. CASE Waiting(j)
  BY <1>1 DEF Waiting, IInv, ArmedInv, TypeOK
<1>2. CASE \E i \in 1 .. Len(m_fibers) : CarriedBy(m_fibers[i], j)
  <2>1. PICK i \in 1 .. Len(m_fibers) : CarriedBy(m_fibers[i], j)
    BY <1>2
  <2>2. m_fibers[i] \in Entry /\ j \in Jobs
    BY DEF IInv, TypeOK
  <2> QED
    BY <2>1, <2>2, ConstAssumption DEF CarriedBy, JobInv, JobCore, EntryShape, Entry
<1>3. \A t \in Threads : ~OnThread(t, j)
  BY DEF OnThread, AtWork
<1> QED
  BY <1>1, <1>2, <1>3, OnePlace

\* All of it together
WholeInv == EarlyInv /\ (~EarlyWake => IInv) /\ JobInv /\ DrainInv

LEMMA InitWhole == ASSUME Init PROVE WholeInv
<1>1. IInv /\ EarlyInv /\ JobInv
  BY InitEstablishes, LateIsEarly, InitJob
<1>2. DrainInv
  BY ConstAssumption DEF Init, DrainInv, ExitInv, StoppingInv, UnpinnedInv, DrainedInv, Ending
<1> QED
  BY <1>1, <1>2 DEF WholeInv

LEMMA NextWhole ==
  ASSUME EarlyWake => OneThread, SpawnPins \subseteq OpenPins, UseCaller => MaxStarts < 2,
         WholeInv, [Next]_vars
  PROVE  WholeInv'
<1> USE DEF WholeInv
<1>1. ~EarlyWake => IInv'
  BY NextPreserves
<1>2. EarlyInv'
  <2>1. CASE EarlyWake
    BY <2>1, EarlyNextPreserves
  <2>2. CASE ~EarlyWake
    BY <1>1, <2>2 DEF EarlyInv, IInv, EarlyListInv, ListInv, EarlyListApart, ListApart
  <2> QED
    BY <2>1, <2>2
<1>3. JobInv' /\ DrainInv'
  BY NextJob, NextDrain
<1> QED
  BY <1>1, <1>2, <1>3

\* A step that ends stop() leaves only jobs whose fiber is in HOLD
LEMMA EndDrains ==
  ASSUME WholeInv, main' = "stopped", main # "stopped", [Next]_vars, NEW j \in submitted \ done
  PROVE  \E f \in Fibers : m_cb[f] = j /\ m_state[f] = "HOLD"
  BY StopLeaves, RestIsLate, LeftInHold DEF WholeInv

\* When stop() returns, every job has ended except those whose fiber is in
\* HOLD, provided in addition that running jobs pin nothing to one thread of
\* several: a job woken late may pin a new one to a thread that has left run()
\* already.
THEOREM StopDrainsAll ==
  ASSUME EarlyWake => OneThread, SpawnPins \subseteq OpenPins, UseCaller => MaxStarts < 2
  PROVE  Spec => StopDrains
<1>1. Init => WholeInv
  BY InitWhole
<1>2. WholeInv /\ [Next]_vars => WholeInv'
  BY NextWhole
<1>3. WholeInv /\ [Next]_vars =>
        [main' = "stopped" /\ main # "stopped" =>
           \A j \in submitted \ done :
             \E f \in Fibers : m_cb[f] = j /\ m_state[f] = "HOLD"]_vars
  BY EndDrains
<1> QED
  BY <1>1, <1>2, <1>3, PTL DEF Spec, StopDrains

-----------------------------------------------------------------------------
(* The scheduler implements TaskPool, step by step: what each action of     *)
(* Scheduler does to the status of the jobs and to the phase of the pool is *)
(* an action of TaskPool or nothing.                                        *)

\* The status of a job as a table, and that its places exclude each other
StatusInv ==
  \A j \in Jobs :
    /\ j \notin submitted => JobStatus(j) = "fresh"
    /\ j \in submitted /\ j \in done => JobStatus(j) = "done"
    /\ j \in submitted \ done =>
         /\ Running(j) => JobStatus(j) = "running"
         /\ ~Running(j) /\ Queued(j) => JobStatus(j) = "queued"
         /\ ~Running(j) /\ ~Queued(j) /\ Listed(j) => JobStatus(j) = "woken"
         /\ ~Running(j) /\ ~Listed(j) => JobStatus(j) = "parked"
         /\ Queued(j) => Listed(j)
         /\ Listed(j) => ~Running(j)
         /\ Waiting(j) => ~Running(j) /\ ~Listed(j)
         /\ \A i, k \in 1 .. Len(m_fibers) :
              CarriedBy(m_fibers[i], j) /\ CarriedBy(m_fibers[k], j) => i = k

PoolInv == IInv /\ JobInv /\ DrainInv /\ StatusInv

\* StatusInv follows from where JobInv puts the jobs
LEMMA StatusTable == ASSUME IInv, JobInv PROVE StatusInv
<1> SUFFICES ASSUME NEW j \in Jobs
             PROVE
    /\ j \notin submitted => JobStatus(j) = "fresh"
    /\ j \in submitted /\ j \in done => JobStatus(j) = "done"
    /\ j \in submitted \ done =>
         /\ Running(j) => JobStatus(j) = "running"
         /\ ~Running(j) /\ Queued(j) => JobStatus(j) = "queued"
         /\ ~Running(j) /\ ~Queued(j) /\ Listed(j) => JobStatus(j) = "woken"
         /\ ~Running(j) /\ ~Listed(j) => JobStatus(j) = "parked"
         /\ Queued(j) => Listed(j)
         /\ Listed(j) => ~Running(j)
         /\ Waiting(j) => ~Running(j) /\ ~Listed(j)
         /\ \A i, k \in 1 .. Len(m_fibers) :
              CarriedBy(m_fibers[i], j) /\ CarriedBy(m_fibers[k], j) => i = k
  BY DEF StatusInv
<1>2. Queued(j) => Listed(j)
  BY DEF Queued, Listed
<1>3. ASSUME j \in submitted \ done
      PROVE  /\ Listed(j) => ~Running(j)
             /\ Waiting(j) => ~Running(j) /\ ~Listed(j)
             /\ \A i, k \in 1 .. Len(m_fibers) :
                  CarriedBy(m_fibers[i], j) /\ CarriedBy(m_fibers[k], j) => i = k
  <2> DEFINE listed == {i \in 1 .. Len(m_fibers) : CarriedBy(m_fibers[i], j)}
             onThread == {t \in Threads : OnThread(t, j)}
  <2>1. \/ (\E i \in 1 .. Len(m_fibers) : listed = {i}) /\ onThread = {} /\ ~Waiting(j)
        \/ listed = {} /\ (\E t \in Threads : onThread = {t}) /\ ~Waiting(j)
        \/ listed = {} /\ onThread = {} /\ Waiting(j)
    BY <1>3, OnePlace
  <2>2. /\ Listed(j) <=> listed # {}
        /\ Running(j) <=> onThread # {}
        /\ \A i \in 1 .. Len(m_fibers) : CarriedBy(m_fibers[i], j) <=> i \in listed
    BY DEF Listed, Running
  <2> HIDE DEF listed, onThread
  <2> QED
    BY <2>1, <2>2
<1> QED
  BY <1>2, <1>3 DEF JobStatus

-----------------------------------------------------------------------------
(* How status and phase change, in the terms of TaskPool.                   *)

\* A job keeps its status when nothing it depends on changes
LEMMA SameStatus ==
  ASSUME StatusInv, StatusInv', NEW j \in Jobs,
         j \in submitted' <=> j \in submitted, j \in done' <=> j \in done,
         j \in submitted \ done =>
           /\ Running(j)' <=> Running(j)
           /\ Queued(j)' <=> Queued(j)
           /\ Listed(j)' <=> Listed(j)
  PROVE  JobStatus(j)' = JobStatus(j)
  BY DEF StatusInv

\* Nothing changes for the pool
LEMMA PoolStutters ==
  ASSUME \A j \in Jobs : JobStatus(j)' = JobStatus(j), UNCHANGED main
  PROVE  UNCHANGED Pool!poolVars
  BY DEF Pool!poolVars

\* One job changes its status
LEMMA PoolMoves ==
  ASSUME NEW j \in Jobs, NEW from, NEW to, JobStatus(j) = from, JobStatus(j)' = to,
         \A k \in Jobs \ {j} : JobStatus(k)' = JobStatus(k), UNCHANGED main
  PROVE  Pool!Move(j, from, to)
  BY DEF Pool!Move

\* A step of thread t on its own locals and fibers: the other threads keep
\* their jobs, and so does the list if it is the same
LEMMA LocalStep ==
  ASSUME IInv, NEW t \in Threads,
         \A u \in Threads \ {t} : pc'[u] = pc[u] /\ ft'[u] = ft[u] /\ cbFiber'[u] = cbFiber[u],
         \A f \in Fibers : f <= s_fiber_id /\ ~Held(t, f) =>
           m_cb'[f] = m_cb[f] /\ m_state'[f] = m_state[f]
  PROVE  /\ \A u \in Threads \ {t} : \A j \in Jobs : OnThread(u, j)' <=> OnThread(u, j)
         /\ \A i \in 1 .. Len(m_fibers) : \A j \in Jobs :
              LET e == m_fibers[i] IN
              /\ e.fiber # NoFiber => m_cb'[e.fiber] = m_cb[e.fiber] /\ m_state'[e.fiber] = m_state[e.fiber]
              /\ e.fiber = NoFiber => e.cb # NoJob
         /\ m_fibers' = m_fibers =>
              \A j \in Jobs : (Queued(j)' <=> Queued(j)) /\ (Listed(j)' <=> Listed(j))
<1> USE ConstAssumption DEF IInv
<1>1. ASSUME NEW u \in Threads \ {t}, NEW j \in Jobs
      PROVE  OnThread(u, j)' <=> OnThread(u, j)
  <2>1. Cur(u)' = Cur(u) /\ Cur(u) \in Fibers \cup {NoFiber}
    BY DEF Cur, TypeOK, Entry
  <2>2. Cur(u) # NoFiber => Cur(u) <= s_fiber_id /\ ~Held(t, Cur(u))
    BY <2>1 DEF ThreadsApart, Held, Cur
  <2> QED
    BY <2>1, <2>2 DEF OnThread
<1>2. ASSUME NEW i \in 1 .. Len(m_fibers)
      PROVE  LET e == m_fibers[i] IN
             /\ e.fiber # NoFiber => m_cb'[e.fiber] = m_cb[e.fiber] /\ m_state'[e.fiber] = m_state[e.fiber]
             /\ e.fiber = NoFiber => e.cb # NoJob
  <2>1. m_fibers[i] \in Entry
    BY DEF TypeOK
  <2> QED
    BY <2>1 DEF ListInv, ListApart, Entry
<1>3. ASSUME m_fibers' = m_fibers, NEW j \in Jobs
      PROVE  (Queued(j)' <=> Queued(j)) /\ (Listed(j)' <=> Listed(j))
  BY <1>2, <1>3 DEF Queued, Listed, CarriedBy
<1> QED
  BY <1>1, <1>2, <1>3

-----------------------------------------------------------------------------
(* Steps the pool does not see.                                             *)

\* Steps of run() and of a job that move no job
LEMMA QuietThread ==
  ASSUME PoolInv, PoolInv', NEW t \in Threads,
         UNCHANGED <<m_fibers, main, submitted, done>>,
         \A u \in Threads \ {t} : pc'[u] = pc[u] /\ ft'[u] = ft[u] /\ cbFiber'[u] = cbFiber[u],
         \A f \in Fibers : f <= s_fiber_id /\ ~Held(t, f) =>
           m_cb'[f] = m_cb[f] /\ m_state'[f] = m_state[f],
         \A j \in submitted \ done : OnThread(t, j)' <=> OnThread(t, j)
  PROVE  UNCHANGED Pool!poolVars
<1>1. /\ \A u \in Threads \ {t} : \A j \in Jobs : OnThread(u, j)' <=> OnThread(u, j)
      /\ \A j \in Jobs : (Queued(j)' <=> Queued(j)) /\ (Listed(j)' <=> Listed(j))
  BY LocalStep DEF PoolInv
<1>2. \A j \in submitted \ done : j \in Jobs /\ (Running(j)' <=> Running(j))
  BY <1>1 DEF PoolInv, IInv, TypeOK, Running
<1>3. \A j \in Jobs : JobStatus(j)' = JobStatus(j)
  BY <1>1, <1>2, SameStatus DEF PoolInv
<1> QED
  BY <1>3, PoolStutters

\* Idle threads, swapIn(), the yields and what run() does with a fiber that
\* has ended or holds
LEMMA ThreadStutters ==
  ASSUME PoolInv, PoolInv', NEW t \in Threads,
         \/ PickNothing(t) \/ Idle(t) \/ RunFiber(t) \/ RunCallbackReuse(t)
         \/ RunCallbackNew(t) \/ SwapOut(t) \/ NoteHold(t) \/ Finish(t)
         \/ YieldToReady(t) \/ Arm(t) \/ YieldToHold(t)
  PROVE  UNCHANGED Pool!poolVars
<1> USE ConstAssumption DEF PoolInv, IInv, JobInv, JobCore, callerVars, fiberVars, jobVars, NoFiber, Fibers
<1>0. \A j \in submitted \ done : j \in Jobs /\ j # NoJob
  BY DEF TypeOK
<1>1. CASE PickNothing(t) \/ Idle(t)
  <2>1. /\ pc[t] \in {"pick", "idling"} /\ pc'[t] \in {"pick", "idling", "exit"}
        /\ \A u \in Threads \ {t} : pc'[u] = pc[u] /\ cbFiber'[u] = cbFiber[u]
        /\ UNCHANGED <<m_fibers, main, submitted, done, ft, m_state, m_cb>>
    BY <1>1 DEF PickNothing, Idle, TypeOK
  <2>2. \A j \in Jobs : ~OnThread(t, j)' /\ ~OnThread(t, j)
    BY <2>1 DEF OnThread
  <2> QED
    BY <1>0, <2>1, <2>2, QuietThread
<1>2. CASE RunFiber(t)
  BY <1>2, QuietThread, ZenonT(60) DEF RunFiber, SwapIn, OnThread, Cur, Held, TypeOK
<1>3. CASE RunCallbackReuse(t)
  <2>1. m_state[cbFiber[t]] = "INIT" /\ m_cb[cbFiber[t]] = NoJob /\ cbFiber[t] \in Fibers
    BY <1>3 DEF RunCallbackReuse, SpareInv, SpareEmpty, SwappedIn, AtWork, TypeOK
  <2>2. /\ pc[t] = "dispatch" /\ ft[t].fiber = NoFiber
        /\ pc' = [pc EXCEPT ![t] = "exec"] /\ ft' = [ft EXCEPT ![t] = ResetEntry]
        /\ m_cb' = [m_cb EXCEPT ![cbFiber[t]] = ft[t].cb]
        /\ m_state' = [m_state EXCEPT ![cbFiber[t]] = "EXEC"]
        /\ UNCHANGED <<m_fibers, main, submitted, done, cbFiber>>
    BY <1>3, <2>1 DEF RunCallbackReuse, SwapIn, TypeOK
  <2>3. /\ pc'[t] = "exec" /\ ft'[t] = ResetEntry /\ m_cb'[cbFiber[t]] = ft[t].cb
        /\ \A u \in Threads \ {t} : pc'[u] = pc[u] /\ ft'[u] = ft[u]
        /\ \A f \in Fibers : ~Held(t, f) => m_cb'[f] = m_cb[f] /\ m_state'[f] = m_state[f]
    BY <2>1, <2>2 DEF TypeOK, Held
  <2>4. \A j \in submitted \ done : OnThread(t, j)' <=> OnThread(t, j)
    BY <1>0, <2>1, <2>2, <2>3 DEF OnThread, Cur, ResetEntry
  <2> QED
    BY <2>2, <2>3, <2>4, QuietThread
<1>4. CASE RunCallbackNew(t)
  <2> DEFINE n == s_fiber_id + 1
  <2>1. /\ pc[t] = "dispatch" /\ ft[t].fiber = NoFiber /\ cbFiber[t] = NoFiber
        /\ pc' = [pc EXCEPT ![t] = "exec"] /\ ft' = [ft EXCEPT ![t] = ResetEntry]
        /\ m_cb' = [m_cb EXCEPT ![n] = ft[t].cb]
        /\ m_state' = [m_state EXCEPT ![n] = "EXEC"]
        /\ cbFiber' = [cbFiber EXCEPT ![t] = n]
        /\ UNCHANGED <<m_fibers, main, submitted, done>>
    BY <1>4 DEF RunCallbackNew, SwapIn, TypeOK
  <2>2. n \in Fibers /\ \A f \in Fibers : f <= s_fiber_id => f # n
    BY <1>4 DEF RunCallbackNew, TypeOK
  <2> HIDE DEF n
  <2>3. /\ pc'[t] = "exec" /\ ft'[t] = ResetEntry /\ cbFiber'[t] = n /\ m_cb'[n] = ft[t].cb
        /\ \A u \in Threads \ {t} : pc'[u] = pc[u] /\ ft'[u] = ft[u] /\ cbFiber'[u] = cbFiber[u]
        /\ \A f \in Fibers : f <= s_fiber_id => m_cb'[f] = m_cb[f] /\ m_state'[f] = m_state[f]
    BY <2>1, <2>2 DEF TypeOK
  <2>4. \A j \in submitted \ done : OnThread(t, j)' <=> OnThread(t, j)
    BY <1>0, <2>1, <2>2, <2>3 DEF OnThread, Cur, ResetEntry
  <2> QED
    BY <2>1, <2>3, <2>4, QuietThread
<1>5. CASE SwapOut(t) \/ NoteHold(t)
  BY <1>5, QuietThread DEF SwapOut, NoteHold, SettleFrame, OnThread, Cur, TypeOK
<1>6. CASE Finish(t)
  <2>1. Cur(t) \in Fibers /\ Held(t, Cur(t)) /\ m_cb[Cur(t)] \in done \cup {NoJob}
    <3>1. pc[t] = "settle" /\ m_state[Cur(t)] \in {"TERM", "EXCEPT"}
      BY <1>6 DEF Finish
    <3>2. Cur(t) \in Fibers
      BY <3>1 DEF LocalsInv, SwappedIn, AtWork, Cur, TypeOK, Entry
    <3>3. Held(t, Cur(t))
      BY DEF Cur, Held
    <3> QED
      BY <3>1, <3>2, <3>3 DEF Pending
  <2>2. /\ \A u \in Threads \ {t} : pc'[u] = pc[u] /\ ft'[u] = ft[u]
        /\ pc'[t] = "pick" /\ UNCHANGED <<m_fibers, main, submitted, done, cbFiber>>
        /\ \A f \in Fibers : ~Held(t, f) => m_cb'[f] = m_cb[f] /\ m_state'[f] = m_state[f]
    BY <1>6 DEF Finish, SettleFrame, Held, TypeOK
  <2>3. \A j \in submitted \ done : ~OnThread(t, j)' /\ ~OnThread(t, j)
    BY <1>0, <1>6, <2>1, <2>2 DEF OnThread, Finish, EntryShape
  <2> QED
    BY <2>2, <2>3, QuietThread
<1>7. CASE YieldToReady(t) \/ Arm(t) \/ YieldToHold(t)
  <2>1. Cur(t) \in Fibers /\ Held(t, Cur(t))
    BY <1>7 DEF YieldToReady, Arm, YieldToHold, LocalsInv, SwappedIn, AtWork, Cur, Held, TypeOK, Entry
  <2>2. /\ \A u \in Threads \ {t} : pc'[u] = pc[u]
        /\ pc'[t] \in {"hold", "swapOut"} /\ pc[t] \in {"exec", "hold"}
        /\ UNCHANGED <<m_fibers, main, submitted, done, ft, cbFiber, m_cb>>
        /\ \A f \in Fibers : ~Held(t, f) => m_state'[f] = m_state[f]
    BY <1>7, <2>1 DEF YieldToReady, Arm, YieldToHold, BodyFrame, TypeOK
  <2>3. \A j \in submitted \ done : OnThread(t, j)' <=> OnThread(t, j)
    BY <2>2 DEF OnThread, Cur
  <2> QED
    BY <2>2, <2>3, QuietThread
<1> QED
  BY <1>1, <1>2, <1>3, <1>4, <1>5, <1>6, <1>7

\* The steps of start() and stop() move no job: no thread they create or join
\* has one
LEMMA CallerKeeps ==
  ASSUME PoolInv, PoolInv', Start \/ StopBegins \/ StopStep
  PROVE  \A j \in Jobs : JobStatus(j)' = JobStatus(j)
<1> USE ConstAssumption DEF PoolInv, IInv, StopFrame, fiberVars, jobVars
<1>1. UNCHANGED <<m_fibers, ft, cbFiber, m_state, m_cb, submitted, done>>
  BY DEF Start, StopBegins, StopStep, StopReturnsEarly, StopFlags, StopCalls, RootReturns, Join
<1>2. \A t \in Threads : pc'[t] = pc[t] \/ (~AtWork(t) /\ ~AtWork(t)')
  <2>1. CASE Start
    BY <2>1 DEF Start, CallerFree, MainInv, AtWork
  <2>2. CASE StopBegins \/ StopReturnsEarly \/ StopFlags
    BY <2>2 DEF StopBegins, StopReturnsEarly, StopFlags
  <2>3. CASE StopCalls
    BY <2>3 DEF StopCalls, MainInv, TypeOK, AtWork
  <2>4. CASE RootReturns
    BY <2>4 DEF RootReturns, TypeOK, AtWork
  <2>5. CASE Join
    BY <2>5 DEF Join, AllExited, AtWork
  <2> QED
    BY <2>1, <2>2, <2>3, <2>4, <2>5 DEF StopStep
<1>3. \A j \in Jobs : /\ Running(j)' <=> Running(j)
                      /\ Queued(j)' <=> Queued(j)
                      /\ Listed(j)' <=> Listed(j)
  <2>1. \A t \in Threads, j \in Jobs : OnThread(t, j)' <=> OnThread(t, j)
    BY <1>1, <1>2 DEF OnThread, AtWork, Cur
  <2> QED
    BY <1>1, <2>1 DEF Running, Queued, Listed, CarriedBy
<1> QED
  BY <1>1, <1>3, SameStatus

-----------------------------------------------------------------------------
(* Steps that are an action of the pool.                                    *)

\* The job on thread u, if it has one
JobOf(u) == IF ft[u].cb # NoJob THEN ft[u].cb
            ELSE IF Cur(u) # NoFiber THEN m_cb[Cur(u)] ELSE NoJob

\* A thread that takes an entry has no job yet: fewer jobs than threads run
LEMMA RoomForOne ==
  ASSUME PoolInv, NEW t \in Threads, pc[t] = "pick"
  PROVE  Cardinality(Pool!InStatus("running")) < Cardinality(Threads)
<1> DEFINE S == Threads \ {t}
           f == [u \in S |-> JobOf(u)]
           T == {f[u] : u \in S}
           R == Pool!InStatus("running")
<1>1. IsFiniteSet(S) /\ Cardinality(S) = Cardinality(Threads) - 1
      /\ Cardinality(S) \in Nat /\ Cardinality(Threads) \in Nat
  BY ThreadsFinite, FS_RemoveElement, FS_CardinalityType
<1>2. f \in Surjection(S, T)
  BY DEF Surjection
<1>3. IsFiniteSet(T) /\ Cardinality(T) <= Cardinality(S)
  <2> HIDE DEF S, f, T
  <2> QED
    BY <1>1, <1>2, FS_Surjection
<1>4. R \subseteq T
  <2> SUFFICES ASSUME NEW j \in Jobs, JobStatus(j) = "running" PROVE j \in T
    BY DEF Pool!InStatus
  <2>1. j \in submitted \ done /\ Running(j)
    BY DEF JobStatus
  <2>2. PICK u \in Threads : OnThread(u, j)
    BY <2>1 DEF Running
  <2>3. u \in S
    BY <2>2 DEF OnThread
  <2>4. JobOf(u) = j
    <3>1. ASSUME ft[u].cb # NoJob, ft[u].cb # j PROVE FALSE
      <4>1. pc[u] = "dispatch" /\ ft[u].fiber = NoFiber
        BY <3>1 DEF PoolInv, JobInv, JobCore, EntryShape
      <4>2. Cur(u) = cbFiber[u] /\ Cur(u) # NoFiber /\ m_cb[Cur(u)] = j
        BY <2>2, <3>1, <4>1 DEF OnThread, Cur
      <4>3. m_cb[cbFiber[u]] = NoJob
        BY <4>1, <4>2 DEF PoolInv, JobInv, JobCore, SpareEmpty, SwappedIn
      <4> QED
        BY <4>2, <4>3, ConstAssumption
    <3> QED
      BY <2>2, <3>1, ConstAssumption DEF OnThread, JobOf
  <2> QED
    BY <2>3, <2>4
<1> HIDE DEF S, f, T, R
<1>5. IsFiniteSet(R) /\ Cardinality(R) <= Cardinality(T) /\ Cardinality(R) \in Nat /\ Cardinality(T) \in Nat
  BY <1>3, <1>4, FS_Subset, FS_CardinalityType
<1>6. Cardinality(R) < Cardinality(Threads)
  BY <1>1, <1>3, <1>5
<1> QED
  BY <1>6 DEF R

\* Taking an entry begins, or resumes, its job
LEMMA PickBegins ==
  ASSUME PoolInv, PoolInv', NEW t \in Threads, Pick(t)
  PROVE  \E j \in Jobs : Pool!Begin(j)
<1> USE ConstAssumption DEF PoolInv, IInv, JobInv, JobCore, callerVars, fiberVars, jobVars
<1>1. PICK i \in Candidates(t) :
        /\ ft' = [ft EXCEPT ![t] = m_fibers[i]]
        /\ m_fibers' = RemoveAt(m_fibers, i)
  BY DEF Pick
<1>2. /\ pc[t] = "pick" /\ pc' = [pc EXCEPT ![t] = "dispatch"]
      /\ UNCHANGED <<main, cbFiber, m_state, m_cb, submitted, done>>
  BY DEF Pick
<1>3. i \in 1 .. Len(m_fibers) /\ m_fibers[i] \in Entry /\ m_fibers \in Seq(Entry)
  BY DEF Candidates, TypeOK
<1>4. /\ Len(m_fibers') = Len(m_fibers) - 1 /\ Len(m_fibers) \in Nat
      /\ \A k \in 1 .. Len(m_fibers') :
           m_fibers'[k] = IF k < i THEN m_fibers[k] ELSE m_fibers[k + 1]
  <2>1. /\ Len(RemoveAt(m_fibers, i)) = Len(m_fibers) - 1
        /\ \A k \in 1 .. Len(m_fibers) - 1 : RemoveAt(m_fibers, i)[k] =
             IF k < i THEN m_fibers[k] ELSE m_fibers[k + 1]
    BY <1>3, RemoveAtFacts, Zenon
  <2> QED
    BY <1>1, <1>3, <2>1
<1>5. /\ ft'[t] = m_fibers[i] /\ pc'[t] = "dispatch"
      /\ \A u \in Threads \ {t} : ft'[u] = ft[u] /\ pc'[u] = pc[u]
  BY <1>1, <1>2 DEF TypeOK
<1> DEFINE old(k) == IF k < i THEN k ELSE k + 1
           new(k) == IF k < i THEN k ELSE k - 1
<1>6. \A k \in 1 .. Len(m_fibers') :
        old(k) \in 1 .. Len(m_fibers) /\ old(k) # i /\ m_fibers'[k] = m_fibers[old(k)]
  BY <1>3, <1>4
<1>7. \A k \in 1 .. Len(m_fibers) : k # i =>
        new(k) \in 1 .. Len(m_fibers') /\ m_fibers'[new(k)] = m_fibers[k]
  BY <1>3, <1>4
<1> HIDE DEF old, new
<1> DEFINE e == m_fibers[i]
<1>0. PICK j \in Jobs : j = IF e.fiber # NoFiber THEN m_cb[e.fiber] ELSE e.cb
  BY <1>3 DEF ListInv
<1>8. CarriedBy(e, j) /\ (e.fiber # NoFiber => e.cb = NoJob)
  BY <1>0, <1>3 DEF EntryShape, CarriedBy
<1>9. j \in submitted \ done
  <2>1. CASE e.fiber = NoFiber
    BY <1>0, <1>3, <2>1 DEF Pending
  <2>2. CASE e.fiber # NoFiber
    BY <1>0, <1>3, <2>2 DEF Pending, ListInv, ResumableState, Entry
  <2> QED
    BY <2>1, <2>2
<1>10. \A k \in Jobs : OnThread(t, k)' <=> k = j
  <2>1. CASE e.fiber = NoFiber
    <3>1. cbFiber[t] # NoFiber => m_cb[cbFiber[t]] = NoJob
      BY <1>2 DEF SpareEmpty, SwappedIn, AtWork
    <3> QED
      BY <1>0, <1>2, <1>5, <2>1, <3>1 DEF OnThread, Cur
  <2>2. CASE e.fiber # NoFiber
    BY <1>0, <1>2, <1>5, <1>8, <2>2 DEF OnThread, Cur
  <2> QED
    BY <2>1, <2>2
<1>11. \A k \in Jobs : ~OnThread(t, k)
  BY <1>2 DEF OnThread
<1>12. \A u \in Threads \ {t} : \A k \in Jobs : OnThread(u, k)' <=> OnThread(u, k)
  BY <1>2, <1>5 DEF OnThread, Cur
<1>13. \A k \in Jobs \ {j} : CarriedBy(e, k) => k \notin submitted \ done
  BY <1>0, <1>3, <1>8 DEF CarriedBy
<1> HIDE DEF e
<1>14. ASSUME NEW k \in Jobs \ {j} PROVE JobStatus(k)' = JobStatus(k)
  <2>1. Running(k)' <=> Running(k)
    BY <1>10, <1>11, <1>12, <1>14 DEF Running
  <2>2. ASSUME k \in submitted \ done
        PROVE  (Queued(k)' <=> Queued(k)) /\ (Listed(k)' <=> Listed(k))
    <3>1. ~CarriedBy(m_fibers[i], k)
      BY <1>13, <2>2 DEF e
    <3>2. \A n \in 1 .. Len(m_fibers') :
            old(n) \in 1 .. Len(m_fibers) /\ m_fibers'[n] = m_fibers[old(n)]
      BY <1>6
    <3>3. \A n \in 1 .. Len(m_fibers) : CarriedBy(m_fibers[n], k) =>
            new(n) \in 1 .. Len(m_fibers') /\ m_fibers'[new(n)] = m_fibers[n]
      BY <1>7, <3>1
    <3>4. Queued(k)' <=> Queued(k)
      BY <1>2, <3>2, <3>3, SMTT(30) DEF Queued, CarriedBy
    <3>5. Listed(k)' <=> Listed(k)
      BY <1>2, <3>2, <3>3 DEF Listed, CarriedBy
    <3> QED
      BY <3>4, <3>5
  <2> QED
    BY <1>2, <2>1, <2>2, SameStatus
<1>15. JobStatus(j)' = "running"
  <2>1. Running(j)'
    BY <1>8, <1>10 DEF Running
  <2> QED
    BY <1>2, <1>8, <1>9, <2>1 DEF StatusInv
<1>16. JobStatus(j) \in {"queued", "woken"}
  <2>1. Listed(j)
    BY <1>3, <1>8 DEF Listed, e
  <2> QED
    BY <1>8, <1>9, <2>1 DEF StatusInv
<1>17. Pool!Move(j, "queued", "running") \/ Pool!Move(j, "woken", "running")
  BY <1>2, <1>8, <1>14, <1>15, <1>16, PoolMoves
<1>18. main \notin {"created", "stopped"}
  BY <1>2 DEF MainInv, Threads
<1>19. Pool!Cardinality(Pool!InStatus("running")) < Cardinality(Threads)
  <2>1. Pool!Cardinality(Pool!InStatus("running")) = Cardinality(Pool!InStatus("running"))
    BY DEF Pool!Cardinality, Cardinality
  <2> QED
    BY <1>2, <2>1, RoomForOne
<1>20. Pool!Begin(j)
  BY <1>17, <1>18, <1>19 DEF Pool!Begin
<1> QED
  BY <1>20

\* Appending an entry that does not carry job k leaves k where it was
LEMMA AppendedElsewhere ==
  ASSUME IInv, NEW e \in Entry, m_fibers' = Append(m_fibers, e), NEW k \in Jobs,
         ~CarriedBy(e, k)',
         \A i \in 1 .. Len(m_fibers) : LET g == m_fibers[i].fiber IN
            g # NoFiber => m_cb'[g] = m_cb[g] /\ m_state'[g] = m_state[g]
  PROVE  (Queued(k)' <=> Queued(k)) /\ (Listed(k)' <=> Listed(k))
<1>0. m_fibers \in Seq(Entry)
  BY DEF IInv, TypeOK
<1>1. /\ \A i \in 1 .. Len(m_fibers) : i \in 1 .. Len(m_fibers') /\ m_fibers'[i] = m_fibers[i]
      /\ \A i \in 1 .. Len(m_fibers') : i \in 1 .. Len(m_fibers) \/ m_fibers'[i] = e
  BY <1>0, AppendFacts
<1>2. \A i \in 1 .. Len(m_fibers) : CarriedBy(m_fibers[i], k)' <=> CarriedBy(m_fibers[i], k)
  BY <1>1 DEF CarriedBy
<1>3. \A i \in 1 .. Len(m_fibers') : CarriedBy(m_fibers[i], k)' =>
        i \in 1 .. Len(m_fibers) /\ m_fibers'[i] = m_fibers[i] /\ CarriedBy(m_fibers[i], k)
  BY <1>1, <1>2
<1>4. \A i \in 1 .. Len(m_fibers) : m_fibers[i].cb = NoJob => m_fibers[i].fiber # NoFiber
  BY ConstAssumption DEF IInv, ListInv
<1>5. Listed(k)' <=> Listed(k)
  BY <1>1, <1>2, <1>3 DEF Listed
<1>6. Queued(k)' <=> Queued(k)
  BY <1>1, <1>2, <1>3, <1>4 DEF Queued
<1> QED
  BY <1>5, <1>6

\* A job that gave way is queued again
LEMMA RequeueYields ==
  ASSUME PoolInv, PoolInv', NEW t \in Threads, Requeue(t)
  PROVE  \E j \in Jobs : Pool!Yield(j)
<1> USE ConstAssumption DEF PoolInv, IInv, JobInv, JobCore, callerVars, jobVars
<1>1. /\ pc[t] = "settle" /\ m_state[Cur(t)] = "READY"
      /\ m_fibers' = Append(m_fibers, FiberEntry(Cur(t), AnyThread))
      /\ UNCHANGED <<main, m_state, m_cb, submitted, done>>
      /\ LetGo(t) /\ pc' = [pc EXCEPT ![t] = "pick"]
  BY DEF Requeue, SettleFrame, Enqueue
<1>2. PICK f \in Fibers : f = Cur(t) /\ f # NoFiber
  BY <1>1 DEF LocalsInv, SwappedIn, AtWork, Cur, TypeOK, Entry
<1>3. PICK j \in Jobs : j = m_cb[f]
  BY <1>1, <1>2 DEF LocalsInv
<1>4. j \in submitted \ done
  BY <1>1, <1>2, <1>3 DEF Pending, TypeOK
<1>5. PICK e \in Entry : e = FiberEntry(f, AnyThread)
  BY DEF FiberEntry, Entry
<1>6. e.fiber = f /\ e.cb = NoJob
  BY <1>5 DEF FiberEntry
<1>7. /\ \A u \in Threads \ {t} : ft'[u] = ft[u] /\ cbFiber'[u] = cbFiber[u] /\ pc'[u] = pc[u]
      /\ pc'[t] = "pick"
  BY <1>1 DEF LetGo, TypeOK
<1>8. \A k \in Jobs : ~OnThread(t, k)' /\ (OnThread(t, k) <=> k = j)
  BY <1>1, <1>2, <1>3, <1>7 DEF OnThread, EntryShape
<1>9. \A u \in Threads \ {t} : \A k \in Jobs : OnThread(u, k)' <=> OnThread(u, k)
  BY <1>1, <1>7 DEF OnThread, Cur
<1>10. m_fibers' = Append(m_fibers, e) /\ m_fibers \in Seq(Entry)
  BY <1>1, <1>2, <1>5 DEF TypeOK
<1>11. \A k \in Jobs : CarriedBy(e, k)' <=> k = j
  BY <1>1, <1>2, <1>3, <1>6 DEF CarriedBy
<1>12. ASSUME NEW k \in Jobs \ {j} PROVE JobStatus(k)' = JobStatus(k)
  <2>1. Running(k)' <=> Running(k)
    BY <1>8, <1>9, <1>12 DEF Running
  <2>2. (Queued(k)' <=> Queued(k)) /\ (Listed(k)' <=> Listed(k))
    BY <1>1, <1>10, <1>11, <1>12, AppendedElsewhere
  <2> QED
    BY <1>1, <2>1, <2>2, SameStatus
<1>13. JobStatus(j) = "running"
  <2>1. Running(j)
    BY <1>8 DEF Running
  <2> QED
    BY <1>4, <2>1 DEF StatusInv
<1>14. JobStatus(j)' = "queued"
  <2>1. Len(m_fibers) + 1 \in 1 .. Len(m_fibers') /\ m_fibers'[Len(m_fibers) + 1] = e
    BY <1>10, AppendFacts
  <2>2. Queued(j)'
    BY <1>1, <1>2, <1>6, <1>11, <2>1 DEF Queued
  <2> QED
    BY <1>1, <1>4, <2>2 DEF StatusInv
<1> QED
  BY <1>1, <1>12, <1>13, <1>14, PoolMoves DEF Pool!Yield

\* A job that waits is parked once run() has let go of its fiber
LEMMA SetHoldParks ==
  ASSUME PoolInv, PoolInv', NEW t \in Threads, SetHold(t)
  PROVE  \E j \in Jobs : Pool!Park(j)
<1> USE ConstAssumption DEF PoolInv, IInv, JobInv, JobCore, callerVars, jobVars
<1>1. /\ pc[t] = "sethold" /\ m_state' = [m_state EXCEPT ![Cur(t)] = "HOLD"]
      /\ UNCHANGED <<m_fibers, main, m_cb, armed, submitted, done>>
      /\ LetGo(t) /\ pc' = [pc EXCEPT ![t] = "pick"]
  BY DEF SetHold, SettleFrame
<1>2. PICK f \in Fibers : f = Cur(t) /\ f # NoFiber /\ Held(t, f)
  BY <1>1 DEF LocalsInv, SwappedIn, AtWork, Cur, Held, TypeOK, Entry
<1>3. PICK j \in Jobs : j = m_cb[f]
  BY <1>1, <1>2 DEF LocalsInv
<1>4. j \in submitted \ done /\ f \in armed
  <2>1. \A i \in 1 .. Len(m_fibers) : m_fibers[i].fiber # f
    BY <1>2 DEF ListApart
  <2>2. f \in armed
    BY <1>1, <1>2, <2>1 DEF HoldArmed, Asked
  <2> QED
    BY <1>1, <1>2, <1>3, <2>2 DEF Pending, LocalsInv, TypeOK
<1>5. /\ \A u \in Threads \ {t} : ft'[u] = ft[u] /\ cbFiber'[u] = cbFiber[u] /\ pc'[u] = pc[u]
      /\ pc'[t] = "pick" /\ ft'[t].fiber # f /\ cbFiber'[t] # f
  BY <1>1, <1>2 DEF LetGo, ResetEntry, ThreadsApart, Cur, TypeOK
<1>6. \A g \in Fibers : ~Held(t, g) => m_cb'[g] = m_cb[g] /\ m_state'[g] = m_state[g]
  BY <1>1, <1>2 DEF TypeOK
<1>7. /\ \A u \in Threads \ {t} : \A k \in Jobs : OnThread(u, k)' <=> OnThread(u, k)
      /\ \A k \in Jobs : (Queued(k)' <=> Queued(k)) /\ (Listed(k)' <=> Listed(k))
  BY <1>1, <1>5, <1>6, LocalStep
<1>8. \A k \in Jobs : ~OnThread(t, k)' /\ (OnThread(t, k) <=> k = j)
  BY <1>1, <1>2, <1>3, <1>5 DEF OnThread, EntryShape
<1>9. ASSUME NEW k \in Jobs \ {j} PROVE JobStatus(k)' = JobStatus(k)
  <2>1. Running(k)' <=> Running(k)
    BY <1>7, <1>8, <1>9 DEF Running
  <2> QED
    BY <1>1, <1>7, <2>1, SameStatus
<1>10. JobStatus(j) = "running"
  <2>1. Running(j)
    BY <1>8 DEF Running
  <2> QED
    BY <1>4, <2>1 DEF StatusInv
<1>11. JobStatus(j)' = "parked"
  <2>1. Parked(f)'
    BY <1>2, <1>5 DEF Parked, ThreadsApart, Held
  <2>2. Waiting(j)'
    BY <1>1, <1>3, <1>4, <2>1 DEF Waiting
  <2> QED
    BY <1>1, <1>4, <2>2 DEF StatusInv
<1> QED
  BY <1>1, <1>9, <1>10, <1>11, PoolMoves DEF Pool!Park

\* A job ends when its callback returns or throws
LEMMA ReturnFinishes ==
  ASSUME PoolInv, PoolInv', NEW t \in Threads, Return(t) \/ Throw(t)
  PROVE  \E j \in Jobs : Pool!Finish(j)
<1> USE ConstAssumption DEF PoolInv, IInv, JobInv, JobCore, callerVars
<1>1. PICK f \in Fibers : f = Cur(t) /\ f # NoFiber /\ Held(t, f)
  BY DEF Return, Throw, LocalsInv, SwappedIn, AtWork, Cur, Held, TypeOK, Entry
<1>2. PICK j \in Jobs : j = m_cb[f]
  BY <1>1 DEF Return, Throw, LocalsInv
<1>3. /\ pc[t] = "exec" /\ done' = done \cup {j}
      /\ pc' = [pc EXCEPT ![t] = "swapOut"]
      /\ UNCHANGED <<m_fibers, main, ft, cbFiber, submitted>>
      /\ \A g \in Fibers : ~Held(t, g) => m_cb'[g] = m_cb[g] /\ m_state'[g] = m_state[g]
  BY <1>1, <1>2 DEF Return, Throw, BodyFrame, TypeOK
<1>4. j \in submitted \ done
  BY <1>1, <1>2, <1>3 DEF Pending, LocalsInv
<1>5. \A u \in Threads \ {t} : pc'[u] = pc[u]
  BY <1>3 DEF TypeOK
<1>6. /\ \A u \in Threads \ {t} : \A k \in Jobs : OnThread(u, k)' <=> OnThread(u, k)
      /\ \A k \in Jobs : (Queued(k)' <=> Queued(k)) /\ (Listed(k)' <=> Listed(k))
  BY <1>3, <1>5, LocalStep
<1>7. \A k \in Jobs \ {j} : ~OnThread(t, k)' /\ ~OnThread(t, k)
  <2>1. Cur(t)' = f /\ ft'[t].cb = NoJob /\ m_cb'[f] \in {j, NoJob}
    BY <1>1, <1>2, <1>3 DEF Return, Throw, Cur, EntryShape, TypeOK
  <2> QED
    BY <1>1, <1>2, <1>3, <2>1 DEF OnThread
<1>8. ASSUME NEW k \in Jobs \ {j} PROVE JobStatus(k)' = JobStatus(k)
  <2>1. Running(k)' <=> Running(k)
    BY <1>6, <1>7, <1>8 DEF Running
  <2> QED
    BY <1>3, <1>6, <2>1, SameStatus
<1>9. JobStatus(j) = "running"
  <2>1. OnThread(t, j)
    BY <1>1, <1>2, <1>3 DEF OnThread
  <2> QED
    BY <1>4, <2>1 DEF StatusInv, Running
<1>10. JobStatus(j)' = "done"
  BY <1>3, <1>4 DEF StatusInv
<1> QED
  BY <1>3, <1>8, <1>9, <1>10, PoolMoves DEF Pool!Finish

\* Resuming a parked fiber wakes its job
LEMMA WakeWakes ==
  ASSUME ~EarlyWake, PoolInv, PoolInv', NEW f \in Fibers, Wake(f)
  PROVE  \E j \in Jobs : Pool!Wake(j)
<1> USE ConstAssumption DEF PoolInv, IInv, JobInv, JobCore, callerVars, jobVars
<1>1. /\ f \in armed /\ Parked(f) /\ f # NoFiber
      /\ m_fibers' = Append(m_fibers, FiberEntry(f, AnyThread))
      /\ UNCHANGED <<main, pc, ft, cbFiber, m_state, m_cb, submitted, done>>
  BY DEF Wake, Enqueue, NoFiber, Fibers
<1>2. PICK j \in Jobs : j = m_cb[f]
  BY <1>1 DEF ArmedInv
<1>3. m_state[f] = "HOLD" /\ j \in submitted \ done /\ Waiting(j)
  BY <1>1, <1>2 DEF ArmedInv, Pending, Waiting
<1>4. PICK e \in Entry : e = FiberEntry(f, AnyThread)
  BY DEF FiberEntry, Entry
<1>5. /\ e.fiber = f /\ e.cb = NoJob
      /\ m_fibers' = Append(m_fibers, e) /\ m_fibers \in Seq(Entry)
  BY <1>1, <1>4 DEF FiberEntry, TypeOK
<1>6. \A u \in Threads, k \in Jobs : OnThread(u, k)' <=> OnThread(u, k)
  BY <1>1 DEF OnThread, Cur
<1>7. \A k \in Jobs : CarriedBy(e, k)' <=> k = j
  BY <1>1, <1>2, <1>5 DEF CarriedBy
<1>8. ASSUME NEW k \in Jobs \ {j} PROVE JobStatus(k)' = JobStatus(k)
  <2>1. Running(k)' <=> Running(k)
    BY <1>6, <1>8 DEF Running
  <2>2. (Queued(k)' <=> Queued(k)) /\ (Listed(k)' <=> Listed(k))
    BY <1>1, <1>5, <1>7, <1>8, AppendedElsewhere
  <2> QED
    BY <1>1, <2>1, <2>2, SameStatus
<1>9. JobStatus(j) = "parked"
  BY <1>3 DEF StatusInv
<1>10. JobStatus(j)' = "woken"
  <2> DEFINE n == Len(m_fibers) + 1
  <2>1. n \in 1 .. Len(m_fibers') /\ m_fibers'[n] = e
    BY <1>5, AppendFacts
  <2> HIDE DEF n
  <2>2. CarriedBy(e, j)' /\ Listed(j)'
    BY <1>7, <2>1 DEF Listed
  <2>3. \A i \in 1 .. Len(m_fibers') : CarriedBy(m_fibers[i], j)' => m_fibers'[i] = e
    <3>1. \A i, k \in 1 .. Len(m_fibers') :
            CarriedBy(m_fibers[i], j)' /\ CarriedBy(m_fibers[k], j)' => i = k
      BY <1>1, <1>3 DEF StatusInv
    <3> QED
      BY <2>1, <2>2, <3>1 DEF CarriedBy
  <2>4. ~Queued(j)'
    BY <1>1, <1>3, <1>5, <2>3 DEF Queued
  <2> QED
    BY <1>1, <1>3, <2>2, <2>4 DEF StatusInv
<1> QED
  BY <1>1, <1>8, <1>9, <1>10, PoolMoves DEF Pool!Wake

\* Jobs handed to schedule() for the first time are submitted
LEMMA Submits ==
  ASSUME PoolInv, PoolInv', NEW S \in SUBSET Jobs, S # {}, S \cap submitted = {},
         submitted' = submitted \cup S, UNCHANGED <<main, done>>,
         \A j \in S : Queued(j)',
         \A k \in submitted \ done :
           /\ Running(k)' <=> Running(k)
           /\ Queued(k)' <=> Queued(k)
           /\ Listed(k)' <=> Listed(k),
         main \in {"created", "started", "stopped"} \/ \E k \in Jobs : JobStatus(k) = "running"
  PROVE  \E T \in SUBSET Jobs : Pool!Submit(T)
<1> USE DEF PoolInv
<1>0. done \subseteq submitted
  BY DEF JobInv, JobCore, Pending
<1>1. \A j \in S : JobStatus(j) = "fresh" /\ JobStatus(j)' = "queued"
  BY <1>0 DEF StatusInv
<1>2. \A k \in Jobs \ S : JobStatus(k)' = JobStatus(k)
  BY SameStatus
<1>3. S \subseteq Pool!InStatus("fresh")
  BY <1>1 DEF Pool!InStatus
<1>4. \/ (CASE main = "started" -> "up" [] main \in {"created", "stopped"} -> "down"
            [] OTHER -> "draining") # "draining"
      \/ Pool!InStatus("running") # {}
  BY DEF Pool!InStatus
<1>5. [j \in Jobs |-> JobStatus(j)]' =
        [j \in Jobs |-> IF j \in S THEN "queued" ELSE [k \in Jobs |-> JobStatus(k)][j]]
  BY <1>1, <1>2
<1>6. Pool!Submit(S)
  BY <1>3, <1>4, <1>5 DEF Pool!Submit
<1> QED
  BY <1>6

\* schedule(), of a callback, of a new fiber and of several callbacks
LEMMA ScheduleSubmits ==
  ASSUME PoolInv, PoolInv', ScheduleFrame,
         \/ \E j \in Fresh, thr \in Workers \cup {Caller, AnyThread} :
              ScheduleCb(j, thr) \/ ScheduleFiber(j, thr)
         \/ \E j, k \in Fresh : ScheduleRange(j, k),
         main \in {"created", "started", "stopped"} \/ \E k \in Jobs : JobStatus(k) = "running"
  PROVE  \E T \in SUBSET Jobs : Pool!Submit(T)
<1> USE ConstAssumption DEF PoolInv, IInv, JobInv
<1>0. /\ m_fibers \in Seq(Entry) /\ UNCHANGED <<main, pc, ft, cbFiber, done>>
      /\ \A k \in submitted \ done : k \in Jobs
      /\ \A k \in Fresh : k \in Jobs /\ k \notin submitted
  BY DEF ScheduleFrame, callerVars, TypeOK, Fresh
<1>1. ASSUME NEW j \in Fresh, NEW thr \in Workers \cup {Caller, AnyThread}, ScheduleCb(j, thr)
      PROVE  \E T \in SUBSET Jobs : Pool!Submit(T)
  <2>1. PICK e \in Entry : e = CbEntry(j, thr)
    BY DEF CbEntry, Entry, Fresh
  <2>2. /\ e.fiber = NoFiber /\ e.cb = j /\ m_fibers' = Append(m_fibers, e)
        /\ submitted' = submitted \cup {j} /\ UNCHANGED <<m_state, m_cb>>
    BY <1>1, <2>1 DEF CbEntry, ScheduleCb, Enqueue, fiberVars
  <2>3. Queued(j)'
    <3>1. Len(m_fibers) + 1 \in 1 .. Len(m_fibers') /\ m_fibers'[Len(m_fibers) + 1] = e
      BY <1>0, <2>2, AppendFacts
    <3> QED
      BY <1>0, <2>2, <3>1 DEF Queued, CarriedBy
  <2>4. ASSUME NEW k \in submitted \ done
        PROVE  /\ Running(k)' <=> Running(k)
               /\ Queued(k)' <=> Queued(k)
               /\ Listed(k)' <=> Listed(k)
    <3>1. ~CarriedBy(e, k)' /\ k \in Jobs
      BY <1>0, <2>2 DEF CarriedBy
    <3>2. (Queued(k)' <=> Queued(k)) /\ (Listed(k)' <=> Listed(k))
      BY <2>2, <3>1, AppendedElsewhere
    <3> QED
      BY <1>0, <2>2, <3>2 DEF Running, OnThread, Cur
  <2>5. PICK S \in SUBSET Jobs : S = {j}
    BY <1>0
  <2>6. /\ S # {} /\ S \cap submitted = {} /\ submitted' = submitted \cup S
        /\ UNCHANGED <<main, done>>
        /\ \A x \in S : Queued(x)'
    BY <1>0, <2>2, <2>3, <2>5
  <2> QED
    BY <2>4, <2>6, Submits
<1>2. ASSUME NEW j \in Fresh, NEW thr \in Workers \cup {Caller, AnyThread}, ScheduleFiber(j, thr)
      PROVE  \E T \in SUBSET Jobs : Pool!Submit(T)
  <2>1. PICK n \in Fibers : n = s_fiber_id + 1 /\ n > s_fiber_id /\ n # NoFiber
    BY <1>2 DEF ScheduleFiber, NewFiber, Fibers, NoFiber, TypeOK
  <2>2. PICK e \in Entry : e = FiberEntry(n, thr)
    BY DEF FiberEntry, Entry
  <2>3. /\ e.fiber = n /\ e.cb = NoJob /\ m_fibers' = Append(m_fibers, e)
        /\ submitted' = submitted \cup {j} /\ j \in Jobs
        /\ m_cb' = [m_cb EXCEPT ![n] = j] /\ m_state' = [m_state EXCEPT ![n] = "INIT"]
    BY <1>2, <2>1, <2>2 DEF FiberEntry, ScheduleFiber, NewFiber, Enqueue, Fresh
  <2>4. /\ \A g \in Fibers \ {n} : m_cb'[g] = m_cb[g] /\ m_state'[g] = m_state[g]
        /\ m_cb'[n] = j /\ m_state'[n] = "INIT"
    BY <2>3 DEF TypeOK
  <2>5. Queued(j)'
    <3>1. Len(m_fibers) + 1 \in 1 .. Len(m_fibers') /\ m_fibers'[Len(m_fibers) + 1] = e
      BY <1>0, <2>3, AppendFacts
    <3>2. CarriedBy(e, j)'
      BY <2>1, <2>3, <2>4 DEF CarriedBy
    <3> QED
      BY <2>3, <2>4, <3>1, <3>2 DEF Queued, CarriedBy
  <2>6. ASSUME NEW k \in submitted \ done
        PROVE  /\ Running(k)' <=> Running(k)
               /\ Queued(k)' <=> Queued(k)
               /\ Listed(k)' <=> Listed(k)
    <3>1. ~CarriedBy(e, k)' /\ k \in Jobs
      BY <1>0, <2>3, <2>4 DEF CarriedBy
    <3>2. \A i \in 1 .. Len(m_fibers) : LET g == m_fibers[i].fiber IN
            g # NoFiber => m_cb'[g] = m_cb[g] /\ m_state'[g] = m_state[g]
      <4>1. \A i \in 1 .. Len(m_fibers) : m_fibers[i] \in Entry
        BY <1>0
      <4>2. \A i \in 1 .. Len(m_fibers) : m_fibers[i].fiber \in Fibers \cup {NoFiber}
        BY <4>1 DEF Entry
      <4>3. \A i \in 1 .. Len(m_fibers) : m_fibers[i].fiber # n
        BY <2>1, <4>2, SMTT(30) DEF ListInv, Fibers, TypeOK
      <4> QED
        BY <2>4, <4>2, <4>3
    <3>3. (Queued(k)' <=> Queued(k)) /\ (Listed(k)' <=> Listed(k))
      BY <2>3, <3>1, <3>2, AppendedElsewhere
    <3>4. \A u \in Threads : Cur(u)' = Cur(u) /\ (Cur(u) # NoFiber => m_cb'[Cur(u)] = m_cb[Cur(u)])
      <4>1. \A u \in Threads : /\ cbFiber[u] \in Fibers \cup {NoFiber} /\ cbFiber[u] # n
                              /\ ft[u].fiber \in Fibers \cup {NoFiber} /\ ft[u].fiber # n
        BY <2>1, SMTT(30) DEF ThreadsApart, Held, TypeOK, Entry, Fibers
      <4> QED
        BY <1>0, <2>4, <4>1 DEF Cur
    <3> QED
      BY <1>0, <3>3, <3>4 DEF Running, OnThread
  <2>7. PICK S \in SUBSET Jobs : S = {j}
    BY <1>0
  <2>8. /\ S # {} /\ S \cap submitted = {} /\ submitted' = submitted \cup S
        /\ UNCHANGED <<main, done>>
        /\ \A x \in S : Queued(x)'
    BY <1>0, <2>3, <2>5, <2>7
  <2> QED
    BY <2>6, <2>8, Submits
<1>3. ASSUME NEW j \in Fresh, NEW k \in Fresh, ScheduleRange(j, k)
      PROVE  \E T \in SUBSET Jobs : Pool!Submit(T)
  <2>1. PICK a \in Entry, b \in Entry : a = CbEntry(j, AnyThread) /\ b = CbEntry(k, AnyThread)
    BY DEF CbEntry, Entry, Fresh
  <2>2. /\ a.fiber = NoFiber /\ a.cb = j /\ b.fiber = NoFiber /\ b.cb = k
        /\ m_fibers' = m_fibers \o <<a, b>>
        /\ submitted' = submitted \cup {j, k} /\ UNCHANGED <<m_state, m_cb>>
    BY <1>3, <2>1 DEF CbEntry, ScheduleRange, fiberVars
  <2> DEFINE n == Len(m_fibers)
  <2>3. /\ n + 1 \in 1 .. Len(m_fibers') /\ m_fibers'[n + 1] = a
        /\ n + 2 \in 1 .. Len(m_fibers') /\ m_fibers'[n + 2] = b
        /\ \A i \in 1 .. n : i \in 1 .. Len(m_fibers') /\ m_fibers'[i] = m_fibers[i]
        /\ \A i \in 1 .. Len(m_fibers') : i \in 1 .. n \/ m_fibers'[i] \in {a, b}
    <3>1. m_fibers' = Append(Append(m_fibers, a), b)
      BY <1>0, <2>2
    <3>2. PICK s \in Seq(Entry) : s = Append(m_fibers, a)
      BY <1>0, AppendFacts
    <3>3. /\ n + 1 \in 1 .. Len(s) /\ s[n + 1] = a /\ Len(s) = n + 1
          /\ \A i \in 1 .. n : i \in 1 .. Len(s) /\ s[i] = m_fibers[i]
          /\ \A i \in 1 .. Len(s) : i \in 1 .. n \/ s[i] = a
      BY <1>0, <3>2, AppendFacts
    <3>4. /\ Len(s) + 1 \in 1 .. Len(m_fibers') /\ m_fibers'[Len(s) + 1] = b
          /\ \A i \in 1 .. Len(s) : i \in 1 .. Len(m_fibers') /\ m_fibers'[i] = s[i]
          /\ \A i \in 1 .. Len(m_fibers') : i \in 1 .. Len(s) \/ m_fibers'[i] = b
      BY <3>1, <3>2, AppendFacts
    <3>5. n \in Nat /\ Len(s) + 1 = n + 2
      BY <1>0, <3>3
    <3> HIDE DEF n
    <3> QED
      BY <3>3, <3>4, <3>5
  <2> HIDE DEF n
  <2>4. Queued(j)' /\ Queued(k)'
    BY <1>0, <2>2, <2>3 DEF Queued, CarriedBy
  <2>5. ASSUME NEW h \in submitted \ done
        PROVE  /\ Running(h)' <=> Running(h)
               /\ Queued(h)' <=> Queued(h)
               /\ Listed(h)' <=> Listed(h)
    <3>1. n = Len(m_fibers) /\ h # j /\ h # k
      BY <1>0 DEF n
    <3>2. \A i \in 1 .. Len(m_fibers') : CarriedBy(m_fibers[i], h)' =>
            i \in 1 .. n /\ m_fibers'[i] = m_fibers[i] /\ CarriedBy(m_fibers[i], h)
      BY <2>2, <2>3, <3>1 DEF CarriedBy
    <3>3. Listed(h)' <=> Listed(h)
      BY <2>2, <2>3, <3>1, <3>2 DEF Listed, CarriedBy
    <3>4. Queued(h)' <=> Queued(h)
      BY <2>2, <2>3, <3>1, <3>2 DEF Queued, CarriedBy
    <3> QED
      BY <1>0, <2>2, <3>3, <3>4 DEF Running, OnThread, Cur
  <2>6. PICK S \in SUBSET Jobs : S = {j, k}
    BY <1>0
  <2>7. /\ S # {} /\ S \cap submitted = {} /\ submitted' = submitted \cup S
        /\ UNCHANGED <<main, done>>
        /\ \A x \in S : Queued(x)'
    BY <1>0, <2>2, <2>4, <2>6
  <2> QED
    BY <2>5, <2>7, Submits
<1> QED
  BY <1>1, <1>2, <1>3

-----------------------------------------------------------------------------
\* Every step of the scheduler is a step of the pool, or changes nothing there
LEMMA NextSimulates ==
  ASSUME ~EarlyWake, PoolInv, PoolInv', [Next]_vars
  PROVE  [Pool!Next]_(Pool!poolVars)
<1> USE ConstAssumption
<1> DEFINE sim == [Pool!Next]_(Pool!poolVars)
<1>1. CASE CallerSchedules
  <2>1. ScheduleFrame /\ main \in {"created", "started", "stopped"}
    BY <1>1 DEF CallerSchedules, CallerFree, ScheduleFrame
  <2>2. \E T \in SUBSET Jobs : Pool!Submit(T)
    BY <1>1, <2>1, ScheduleSubmits DEF CallerSchedules
  <2> QED
    BY <2>2 DEF Pool!Next
<1>2. CASE Start
  <2>1. main \in {"created", "stopped"} /\ main' = "started"
    BY <1>2 DEF Start, CallerFree
  <2>2. \A j \in Jobs : JobStatus(j)' = JobStatus(j)
    BY <1>2, CallerKeeps
  <2>3. Pool!Open
    BY <2>1, <2>2 DEF Pool!Open
  <2> QED
    BY <2>3 DEF Pool!Next
<1>3. CASE StopBegins
  <2>1. main = "started" /\ main' = "stop"
    BY <1>3 DEF StopBegins
  <2>2. \A j \in Jobs : JobStatus(j)' = JobStatus(j)
    BY <1>3, CallerKeeps
  <2>3. Pool!Drain
    BY <2>1, <2>2 DEF Pool!Drain
  <2> QED
    BY <2>3 DEF Pool!Next
<1>4. CASE StopStep
  <2>1. \A j \in Jobs : JobStatus(j)' = JobStatus(j)
    BY <1>4, CallerKeeps
  <2>2. CASE main' = "stopped"
    <3>1. main \in {"stop", "join"}
      BY <1>4, <2>2 DEF StopStep, StopReturnsEarly, StopFlags, StopCalls, RootReturns, Join
    <3>2. /\ \A t \in Threads : ~AtWork(t)
          /\ \A i \in 1 .. Len(m_fibers) :
               m_fibers[i].fiber # NoFiber /\ m_state[m_fibers[i].fiber] = "HOLD"
      BY <2>2, <3>1, StopLeaves, LateIsEarly DEF PoolInv
    <3>3. \A j \in Jobs : ~Running(j) /\ ~Queued(j)
      BY <3>2 DEF Running, OnThread, AtWork, Queued, PoolInv, JobInv, JobCore, EntryShape
    <3>4. \A j \in Jobs : JobStatus(j) \notin {"running", "queued"}
      BY <3>3 DEF JobStatus
    <3>5. Pool!InStatus("queued") \cup Pool!InStatus("running") = {}
      BY <3>4 DEF Pool!InStatus
    <3>6. Pool!Close
      BY <2>1, <2>2, <3>1, <3>5 DEF Pool!Close
    <3> QED
      BY <3>6 DEF Pool!Next
  <2>3. CASE main' # "stopped"
    <3>1. main \in {"stop", "stopCheck", "inRun", "join"} /\ main' \in {"stop", "stopCheck", "inRun", "join"}
      BY <1>4, <2>3 DEF StopStep, StopReturnsEarly, StopFlags, StopCalls, RootReturns, Join
    <3>2. UNCHANGED Pool!poolVars
      BY <2>1, <3>1 DEF Pool!poolVars
    <3> QED
      BY <3>2
  <2> QED
    BY <2>2, <2>3
<1>5. ASSUME NEW t \in Threads, RunStep(t) \/ BodyStep(t) PROVE sim
  <2>1. CASE Pick(t)
    BY <2>1, PickBegins DEF Pool!Next
  <2>2. CASE Requeue(t)
    BY <2>2, RequeueYields DEF Pool!Next
  <2>3. CASE SetHold(t)
    BY <2>3, SetHoldParks DEF Pool!Next
  <2>4. CASE Return(t) \/ Throw(t)
    BY <2>4, ReturnFinishes DEF Pool!Next
  <2>5. CASE Spawn(t)
    <3>1. ScheduleFrame
      BY <2>5 DEF Spawn, BodyFrame, ScheduleFrame
    <3>2. \E k \in Jobs : JobStatus(k) = "running"
      <4>1. /\ Cur(t) # NoFiber /\ Cur(t) \in Fibers /\ m_cb[Cur(t)] \in Jobs
            /\ m_state[Cur(t)] = "EXEC" /\ pc[t] = "exec"
        BY <2>5 DEF Spawn, PoolInv, IInv, LocalsInv, SwappedIn, AtWork, Cur, TypeOK, Entry
      <4>2. m_cb[Cur(t)] \in submitted \ done /\ Running(m_cb[Cur(t)])
        BY <4>1 DEF PoolInv, JobInv, JobCore, Pending, Running, OnThread
      <4> QED
        BY <4>1, <4>2 DEF PoolInv, StatusInv
    <3>3. \E T \in SUBSET Jobs : Pool!Submit(T)
      BY <2>5, <3>1, <3>2, ScheduleSubmits DEF Spawn
    <3> QED
      BY <3>3 DEF Pool!Next
  <2>6. CASE \/ PickNothing(t) \/ Idle(t) \/ RunFiber(t) \/ RunCallbackReuse(t)
             \/ RunCallbackNew(t) \/ SwapOut(t) \/ NoteHold(t) \/ Finish(t)
             \/ YieldToReady(t) \/ Arm(t) \/ YieldToHold(t)
    BY <2>6, ThreadStutters
  <2> QED
    BY <1>5, <2>1, <2>2, <2>3, <2>4, <2>5, <2>6 DEF RunStep, BodyStep
<1>6. ASSUME NEW f \in Fibers, Wake(f) PROVE sim
  BY <1>6, WakeWakes DEF Pool!Next
<1>7. CASE UNCHANGED vars
  <2>1. \A j \in Jobs : JobStatus(j)' = JobStatus(j)
    BY <1>7 DEF vars, JobStatus, Running, Queued, Listed, CarriedBy, OnThread, Cur
  <2>2. UNCHANGED main
    BY <1>7 DEF vars
  <2> QED
    BY <2>1, <2>2, PoolStutters
<1> QED
  BY <1>1, <1>2, <1>3, <1>4, <1>5, <1>6, <1>7 DEF Next, Terminated

\* The constructed scheduler is a pool that is down, with no job submitted
LEMMA InitSimulates == ASSUME Init PROVE Pool!Init
<1>1. \A j \in Jobs : JobStatus(j) = "fresh"
  BY DEF Init, JobStatus
<1> QED
  BY <1>1 DEF Init, Pool!Init

\* The scheduler implements TaskPool, for any number of threads, jobs, yields
\* and start/stop cycles: every job runs once, on at most as many threads as
\* there are, and stop() closes the pool only when it is drained.  The
\* conditions are those of StopDrainsAll.
THEOREM SchedulerIsTaskPool ==
  ASSUME ~EarlyWake, SpawnPins \subseteq OpenPins, UseCaller => MaxStarts < 2
  PROVE  Spec => ImplementsTaskPool
<1>1. Init => DrainInv
  BY InitWhole DEF WholeInv
<1>2. IInv /\ DrainInv /\ [Next]_vars => DrainInv'
  BY NextDrain, LateIsEarly
<1>3. IInv /\ JobInv => StatusInv
  BY StatusTable
<1>4. PoolInv /\ PoolInv' /\ [Next]_vars => [Pool!Next]_(Pool!poolVars)
  BY NextSimulates
<1>5. Init => Pool!Init
  BY InitSimulates
<1>6. PoolInv <=> IInv /\ JobInv /\ DrainInv /\ StatusInv
  BY DEF PoolInv
<1> QED
  BY <1>1, <1>2, <1>3, <1>4, <1>5, <1>6, JobInvariance, PTL
     DEF Spec, ImplementsTaskPool, Pool!Spec
=============================================================================
