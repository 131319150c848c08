---------------------------- MODULE SchedulerInv ----------------------------
(***************************************************************************)
(* The inductive invariant behind ExclusiveExecution, NoAbort and          *)
(* CountsExact.  Its heart is ownership: a fiber that exists is referred   *)
(* to by at most one entry of the list or one local of run(), or is parked *)
(* and waits for its wake-up; and what the state of a fiber may be follows *)
(* from where it is.                                                       *)
(***************************************************************************)
EXTENDS Scheduler

\* Thread t refers to fiber f through one of run()'s locals
Held(t, f) == f = ft[t].fiber \/ f = cbFiber[t]

\* t is between the pick of an entry and the end of the loop's body
AtWork(t) == pc[t] \in {"dispatch", "exec", "hold", "swapOut", "settle", "sethold"}
SwappedIn(t) == AtWork(t) /\ pc[t] # "dispatch"

ResumableState == {"INIT", "READY", "HOLD"}

\* Entries carry work, name fibers that exist and can be resumed
ListInv ==
  \A i \in 1 .. Len(m_fibers) : LET e == m_fibers[i] IN
    /\ e.fiber = NoFiber => e.cb \in Jobs
    /\ e.fiber # NoFiber =>
         /\ e.fiber <= s_fiber_id
         /\ m_cb[e.fiber] \in Jobs
         /\ m_state[e.fiber] \in ResumableState
         /\ e.fiber \notin armed

\* No two entries name one fiber
ListDistinct ==
  \A i, k \in 1 .. Len(m_fibers) :
    i # k /\ m_fibers[i].fiber # NoFiber => m_fibers[i].fiber # m_fibers[k].fiber

\* No entry names a fiber a thread refers to
ListApart ==
  \A i \in 1 .. Len(m_fibers), t \in Threads :
    m_fibers[i].fiber # NoFiber => ~Held(t, m_fibers[i].fiber)

\* No two threads refer to one fiber, and no thread does so twice
ThreadsApart ==
  /\ \A t, u \in Threads : \A f \in Fibers : t # u /\ Held(t, f) => ~Held(u, f)
  /\ \A t \in Threads : ft[t].fiber # NoFiber => ft[t].fiber # cbFiber[t]
  /\ \A t \in Threads : \A f \in Fibers : Held(t, f) => f <= s_fiber_id

\* What each thread's locals hold, by the place it is at
LocalsInv ==
  \A t \in Threads :
    /\ ~AtWork(t) => ft[t].fiber = NoFiber
    /\ pc[t] = "dispatch" /\ ft[t].fiber = NoFiber => ft[t].cb \in Jobs
    /\ pc[t] = "dispatch" /\ ft[t].fiber # NoFiber =>
         /\ m_cb[ft[t].fiber] \in Jobs
         /\ m_state[ft[t].fiber] \in ResumableState
         /\ ft[t].fiber \notin armed
    /\ SwappedIn(t) => Cur(t) # NoFiber
    /\ pc[t] \in {"exec", "hold"} => m_cb[Cur(t)] \in Jobs /\ m_state[Cur(t)] = "EXEC"
    /\ pc[t] = "exec" => Cur(t) \notin armed
    /\ pc[t] \in {"swapOut", "settle"} =>
         /\ m_state[Cur(t)] \in {"READY", "HOLD", "TERM", "EXCEPT"}
         /\ m_state[Cur(t)] \in {"READY", "HOLD"} => m_cb[Cur(t)] \in Jobs
         /\ m_state[Cur(t)] # "HOLD" => Cur(t) \notin armed
    /\ pc[t] = "sethold" => m_state[Cur(t)] = "HOLD" /\ m_cb[Cur(t)] \in Jobs

\* A cb_fiber that is not swapped in has been reset
SpareInv ==
  \A t \in Threads :
    cbFiber[t] # NoFiber /\ (SwappedIn(t) => Cur(t) # cbFiber[t]) =>
      m_state[cbFiber[t]] = "INIT" /\ cbFiber[t] \notin armed

\* A fiber that waits for its wake-up is in HOLD once no thread refers to it
ArmedInv ==
  \A f \in armed :
    /\ f <= s_fiber_id /\ m_cb[f] \in Jobs
    /\ Parked(f) => m_state[f] = "HOLD"

\* The caller's thread: which threads exist, and the root fiber is not used
\* before stop() calls it
MainInv ==
  /\ main \in {"created", "stopped"} => \A w \in Workers : pc[w] = "none"
  /\ main # "inRun" /\ UseCaller => pc[Caller] = "none"
  /\ main = "inRun" => UseCaller
  /\ main # "created" => starts > 0
  /\ main \in {"created", "started", "stop", "stopCheck"} /\ MaxStarts < 2 =>
       rootState = "INIT"

IInv ==
  /\ TypeOK /\ CountsExact /\ NoAbort
  /\ ListInv /\ ListDistinct /\ ListApart /\ ThreadsApart
  /\ LocalsInv /\ SpareInv /\ ArmedInv /\ MainInv

-----------------------------------------------------------------------------
(* The same where a fiber may be resumed early.  It is then listed while    *)
(* its thread is still on the way out of it, and nowhere else.  What keeps  *)
(* this harmless on one thread is that nobody else can pick it meanwhile.   *)

\* Fiber f was resumed on its way from the request to be resumed to the end
\* of the loop's body
Leaving(t, f) ==
  /\ f = Cur(t) /\ f \notin armed
  /\ \/ pc[t] = "hold"
     \/ pc[t] \in {"swapOut", "settle", "sethold"} /\ m_state[f] = "HOLD"

\* As ListInv, but a fiber that is leaving need not be resumable yet
EarlyListInv ==
  \A i \in 1 .. Len(m_fibers) : LET e == m_fibers[i] IN
    /\ e.fiber = NoFiber => e.cb \in Jobs
    /\ e.fiber # NoFiber =>
         /\ e.fiber <= s_fiber_id
         /\ m_cb[e.fiber] \in Jobs
         /\ m_state[e.fiber] \in ResumableState \/ \E t \in Threads : Leaving(t, e.fiber)
         /\ e.fiber \notin armed

\* As ListApart, but for the fiber that is leaving
EarlyListApart ==
  \A i \in 1 .. Len(m_fibers), t \in Threads :
    m_fibers[i].fiber # NoFiber /\ Held(t, m_fibers[i].fiber) => Leaving(t, m_fibers[i].fiber)

EarlyInv ==
  /\ TypeOK /\ CountsExact /\ NoAbort
  /\ EarlyListInv /\ ListDistinct /\ EarlyListApart /\ ThreadsApart
  /\ LocalsInv /\ SpareInv /\ ArmedInv /\ MainInv
=============================================================================
