--------------------------- MODULE SchedulerProofs ---------------------------
(***************************************************************************)
(* Proofs that IInv is an invariant of Scheduler, and of the properties it  *)
(* implies, for every pool, set of jobs and bound.  One lemma per action;   *)
(* in each, one step per conjunct of IInv.                                  *)
(***************************************************************************)
EXTENDS SchedulerInv, FiniteSetTheorems, SequenceTheorems, TLAPS

\* What erasing an entry of m_fibers leaves: its length and its elements
LEMMA RemoveAtFacts ==
  ASSUME NEW S, NEW s \in Seq(S), NEW i \in 1 .. Len(s)
  PROVE  /\ RemoveAt(s, i) \in Seq(S)
         /\ Len(RemoveAt(s, i)) = Len(s) - 1
         /\ \A k \in 1 .. Len(s) - 1 :
              RemoveAt(s, i)[k] = IF k < i THEN s[k] ELSE s[k + 1]
<1> DEFINE a == SubSeq(s, 1, i - 1)
           b == SubSeq(s, i + 1, Len(s))
<1>1. a \in Seq(S) /\ Len(a) = i - 1 /\ \A k \in 1 .. i - 1 : a[k] = s[k]
  OBVIOUS
<1>2. b \in Seq(S) /\ Len(b) = Len(s) - i /\ \A k \in 1 .. Len(s) - i : b[k] = s[k + i]
  OBVIOUS
<1>3. RemoveAt(s, i) = a \o b
  BY DEF RemoveAt
<1> HIDE DEF a, b
<1>4. a \o b \in Seq(S) /\ Len(a \o b) = Len(s) - 1
  <2>1. a \o b \in Seq(S) /\ Len(a \o b) = Len(a) + Len(b)
    BY <1>1, <1>2, ConcatProperties
  <2>2. Len(a) + Len(b) = Len(s) - 1
    BY <1>1, <1>2, LenProperties
  <2> QED
    BY <2>1, <2>2
<1>5. ASSUME NEW k \in 1 .. Len(s) - 1
      PROVE  (a \o b)[k] = IF k < i THEN s[k] ELSE s[k + 1]
  <2>1. CASE k < i
    BY <1>1, <1>2, <2>1
  <2>2. CASE ~(k < i)
    <3>1. (a \o b)[k] = b[k - (i - 1)]
      BY <1>1, <1>2, <2>2
    <3>2. k - (i - 1) \in 1 .. Len(s) - i /\ (k - (i - 1)) + i = k + 1
      BY <2>2
    <3> QED
      BY <1>2, <3>1, <3>2, <2>2
  <2> QED
    BY <2>1, <2>2
<1> QED
  BY <1>3, <1>4, <1>5

\* The pool is finite
LEMMA ThreadsFinite == IsFiniteSet(Threads)
  BY ConstAssumption, FS_AddElement DEF Threads

\* A counter that follows a set grows by one with a new member
LEMMA CountUp ==
  ASSUME NEW S, IsFiniteSet(S), NEW x, x \notin S
  PROVE  Cardinality(S \cup {x}) = Cardinality(S) + 1
  BY FS_AddElement

\* ... and drops by one, staying a natural number, when a member leaves
LEMMA CountLess ==
  ASSUME NEW S, IsFiniteSet(S), NEW x \in S
  PROVE  Cardinality(S \ {x}) = Cardinality(S) - 1 /\ Cardinality(S \ {x}) \in Nat
  BY FS_RemoveElement, FS_CardinalityType

\* The sets the two counters count are finite
LEMMA ThreadSetsFinite == IsFiniteSet(ActiveThreads) /\ IsFiniteSet(IdleThreads)
  BY ThreadsFinite, FS_Subset DEF ActiveThreads, IdleThreads

\* MainFunc marks a fiber TERM while its thread still holds it
LEMMA ReturnStep ==
  ASSUME IInv, NEW t \in Threads, fault = "none", Return(t)
  PROVE  IInv'
<1> USE ConstAssumption DEF IInv, NoFiber, Fibers, Return, BodyFrame, callerVars
<1>1. TypeOK'
  <2>1. Cur(t) \in Fibers /\ m_cb[Cur(t)] \in Jobs
    BY DEF LocalsInv, SwappedIn, AtWork, Cur, TypeOK, Entry
  <2> QED
    BY <2>1 DEF TypeOK, PcSet, FiberState, Entry
<1>2. CountsExact'
  <2>1. ActiveThreads' = ActiveThreads /\ IdleThreads' = IdleThreads
    BY DEF TypeOK, ActiveThreads, IdleThreads
  <2> QED
    BY <2>1 DEF CountsExact
<1>3. NoAbort'
  BY DEF NoAbort
<1>4. ListInv' /\ ListDistinct' /\ ListApart'
  BY DEF ListInv, ListDistinct, ListApart, Held, LocalsInv, SwappedIn, AtWork, Cur, TypeOK, Entry
<1>5. ThreadsApart'
  BY DEF ThreadsApart, Held, TypeOK, Entry
<1>6. LocalsInv'
  BY DEF ThreadsApart, Held, ResumableState, LocalsInv, SwappedIn, AtWork, Cur, TypeOK, Entry
<1>7. SpareInv'
  BY DEF SpareInv, ThreadsApart, Held, LocalsInv, SwappedIn, AtWork, Cur, TypeOK, Entry
<1>8. ArmedInv'
  BY DEF ArmedInv, Parked, ThreadsApart, Held, LocalsInv, SwappedIn, AtWork, Cur, TypeOK, Entry
<1>9. MainInv'
  BY DEF MainInv, TypeOK
<1> QED
  BY <1>1, <1>2, <1>3, <1>4, <1>5, <1>6, <1>7, <1>8, <1>9

\* MainFunc marks a fiber EXCEPT: as Return, but m_cb stays
LEMMA ThrowStep ==
  ASSUME IInv, NEW t \in Threads, fault = "none", Throw(t)
  PROVE  IInv'
<1> USE ConstAssumption DEF IInv, NoFiber, Fibers, Throw, BodyFrame, callerVars
<1>1. TypeOK'
  <2>1. Cur(t) \in Fibers /\ m_cb[Cur(t)] \in Jobs
    BY DEF LocalsInv, SwappedIn, AtWork, Cur, TypeOK, Entry
  <2> QED
    BY <2>1 DEF TypeOK, PcSet, FiberState, Entry
<1>2. CountsExact'
  <2>1. ActiveThreads' = ActiveThreads /\ IdleThreads' = IdleThreads
    BY DEF TypeOK, ActiveThreads, IdleThreads
  <2> QED
    BY <2>1 DEF CountsExact
<1>3. NoAbort'
  BY DEF NoAbort
<1>4. ListInv' /\ ListDistinct' /\ ListApart'
  BY DEF ListInv, ListDistinct, ListApart, Held, LocalsInv, SwappedIn, AtWork, Cur, TypeOK, Entry
<1>5. ThreadsApart'
  BY DEF ThreadsApart, Held, TypeOK, Entry
<1>6. LocalsInv'
  BY DEF ThreadsApart, Held, ResumableState, LocalsInv, SwappedIn, AtWork, Cur, TypeOK, Entry
<1>7. SpareInv'
  BY DEF SpareInv, ThreadsApart, Held, LocalsInv, SwappedIn, AtWork, Cur, TypeOK, Entry
<1>8. ArmedInv'
  BY DEF ArmedInv, Parked, ThreadsApart, Held, LocalsInv, SwappedIn, AtWork, Cur, TypeOK, Entry
<1>9. MainInv'
  BY DEF MainInv, TypeOK
<1> QED
  BY <1>1, <1>2, <1>3, <1>4, <1>5, <1>6, <1>7, <1>8, <1>9

\* YieldToReady() changes the state of a fiber only its thread holds
LEMMA YieldToReadyStep ==
  ASSUME IInv, NEW t \in Threads, fault = "none", YieldToReady(t)
  PROVE  IInv'
<1> USE ConstAssumption DEF IInv, NoFiber, Fibers, YieldToReady, BodyFrame, callerVars, MayYield, CountYield
<1>1. TypeOK'
  <2>1. Cur(t) \in Fibers /\ m_cb[Cur(t)] \in Jobs
    BY DEF LocalsInv, SwappedIn, AtWork, Cur, TypeOK, Entry
  <2> QED
    BY <2>1 DEF TypeOK, PcSet, FiberState, Entry
<1>2. CountsExact'
  <2>1. ActiveThreads' = ActiveThreads /\ IdleThreads' = IdleThreads
    BY DEF TypeOK, ActiveThreads, IdleThreads
  <2> QED
    BY <2>1 DEF CountsExact
<1>3. NoAbort'
  BY DEF NoAbort
<1>4. ListInv' /\ ListDistinct' /\ ListApart'
  BY DEF ListInv, ListDistinct, ListApart, Held, LocalsInv, SwappedIn, AtWork, Cur, TypeOK, Entry
<1>5. ThreadsApart'
  BY DEF ThreadsApart, Held, TypeOK, Entry
<1>6. LocalsInv'
  BY DEF ThreadsApart, Held, ResumableState, LocalsInv, SwappedIn, AtWork, Cur, TypeOK, Entry
<1>7. SpareInv'
  BY DEF SpareInv, ThreadsApart, Held, LocalsInv, SwappedIn, AtWork, Cur, TypeOK, Entry
<1>8. ArmedInv'
  BY DEF ArmedInv, Parked, ThreadsApart, Held, LocalsInv, SwappedIn, AtWork, Cur, TypeOK, Entry
<1>9. MainInv'
  BY DEF MainInv, TypeOK
<1> QED
  BY <1>1, <1>2, <1>3, <1>4, <1>5, <1>6, <1>7, <1>8, <1>9

\* Asking to be resumed does not release the fiber
LEMMA ArmStep ==
  ASSUME IInv, NEW t \in Threads, fault = "none", Arm(t)
  PROVE  IInv'
<1> USE ConstAssumption DEF IInv, NoFiber, Fibers, Arm, BodyFrame, callerVars, MayYield, CountYield
<1>1. TypeOK'
  <2>1. Cur(t) \in Fibers /\ m_cb[Cur(t)] \in Jobs
    BY DEF LocalsInv, SwappedIn, AtWork, Cur, TypeOK, Entry
  <2>2. yields' \in [Jobs -> 0 .. MaxYields]
    BY <2>1 DEF TypeOK
  <2> QED
    BY <2>1, <2>2 DEF TypeOK, PcSet
<1>2. CountsExact'
  <2>1. ActiveThreads' = ActiveThreads /\ IdleThreads' = IdleThreads
    BY DEF TypeOK, ActiveThreads, IdleThreads
  <2> QED
    BY <2>1 DEF CountsExact
<1>3. NoAbort'
  BY DEF NoAbort
<1>4. ListInv' /\ ListDistinct' /\ ListApart'
  BY DEF ListInv, ListDistinct, ListApart, Held, LocalsInv, SwappedIn, AtWork, Cur, TypeOK, Entry
<1>5. ThreadsApart'
  BY DEF ThreadsApart, Held, TypeOK, Entry
<1>6. LocalsInv'
  BY DEF ThreadsApart, Held, ResumableState, LocalsInv, SwappedIn, AtWork, Cur, TypeOK, Entry
<1>7. SpareInv'
  BY DEF SpareInv, ThreadsApart, Held, LocalsInv, SwappedIn, AtWork, Cur, TypeOK, Entry
<1>8. ArmedInv'
  BY DEF ArmedInv, Parked, ThreadsApart, Held, LocalsInv, SwappedIn, AtWork, Cur, TypeOK, Entry
<1>9. MainInv'
  BY DEF MainInv, TypeOK
<1> QED
  BY <1>1, <1>2, <1>3, <1>4, <1>5, <1>6, <1>7, <1>8, <1>9

\* YieldToHold() leaves the fiber with its thread, in HOLD
LEMMA YieldToHoldStep ==
  ASSUME IInv, NEW t \in Threads, fault = "none", YieldToHold(t)
  PROVE  IInv'
<1> USE ConstAssumption DEF IInv, NoFiber, Fibers, YieldToHold, BodyFrame, callerVars, jobVars
<1>1. TypeOK'
  <2>1. Cur(t) \in Fibers
    BY DEF LocalsInv, SwappedIn, AtWork, Cur, TypeOK, Entry
  <2> QED
    BY <2>1 DEF TypeOK, PcSet, FiberState, Entry
<1>2. CountsExact'
  <2>1. ActiveThreads' = ActiveThreads /\ IdleThreads' = IdleThreads
    BY DEF TypeOK, ActiveThreads, IdleThreads
  <2> QED
    BY <2>1 DEF CountsExact
<1>3. NoAbort'
  BY DEF NoAbort
<1>4. ListInv' /\ ListDistinct' /\ ListApart'
  BY DEF ListInv, ListDistinct, ListApart, Held, LocalsInv, SwappedIn, AtWork, Cur, TypeOK, Entry
<1>5. ThreadsApart'
  BY DEF ThreadsApart, Held, TypeOK, Entry
<1>6. LocalsInv'
  BY DEF ThreadsApart, Held, ResumableState, LocalsInv, SwappedIn, AtWork, Cur, TypeOK, Entry
<1>7. SpareInv'
  BY DEF SpareInv, ThreadsApart, Held, LocalsInv, SwappedIn, AtWork, Cur, TypeOK, Entry
<1>8. ArmedInv'
  BY DEF ArmedInv, Parked, ThreadsApart, Held, LocalsInv, SwappedIn, AtWork, Cur, TypeOK, Entry
<1>9. MainInv'
  BY DEF MainInv, TypeOK
<1> QED
  BY <1>1, <1>2, <1>3, <1>4, <1>5, <1>6, <1>7, <1>8, <1>9

\* A thread comes back from the idle fiber
LEMMA LeavesIdleStep ==
  ASSUME IInv, NEW t \in Threads, fault = "none", NEW s \in FiberState,
         pc[t] = "idling", pc' = [pc EXCEPT ![t] = "pick"],
         idleState' = [idleState EXCEPT ![t] = s],
         m_idleThreadCount' = m_idleThreadCount - 1,
         UNCHANGED <<m_fibers, m_activeThreadCount, callerVars, ft, cbFiber,
                     fiberVars, jobVars, fault>>
  PROVE  IInv'
<1> USE ConstAssumption DEF IInv, NoFiber, Fibers, callerVars, fiberVars, jobVars
<1>2. CountsExact' /\ m_activeThreadCount' \in Nat /\ m_idleThreadCount' \in Nat
  <2>1. /\ ActiveThreads' = ActiveThreads /\ IdleThreads' = IdleThreads \ {t}
        /\ t \in IdleThreads
    BY DEF TypeOK, ActiveThreads, IdleThreads
  <2>2. Cardinality(IdleThreads \ {t}) = Cardinality(IdleThreads) - 1 /\ Cardinality(IdleThreads \ {t}) \in Nat
    BY <2>1, ThreadSetsFinite, CountLess
  <2> QED
    BY <2>1, <2>2 DEF CountsExact, TypeOK
<1>1. TypeOK'
  BY <1>2 DEF TypeOK, PcSet, MainSet, FiberState, Entry
<1>3. NoAbort'
  BY DEF NoAbort
<1>4. ListInv' /\ ListDistinct' /\ ListApart'
  BY DEF ListInv, ListDistinct, ListApart, Held, LocalsInv, SwappedIn, AtWork, Cur, TypeOK, Entry
<1>5. ThreadsApart'
  BY DEF ThreadsApart, Held, TypeOK, Entry
<1>6. LocalsInv'
  BY DEF ThreadsApart, Held, ResumableState, LocalsInv, SwappedIn, AtWork, Cur, TypeOK, Entry
<1>7. SpareInv'
  BY DEF SpareInv, ThreadsApart, Held, LocalsInv, SwappedIn, AtWork, Cur, TypeOK, Entry
<1>8. ArmedInv'
  BY DEF ArmedInv, Parked, ThreadsApart, Held, LocalsInv, SwappedIn, AtWork, Cur, TypeOK, Entry
<1>9. MainInv'
  BY DEF MainInv, TypeOK
<1> QED
  BY <1>1, <1>2, <1>3, <1>4, <1>5, <1>6, <1>7, <1>8, <1>9

\* One turn of idle()
LEMMA IdleTurnStep ==
  ASSUME IInv, NEW t \in Threads, fault = "none", Idle(t)
  PROVE  IInv'
<1> DEFINE s == IF Stopping THEN "TERM" ELSE "HOLD"
<1>1. s \in FiberState /\ idleState' = [idleState EXCEPT ![t] = s]
  BY DEF FiberState, Idle
<1> HIDE DEF s
<1> QED
  BY <1>1, LeavesIdleStep DEF Idle

\* A thread enters the idle fiber, or leaves run() and drops its spare cb_fiber
LEMMA PickNothingStep ==
  ASSUME IInv, NEW t \in Threads, fault = "none", PickNothing(t)
  PROVE  IInv'
<1> USE ConstAssumption DEF IInv, NoFiber, Fibers, PickNothing, callerVars, fiberVars, jobVars
<1>2. CountsExact' /\ m_activeThreadCount' \in Nat /\ m_idleThreadCount' \in Nat
  <2>1. ActiveThreads' = ActiveThreads
    BY DEF TypeOK, ActiveThreads
  <2>2. CASE idleState[t] = "TERM"
    <3>1. IdleThreads' = IdleThreads
      BY <2>2 DEF TypeOK, IdleThreads
    <3> QED
      BY <2>1, <2>2, <3>1 DEF CountsExact, TypeOK
  <2>3. CASE idleState[t] # "TERM"
    <3>1. IdleThreads' = IdleThreads \cup {t} /\ t \notin IdleThreads
      BY <2>3 DEF TypeOK, IdleThreads
    <3> QED
      BY <2>1, <2>3, <3>1, ThreadSetsFinite, CountUp DEF CountsExact, TypeOK
  <2> QED
    BY <2>2, <2>3
<1>1. TypeOK'
  BY <1>2, ZenonT(60) DEF TypeOK, PcSet, MainSet, FiberState, Entry
<1>3. NoAbort'
  BY DEF NoAbort
<1>4. ListInv' /\ ListDistinct' /\ ListApart'
  BY DEF ListInv, ListDistinct, ListApart, Held, LocalsInv, SwappedIn, AtWork, Cur, TypeOK, Entry
<1>5. ThreadsApart'
  BY DEF ThreadsApart, Held, TypeOK, Entry
<1>6. LocalsInv'
  BY DEF ThreadsApart, Held, ResumableState, LocalsInv, SwappedIn, AtWork, Cur, TypeOK, Entry
<1>7. SpareInv'
  BY DEF SpareInv, ThreadsApart, Held, LocalsInv, SwappedIn, AtWork, Cur, TypeOK, Entry
<1>8. ArmedInv'
  <2>1. ASSUME NEW f \in armed, Parked(f)' PROVE m_state[f] = "HOLD"
    BY <2>1 DEF ArmedInv, SpareInv, Parked, LocalsInv, SwappedIn, AtWork, Cur, TypeOK, Entry
  <2> QED
    BY <2>1 DEF ArmedInv, Parked
<1>9. MainInv'
  BY DEF MainInv, TypeOK, Threads
<1> QED
  BY <1>1, <1>2, <1>3, <1>4, <1>5, <1>6, <1>7, <1>8, <1>9

\* swapIn() of a picked fiber: its state is one that can be resumed
LEMMA RunFiberStep ==
  ASSUME IInv, NEW t \in Threads, fault = "none", RunFiber(t)
  PROVE  IInv'
<1> USE ConstAssumption DEF IInv, NoFiber, Fibers, RunFiber, callerVars, jobVars, SwapIn
<1>1. TypeOK'
  BY DEF TypeOK, PcSet, MainSet, FiberState, Entry
<1>2. CountsExact'
  <2>1. ActiveThreads' = ActiveThreads /\ IdleThreads' = IdleThreads
    BY DEF TypeOK, ActiveThreads, IdleThreads
  <2> QED
    BY <2>1 DEF CountsExact
<1>3. NoAbort'
  BY DEF NoAbort, ResumableState, LocalsInv, SwappedIn, AtWork, Cur, TypeOK, Entry
<1>4. ListInv' /\ ListDistinct' /\ ListApart'
  BY DEF ListInv, ListDistinct, ListApart, Held, LocalsInv, SwappedIn, AtWork, Cur, TypeOK, Entry
<1>5. ThreadsApart'
  BY DEF ThreadsApart, Held, TypeOK, Entry
<1>6. LocalsInv'
  BY DEF ThreadsApart, Held, ResumableState, LocalsInv, SwappedIn, AtWork, Cur, TypeOK, Entry
<1>7. SpareInv'
  BY DEF SpareInv, ThreadsApart, Held, LocalsInv, SwappedIn, AtWork, Cur, TypeOK, Entry
<1>8. ArmedInv'
  BY DEF ArmedInv, Parked, ThreadsApart, Held, LocalsInv, SwappedIn, AtWork, Cur, TypeOK, Entry
<1>9. MainInv'
  BY DEF MainInv, TypeOK
<1> QED
  BY <1>1, <1>2, <1>3, <1>4, <1>5, <1>6, <1>7, <1>8, <1>9

\* reset() and swapIn() of the spare cb_fiber: the thread is its only owner
LEMMA RunCallbackReuseStep ==
  ASSUME IInv, NEW t \in Threads, fault = "none", RunCallbackReuse(t)
  PROVE  IInv'
<1> USE ConstAssumption DEF IInv, NoFiber, Fibers, RunCallbackReuse, callerVars, jobVars, SwapIn, ResetEntry
<1>1. TypeOK'
  BY DEF TypeOK, PcSet, MainSet, FiberState, Entry
<1>2. CountsExact'
  <2>1. ActiveThreads' = ActiveThreads /\ IdleThreads' = IdleThreads
    BY DEF TypeOK, ActiveThreads, IdleThreads
  <2> QED
    BY <2>1 DEF CountsExact
<1>3. NoAbort'
  BY DEF NoAbort, SpareInv, ResumableState, LocalsInv, SwappedIn, AtWork, Cur, TypeOK, Entry
<1>4. ListInv' /\ ListDistinct' /\ ListApart'
  <2>1. ListInv'
    BY SMTT(30) DEF ListInv, ListApart, Held, ResumableState, TypeOK, Entry
  <2>2. ListDistinct' /\ ListApart'
    BY DEF ListDistinct, ListApart, Held, TypeOK, Entry
  <2> QED
    BY <2>1, <2>2
<1>5. ThreadsApart'
  BY DEF ThreadsApart, Held, TypeOK, Entry
<1>6. LocalsInv'
  BY SMTT(30) DEF ThreadsApart, Held, ResumableState, LocalsInv, SwappedIn, AtWork, Cur, TypeOK, Entry
<1>7. SpareInv'
  BY DEF SpareInv, ThreadsApart, Held, LocalsInv, SwappedIn, AtWork, Cur, TypeOK, Entry
<1>8. ArmedInv'
  BY DEF ArmedInv, Parked, ThreadsApart, Held, LocalsInv, SwappedIn, AtWork, Cur, TypeOK, Entry
<1>9. MainInv'
  BY DEF MainInv, TypeOK
<1> QED
  BY <1>1, <1>2, <1>3, <1>4, <1>5, <1>6, <1>7, <1>8, <1>9

\* A callback gets a new fiber, whose id nothing refers to
LEMMA RunCallbackNewStep ==
  ASSUME IInv, NEW t \in Threads, fault = "none", RunCallbackNew(t)
  PROVE  IInv'
<1> USE ConstAssumption DEF IInv, NoFiber, Fibers, RunCallbackNew, callerVars, jobVars, SwapIn, ResetEntry
<1>1. TypeOK'
  BY DEF TypeOK, PcSet, MainSet, FiberState, Entry
<1>2. CountsExact'
  <2>1. ActiveThreads' = ActiveThreads /\ IdleThreads' = IdleThreads
    BY DEF TypeOK, ActiveThreads, IdleThreads
  <2> QED
    BY <2>1 DEF CountsExact
<1>3. NoAbort'
  BY DEF NoAbort, TypeOK
<1>4. ListInv' /\ ListDistinct' /\ ListApart'
  BY DEF ListInv, ListDistinct, ListApart, Held, LocalsInv, SwappedIn, AtWork, Cur, TypeOK, Entry
<1>5. ThreadsApart'
  BY DEF ThreadsApart, Held, TypeOK, Entry
<1>6. LocalsInv'
  BY DEF ThreadsApart, Held, ResumableState, LocalsInv, SwappedIn, AtWork, Cur, TypeOK, Entry
<1>7. SpareInv'
  BY DEF SpareInv, ThreadsApart, Held, LocalsInv, SwappedIn, AtWork, Cur, TypeOK, Entry
<1>8. ArmedInv'
  BY DEF ArmedInv, Parked, ThreadsApart, Held, LocalsInv, SwappedIn, AtWork, Cur, TypeOK, Entry
<1>9. MainInv'
  BY DEF MainInv, TypeOK
<1> QED
  BY <1>1, <1>2, <1>3, <1>4, <1>5, <1>6, <1>7, <1>8, <1>9

\* The thread is back in run() and no longer active; it still holds the fiber
LEMMA SwapOutStep ==
  ASSUME IInv, NEW t \in Threads, fault = "none", SwapOut(t)
  PROVE  IInv'
<1> USE ConstAssumption DEF IInv, NoFiber, Fibers, SwapOut, callerVars, fiberVars, jobVars, Deactivate
<1>2. CountsExact' /\ m_activeThreadCount' \in Nat /\ m_idleThreadCount' \in Nat
  <2>1. /\ ActiveThreads' = ActiveThreads \ {t} /\ IdleThreads' = IdleThreads
        /\ t \in ActiveThreads
    BY DEF TypeOK, ActiveThreads, IdleThreads
  <2>2. Cardinality(ActiveThreads \ {t}) = Cardinality(ActiveThreads) - 1 /\ Cardinality(ActiveThreads \ {t}) \in Nat
    BY <2>1, ThreadSetsFinite, CountLess
  <2> QED
    BY <2>1, <2>2 DEF CountsExact, TypeOK
<1>1. TypeOK'
  BY <1>2 DEF TypeOK, PcSet, MainSet, FiberState, Entry
<1>3. NoAbort'
  BY DEF NoAbort
<1>4. ListInv' /\ ListDistinct' /\ ListApart'
  BY DEF ListInv, ListDistinct, ListApart, Held, LocalsInv, SwappedIn, AtWork, Cur, TypeOK, Entry
<1>5. ThreadsApart'
  BY DEF ThreadsApart, Held, TypeOK, Entry
<1>6. LocalsInv'
  BY DEF ThreadsApart, Held, ResumableState, LocalsInv, SwappedIn, AtWork, Cur, TypeOK, Entry
<1>7. SpareInv'
  BY DEF SpareInv, ThreadsApart, Held, LocalsInv, SwappedIn, AtWork, Cur, TypeOK, Entry
<1>8. ArmedInv'
  BY DEF ArmedInv, Parked, ThreadsApart, Held, LocalsInv, SwappedIn, AtWork, Cur, TypeOK, Entry
<1>9. MainInv'
  BY DEF MainInv, TypeOK
<1> QED
  BY <1>1, <1>2, <1>3, <1>4, <1>5, <1>6, <1>7, <1>8, <1>9

\* The fiber passes from the thread to the list: one owner before, one after
LEMMA RequeueStep ==
  ASSUME IInv, NEW t \in Threads, fault = "none", Requeue(t)
  PROVE  IInv'
<1> USE ConstAssumption DEF IInv, NoFiber, Fibers, Requeue, SettleFrame, callerVars, jobVars, LetGo, ResetEntry, Enqueue, FiberEntry
<1>1. TypeOK'
  <2>1. Cur(t) \in Fibers
    BY DEF LocalsInv, SwappedIn, AtWork, Cur, TypeOK, Entry
  <2> QED
    BY <2>1 DEF TypeOK, PcSet, FiberState, Entry
<1>2. CountsExact'
  <2>1. ActiveThreads' = ActiveThreads /\ IdleThreads' = IdleThreads
    BY DEF TypeOK, ActiveThreads, IdleThreads
  <2> QED
    BY <2>1 DEF CountsExact
<1>3. NoAbort'
  BY DEF NoAbort
<1>4. ListInv' /\ ListDistinct' /\ ListApart'
  <2> DEFINE e == FiberEntry(Cur(t), AnyThread)
  <2>0. Cur(t) \in Fibers /\ m_cb[Cur(t)] \in Jobs /\ Cur(t) \notin armed
    BY DEF LocalsInv, SwappedIn, AtWork, Cur, TypeOK, Entry
  <2>1. Cur(t) \in Fibers /\ Held(t, Cur(t)) /\ ft'[t].fiber # Cur(t) /\ cbFiber'[t] # Cur(t)
    BY <2>0 DEF Held, ThreadsApart, Cur, TypeOK, Entry
  <2>2. /\ m_fibers' = Append(m_fibers, e) /\ e \in Entry /\ e.fiber = Cur(t)
        /\ \A u \in Threads : u # t => (ft'[u] = ft[u] /\ cbFiber'[u] = cbFiber[u])
    BY <2>1 DEF Entry, TypeOK
  <2> HIDE DEF e
  <2>3. /\ Len(m_fibers') = Len(m_fibers) + 1
        /\ \A i \in 1 .. Len(m_fibers) : m_fibers'[i] = m_fibers[i]
        /\ m_fibers'[Len(m_fibers) + 1] = e
    BY <2>2 DEF TypeOK
  <2>4. ListInv'
    BY <2>0, <2>1, <2>2, <2>3 DEF ListInv, ResumableState, ThreadsApart, TypeOK
  <2>5. ListDistinct'
    BY <2>1, <2>2, <2>3 DEF ListDistinct, ListApart, TypeOK
  <2>6. ListApart'
    <3>1. \A u \in Threads : Cur(t) # ft'[u].fiber /\ Cur(t) # cbFiber'[u]
      BY <2>1, <2>2 DEF ThreadsApart, Held
    <3>2. \A i \in 1 .. Len(m_fibers), u \in Threads :
            m_fibers[i].fiber # NoFiber =>
              m_fibers[i].fiber # ft'[u].fiber /\ m_fibers[i].fiber # cbFiber'[u]
      BY DEF ListApart, Held, TypeOK
    <3> QED
      BY <2>2, <2>3, <3>1, <3>2 DEF ListApart, Held, TypeOK
  <2> QED
    BY <2>4, <2>5, <2>6
<1>5. ThreadsApart'
  BY DEF ThreadsApart, Held, TypeOK, Entry
<1>6. LocalsInv'
  BY DEF ThreadsApart, Held, ResumableState, LocalsInv, SwappedIn, AtWork, Cur, TypeOK, Entry
<1>7. SpareInv'
  BY DEF SpareInv, ThreadsApart, Held, LocalsInv, SwappedIn, AtWork, Cur, TypeOK, Entry
<1>8. ArmedInv'
  BY DEF ArmedInv, Parked, ThreadsApart, Held, LocalsInv, SwappedIn, AtWork, Cur, TypeOK, Entry
<1>9. MainInv'
  BY DEF MainInv, TypeOK
<1> QED
  BY <1>1, <1>2, <1>3, <1>4, <1>5, <1>6, <1>7, <1>8, <1>9

\* A fiber that ended is dropped, or reset and kept as the spare cb_fiber
LEMMA FinishStep ==
  ASSUME IInv, NEW t \in Threads, fault = "none", Finish(t)
  PROVE  IInv'
<1> USE ConstAssumption DEF IInv, NoFiber, Fibers, Finish, SettleFrame, callerVars, jobVars, ResetEntry
<1>1. TypeOK'
  <2>1. Cur(t) \in Fibers
    BY DEF LocalsInv, SwappedIn, AtWork, Cur, TypeOK, Entry
  <2> QED
    BY <2>1 DEF TypeOK, PcSet, FiberState, Entry
<1>2. CountsExact'
  <2>1. ActiveThreads' = ActiveThreads /\ IdleThreads' = IdleThreads
    BY DEF TypeOK, ActiveThreads, IdleThreads
  <2> QED
    BY <2>1 DEF CountsExact
<1>3. NoAbort'
  BY DEF NoAbort
<1>4. ListInv' /\ ListDistinct' /\ ListApart'
  <2>1. ListInv'
    <3>1. CASE ft[t].fiber # NoFiber
      BY <3>1 DEF ListInv
    <3>2. CASE ft[t].fiber = NoFiber
      <4>1. \A i \in 1 .. Len(m_fibers) :
              m_fibers[i].fiber # NoFiber =>
                m_fibers[i].fiber \in Fibers /\ m_fibers[i].fiber # cbFiber[t]
        <5>1. \A i \in 1 .. Len(m_fibers) : m_fibers[i] \in Entry
          BY DEF TypeOK
        <5> QED
          BY <5>1 DEF ListApart, Held, Entry
      <4> QED
        BY <3>2, <4>1 DEF ListInv, TypeOK
    <3> QED
      BY <3>1, <3>2
  <2>2. ListDistinct'
    BY DEF ListDistinct
  <2>3. ListApart'
    BY DEF ListApart, Held, TypeOK
  <2> QED
    BY <2>1, <2>2, <2>3
<1>5. ThreadsApart'
  BY DEF ThreadsApart, Held, TypeOK, Entry
<1>6. LocalsInv'
  BY DEF ThreadsApart, Held, ResumableState, LocalsInv, SwappedIn, AtWork, Cur, TypeOK, Entry
<1>7. SpareInv'
  BY DEF SpareInv, ThreadsApart, Held, LocalsInv, SwappedIn, AtWork, Cur, TypeOK, Entry
<1>8. ArmedInv'
  BY DEF ArmedInv, Parked, ThreadsApart, Held, LocalsInv, SwappedIn, AtWork, Cur, TypeOK, Entry
<1>9. MainInv'
  BY DEF MainInv, TypeOK
<1> QED
  BY <1>1, <1>2, <1>3, <1>4, <1>5, <1>6, <1>7, <1>8, <1>9

\* Choosing the HOLD branch changes the place of the thread only
LEMMA NoteHoldStep ==
  ASSUME IInv, NEW t \in Threads, fault = "none", NoteHold(t)
  PROVE  IInv'
<1> USE ConstAssumption DEF IInv, NoFiber, Fibers, NoteHold, SettleFrame, callerVars, jobVars
<1>1. TypeOK'
  <2>1. Cur(t) \in Fibers
    BY DEF LocalsInv, SwappedIn, AtWork, Cur, TypeOK, Entry
  <2> QED
    BY <2>1 DEF TypeOK, PcSet, FiberState, Entry
<1>2. CountsExact'
  <2>1. ActiveThreads' = ActiveThreads /\ IdleThreads' = IdleThreads
    BY DEF TypeOK, ActiveThreads, IdleThreads
  <2> QED
    BY <2>1 DEF CountsExact
<1>3. NoAbort'
  BY DEF NoAbort
<1>4. ListInv' /\ ListDistinct' /\ ListApart'
  BY DEF ListInv, ListDistinct, ListApart, Held, LocalsInv, SwappedIn, AtWork, Cur, TypeOK, Entry
<1>5. ThreadsApart'
  BY DEF ThreadsApart, Held, TypeOK, Entry
<1>6. LocalsInv'
  BY DEF ThreadsApart, Held, ResumableState, LocalsInv, SwappedIn, AtWork, Cur, TypeOK, Entry
<1>7. SpareInv'
  BY DEF SpareInv, ThreadsApart, Held, LocalsInv, SwappedIn, AtWork, Cur, TypeOK, Entry
<1>8. ArmedInv'
  BY DEF ArmedInv, Parked, ThreadsApart, Held, LocalsInv, SwappedIn, AtWork, Cur, TypeOK, Entry
<1>9. MainInv'
  BY DEF MainInv, TypeOK
<1> QED
  BY <1>1, <1>2, <1>3, <1>4, <1>5, <1>6, <1>7, <1>8, <1>9

\* The fiber is left in HOLD, owned by nobody until its wake-up
LEMMA SetHoldStep ==
  ASSUME IInv, NEW t \in Threads, fault = "none", SetHold(t)
  PROVE  IInv'
<1> USE ConstAssumption DEF IInv, NoFiber, Fibers, SetHold, SettleFrame, callerVars, jobVars, LetGo, ResetEntry
<1>1. TypeOK'
  <2>1. Cur(t) \in Fibers
    BY DEF LocalsInv, SwappedIn, AtWork, Cur, TypeOK, Entry
  <2> QED
    BY <2>1 DEF TypeOK, PcSet, FiberState, Entry
<1>2. CountsExact'
  <2>1. ActiveThreads' = ActiveThreads /\ IdleThreads' = IdleThreads
    BY DEF TypeOK, ActiveThreads, IdleThreads
  <2> QED
    BY <2>1 DEF CountsExact
<1>3. NoAbort'
  BY DEF NoAbort
<1>4. ListInv' /\ ListDistinct' /\ ListApart'
  BY SMTT(30) DEF ListInv, ListDistinct, ListApart, Held, LocalsInv, SwappedIn, AtWork, Cur, TypeOK, Entry
<1>5. ThreadsApart'
  BY DEF ThreadsApart, Held, TypeOK, Entry
<1>6. LocalsInv'
  BY DEF ThreadsApart, Held, ResumableState, LocalsInv, SwappedIn, AtWork, Cur, TypeOK, Entry
<1>7. SpareInv'
  BY DEF SpareInv, ThreadsApart, Held, LocalsInv, SwappedIn, AtWork, Cur, TypeOK, Entry
<1>8. ArmedInv'
  BY DEF ArmedInv, Parked, ThreadsApart, Held, LocalsInv, SwappedIn, AtWork, Cur, TypeOK, Entry
<1>9. MainInv'
  BY DEF MainInv, TypeOK
<1> QED
  BY <1>1, <1>2, <1>3, <1>4, <1>5, <1>6, <1>7, <1>8, <1>9

\* The pick moves the first entry from the list to the thread
LEMMA PickStep ==
  ASSUME IInv, NEW t \in Threads, fault = "none", Pick(t)
  PROVE  IInv'
<1> USE ConstAssumption DEF IInv, NoFiber, Fibers, callerVars, fiberVars, jobVars
<1>1. PICK i \in Candidates(t) :
        /\ ft' = [ft EXCEPT ![t] = m_fibers[i]]
        /\ m_fibers' = RemoveAt(m_fibers, i)
  BY DEF Pick
<1>2. /\ pc[t] = "pick" /\ pc' = [pc EXCEPT ![t] = "dispatch"] /\ Activate
      /\ UNCHANGED <<m_idleThreadCount, callerVars, cbFiber, idleState, fiberVars,
                     jobVars, fault>>
  BY DEF Pick
<1>3. i \in 1 .. Len(m_fibers) /\ m_fibers[i] \in Entry
  BY DEF Candidates, TypeOK
<1>4. /\ m_fibers' \in Seq(Entry) /\ Len(m_fibers') = Len(m_fibers) - 1
      /\ \A k \in 1 .. Len(m_fibers') :
           m_fibers'[k] = IF k < i THEN m_fibers[k] ELSE m_fibers[k + 1]
  BY <1>1, <1>3, RemoveAtFacts, ZenonT(60) DEF TypeOK
<1>5. /\ ft'[t] = m_fibers[i] /\ \A u \in Threads \ {t} : ft'[u] = ft[u]
      /\ pc'[t] = "dispatch" /\ \A u \in Threads \ {t} : pc'[u] = pc[u]
      /\ ft[t].fiber = NoFiber
  BY <1>1, <1>2 DEF TypeOK, LocalsInv, AtWork
<1>6. CountsExact' /\ m_activeThreadCount' \in Nat
  <2>1. /\ ActiveThreads' = ActiveThreads \cup {t} /\ t \notin ActiveThreads
        /\ IdleThreads' = IdleThreads
    BY <1>2, <1>5 DEF ActiveThreads, IdleThreads
  <2> QED
    BY <1>2, <2>1, ThreadSetsFinite, CountUp DEF CountsExact, TypeOK, Activate
<1>7. TypeOK'
  BY <1>1, <1>2, <1>3, <1>4, <1>6 DEF TypeOK, PcSet
<1> DEFINE old(k) == IF k < i THEN k ELSE k + 1
<1>8. \A k \in 1 .. Len(m_fibers') :
        old(k) \in 1 .. Len(m_fibers) /\ old(k) # i /\ m_fibers'[k] = m_fibers[old(k)]
  BY <1>3, <1>4 DEF TypeOK
<1>9. ListInv'
  BY <1>2, <1>8 DEF ListInv
<1>10. ListDistinct'
  <2> SUFFICES ASSUME NEW a \in 1 .. Len(m_fibers'), NEW b \in 1 .. Len(m_fibers'),
                      a # b, m_fibers'[a].fiber # NoFiber
               PROVE  m_fibers'[a].fiber # m_fibers'[b].fiber
    BY DEF ListDistinct
  <2>1. old(a) # old(b)
    BY <1>3
  <2> QED
    BY <1>8, <2>1, SMTT(30) DEF ListDistinct
<1>11. ListApart'
  <2> SUFFICES ASSUME NEW k \in 1 .. Len(m_fibers'), NEW u \in Threads,
                      m_fibers'[k].fiber # NoFiber
               PROVE  m_fibers'[k].fiber # ft'[u].fiber /\ m_fibers'[k].fiber # cbFiber'[u]
    BY DEF ListApart, Held
  <2>1. ~Held(u, m_fibers[old(k)].fiber) /\ m_fibers[old(k)].fiber # m_fibers[i].fiber
    BY <1>3, <1>8 DEF ListApart, ListDistinct
  <2> QED
    BY <1>2, <1>5, <1>8, <2>1 DEF Held
<1>12. ThreadsApart'
  <2>1. \A u \in Threads : m_fibers[i].fiber # NoFiber => ~Held(u, m_fibers[i].fiber)
    BY <1>3 DEF ListApart
  <2>2. m_fibers[i].fiber # NoFiber => m_fibers[i].fiber <= s_fiber_id
    BY <1>3 DEF ListInv
  <2> QED
    BY <1>2, <1>5, <2>1, <2>2 DEF ThreadsApart, Held
<1>13. LocalsInv'
  <2>1. LET e == m_fibers[i] IN
          /\ e.fiber = NoFiber => e.cb \in Jobs
          /\ e.fiber # NoFiber => /\ m_cb[e.fiber] \in Jobs
                                  /\ m_state[e.fiber] \in ResumableState
                                  /\ e.fiber \notin armed
    BY <1>3 DEF ListInv
  <2> QED
    BY <1>2, <1>5, <2>1 DEF LocalsInv, SwappedIn, AtWork, Cur
<1>14. SpareInv'
  BY <1>2, <1>5 DEF SpareInv, SwappedIn, AtWork, Cur
<1>15. ArmedInv'
  <2>1. \A f \in armed : f # NoFiber
    BY DEF TypeOK
  <2>2. ASSUME NEW f \in armed, Parked(f)', NEW u \in Threads
        PROVE  f # cbFiber[u] /\ f # ft[u].fiber
    <3>1. f # cbFiber'[u] /\ f # ft'[u].fiber
      BY <2>2 DEF Parked
    <3> QED
      BY <1>2, <1>5, <2>1, <3>1
  <2>3. \A f \in armed : Parked(f)' => Parked(f)
    BY <2>2 DEF Parked
  <2> QED
    BY <1>2, <2>3 DEF ArmedInv
<1>16. NoAbort' /\ MainInv'
  BY <1>2, <1>5 DEF NoAbort, MainInv, Threads
<1> QED
  BY <1>6, <1>7, <1>9, <1>10, <1>11, <1>12, <1>13, <1>14, <1>15, <1>16

\* start() creates threads that hold nothing
LEMMA StartStep ==
  ASSUME IInv, UseCaller => MaxStarts < 2, Start
  PROVE  IInv'
<1> USE ConstAssumption DEF IInv, NoFiber, Fibers, Start, CallerFree, fiberVars, jobVars
<1>0. /\ \A w \in Workers : pc[w] = "none"
      /\ \A u \in Threads : pc'[u] = (IF u \in Workers THEN "pick" ELSE pc[u])
  BY DEF MainInv
<1>1. TypeOK'
  <2>1. starts' \in 0 .. MaxStarts
    BY DEF TypeOK
  <2>2. pc' \in [Threads -> PcSet] /\ idleState' \in [Threads -> FiberState]
    BY DEF TypeOK, PcSet, FiberState
  <2> QED
    BY <2>1, <2>2 DEF TypeOK, MainSet
<1>2. CountsExact'
  <2>1. ActiveThreads' = ActiveThreads /\ IdleThreads' = IdleThreads
    BY <1>0 DEF ActiveThreads, IdleThreads
  <2> QED
    BY <2>1 DEF CountsExact
<1>3. NoAbort'
  BY DEF NoAbort
<1>4. ListInv' /\ ListDistinct' /\ ListApart'
  BY DEF ListInv, ListDistinct, ListApart, Held, LocalsInv, SwappedIn, AtWork, Cur, TypeOK, Entry
<1>5. ThreadsApart'
  BY DEF ThreadsApart, Held, TypeOK, Entry
<1>6. LocalsInv'
  BY <1>0 DEF LocalsInv, SwappedIn, AtWork, Cur
<1>7. SpareInv'
  BY <1>0 DEF SpareInv, SwappedIn, AtWork, Cur
<1>8. ArmedInv'
  BY DEF ArmedInv, Parked, ThreadsApart, Held, LocalsInv, SwappedIn, AtWork, Cur, TypeOK, Entry
<1>9. MainInv'
  BY <1>0 DEF MainInv, TypeOK, Threads
<1> QED
  BY <1>1, <1>2, <1>3, <1>4, <1>5, <1>6, <1>7, <1>8, <1>9

\* The first assignment of stop()
LEMMA StopBeginsStep ==
  ASSUME IInv, UseCaller => MaxStarts < 2, StopBegins
  PROVE  IInv'
<1> USE ConstAssumption DEF IInv, NoFiber, Fibers, StopBegins, StopFrame, fiberVars, jobVars
<1>1. TypeOK'
  BY DEF TypeOK, PcSet, MainSet, FiberState, Entry
<1>2. CountsExact'
  <2>1. ActiveThreads' = ActiveThreads /\ IdleThreads' = IdleThreads
    BY DEF TypeOK, ActiveThreads, IdleThreads
  <2> QED
    BY <2>1 DEF CountsExact
<1>3. NoAbort'
  BY DEF NoAbort
<1>4. ListInv' /\ ListDistinct' /\ ListApart'
  BY DEF ListInv, ListDistinct, ListApart, Held
<1>5. ThreadsApart'
  BY DEF ThreadsApart, Held, TypeOK, Entry
<1>6. LocalsInv'
  BY DEF ThreadsApart, Held, ResumableState, LocalsInv, SwappedIn, AtWork, Cur, TypeOK, Entry
<1>7. SpareInv'
  BY DEF SpareInv, ThreadsApart, Held, LocalsInv, SwappedIn, AtWork, Cur, TypeOK, Entry
<1>8. ArmedInv'
  BY DEF ArmedInv, Parked, ThreadsApart, Held, LocalsInv, SwappedIn, AtWork, Cur, TypeOK, Entry
<1>9. MainInv'
  BY DEF MainInv, TypeOK
<1> QED
  BY <1>1, <1>2, <1>3, <1>4, <1>5, <1>6, <1>7, <1>8, <1>9

\* The early return of stop()
LEMMA StopReturnsEarlyStep ==
  ASSUME IInv, UseCaller => MaxStarts < 2, StopReturnsEarly
  PROVE  IInv'
<1> USE ConstAssumption DEF IInv, NoFiber, Fibers, StopReturnsEarly, StopFrame, fiberVars, jobVars, NothingToRun
<1>1. TypeOK'
  BY DEF TypeOK, PcSet, MainSet, FiberState, Entry
<1>2. CountsExact'
  <2>1. ActiveThreads' = ActiveThreads /\ IdleThreads' = IdleThreads
    BY DEF TypeOK, ActiveThreads, IdleThreads
  <2> QED
    BY <2>1 DEF CountsExact
<1>3. NoAbort'
  BY DEF NoAbort
<1>4. ListInv' /\ ListDistinct' /\ ListApart'
  BY DEF ListInv, ListDistinct, ListApart, Held, LocalsInv, SwappedIn, AtWork, Cur, TypeOK, Entry
<1>5. ThreadsApart'
  BY DEF ThreadsApart, Held, TypeOK, Entry
<1>6. LocalsInv'
  BY DEF ThreadsApart, Held, ResumableState, LocalsInv, SwappedIn, AtWork, Cur, TypeOK, Entry
<1>7. SpareInv'
  BY DEF SpareInv, ThreadsApart, Held, LocalsInv, SwappedIn, AtWork, Cur, TypeOK, Entry
<1>8. ArmedInv'
  BY DEF ArmedInv, Parked, ThreadsApart, Held, LocalsInv, SwappedIn, AtWork, Cur, TypeOK, Entry
<1>9. MainInv'
  BY DEF MainInv, TypeOK
<1> QED
  BY <1>1, <1>2, <1>3, <1>4, <1>5, <1>6, <1>7, <1>8, <1>9

\* stop() sets m_stopping
LEMMA StopFlagsStep ==
  ASSUME IInv, UseCaller => MaxStarts < 2, StopFlags
  PROVE  IInv'
<1> USE ConstAssumption DEF IInv, NoFiber, Fibers, StopFlags, StopFrame, fiberVars, jobVars
<1>1. TypeOK'
  BY DEF TypeOK, PcSet, MainSet, FiberState, Entry
<1>2. CountsExact'
  <2>1. ActiveThreads' = ActiveThreads /\ IdleThreads' = IdleThreads
    BY DEF TypeOK, ActiveThreads, IdleThreads
  <2> QED
    BY <2>1 DEF CountsExact
<1>3. NoAbort'
  BY DEF NoAbort
<1>4. ListInv' /\ ListDistinct' /\ ListApart'
  BY DEF ListInv, ListDistinct, ListApart, Held
<1>5. ThreadsApart'
  BY DEF ThreadsApart, Held, TypeOK, Entry
<1>6. LocalsInv'
  BY DEF ThreadsApart, Held, ResumableState, LocalsInv, SwappedIn, AtWork, Cur, TypeOK, Entry
<1>7. SpareInv'
  BY DEF SpareInv, ThreadsApart, Held, LocalsInv, SwappedIn, AtWork, Cur, TypeOK, Entry
<1>8. ArmedInv'
  BY DEF ArmedInv, Parked, ThreadsApart, Held, LocalsInv, SwappedIn, AtWork, Cur, TypeOK, Entry
<1>9. MainInv'
  BY DEF MainInv, TypeOK
<1> QED
  BY <1>1, <1>2, <1>3, <1>4, <1>5, <1>6, <1>7, <1>8, <1>9

\* stop() enters run() through a root fiber that has never run, or goes on to join
LEMMA StopCallsStep ==
  ASSUME IInv, UseCaller => MaxStarts < 2, StopCalls
  PROVE  IInv'
<1> USE ConstAssumption DEF IInv, StopFrame, fiberVars, jobVars
<1>1. CASE UseCaller /\ ~Stopping
  <2>1. rootState = "INIT" /\ Caller \in Threads /\ pc[Caller] = "none"
    BY <1>1 DEF MainInv, Threads, StopCalls
  <2>2. /\ rootState' = "EXEC" /\ main' = "inRun" /\ fault' = fault
        /\ pc' = [pc EXCEPT ![Caller] = "pick"]
        /\ idleState' = [idleState EXCEPT ![Caller] = "INIT"]
        /\ UNCHANGED <<m_fibers, m_activeThreadCount, m_idleThreadCount, m_stopping,
                       m_autoStop, starts, ft, cbFiber, fiberVars, jobVars>>
    BY <1>1, <2>1 DEF StopCalls
  <2>3. /\ pc'[Caller] = "pick"
        /\ \A u \in Threads \ {Caller} : pc'[u] = pc[u]
    BY <2>1, <2>2 DEF TypeOK
  <2>4. TypeOK'
    BY <2>1, <2>2 DEF TypeOK, PcSet, MainSet, FiberState
  <2>5. ActiveThreads' = ActiveThreads /\ IdleThreads' = IdleThreads
    BY <2>1, <2>3 DEF ActiveThreads, IdleThreads
  <2>6. CountsExact' /\ NoAbort'
    BY <2>2, <2>5 DEF CountsExact, NoAbort
  <2>7. ListInv' /\ ListDistinct' /\ ListApart' /\ ThreadsApart' /\ ArmedInv'
    BY <2>2 DEF ListInv, ListDistinct, ListApart, ThreadsApart, ArmedInv, Held, Parked
  <2>8. LocalsInv'
    BY <2>1, <2>2, <2>3 DEF LocalsInv, SwappedIn, AtWork, Cur
  <2>9. SpareInv'
    BY <2>1, <2>2, <2>3 DEF SpareInv, SwappedIn, AtWork, Cur
  <2>10. MainInv'
    BY <1>1, <2>1, <2>2, <2>3 DEF MainInv, Threads, StopCalls
  <2> QED
    BY <2>4, <2>6, <2>7, <2>8, <2>9, <2>10
<1>2. CASE ~(UseCaller /\ ~Stopping)
  <2>1. /\ main = "stopCheck" /\ main' = "join"
        /\ UNCHANGED <<m_fibers, m_activeThreadCount, m_idleThreadCount, m_stopping,
                       m_autoStop, rootState, starts, pc, ft, cbFiber, idleState,
                       fiberVars, jobVars, fault>>
    BY <1>2 DEF StopCalls
  <2>2. TypeOK' /\ CountsExact' /\ NoAbort' /\ MainInv'
    BY <2>1 DEF TypeOK, MainSet, CountsExact, ActiveThreads, IdleThreads, NoAbort, MainInv
  <2>3. ListInv' /\ ListDistinct' /\ ListApart' /\ ThreadsApart' /\ ArmedInv'
    BY <2>1 DEF ListInv, ListDistinct, ListApart, ThreadsApart, ArmedInv, Held, Parked
  <2>4. LocalsInv' /\ SpareInv'
    BY <2>1 DEF LocalsInv, SpareInv, SwappedIn, AtWork, Cur
  <2> QED
    BY <2>2, <2>3, <2>4
<1> QED
  BY <1>1, <1>2

\* run() has ended on the thread of the caller
LEMMA RootReturnsStep ==
  ASSUME IInv, UseCaller => MaxStarts < 2, RootReturns
  PROVE  IInv'
<1> USE ConstAssumption DEF IInv, NoFiber, Fibers, RootReturns, StopFrame, fiberVars, jobVars
<1>1. TypeOK'
  BY DEF TypeOK, PcSet, MainSet, FiberState, Entry
<1>2. CountsExact'
  <2>1. ActiveThreads' = ActiveThreads /\ IdleThreads' = IdleThreads
    BY DEF TypeOK, ActiveThreads, IdleThreads
  <2> QED
    BY <2>1 DEF CountsExact
<1>3. NoAbort'
  BY DEF NoAbort
<1>4. ListInv' /\ ListDistinct' /\ ListApart'
  BY DEF ListInv, ListDistinct, ListApart, Held, LocalsInv, SwappedIn, AtWork, Cur, TypeOK, Entry
<1>5. ThreadsApart'
  BY DEF ThreadsApart, Held, TypeOK, Entry
<1>6. LocalsInv'
  BY DEF ThreadsApart, Held, ResumableState, LocalsInv, SwappedIn, AtWork, Cur, TypeOK, Entry
<1>7. SpareInv'
  BY DEF SpareInv, ThreadsApart, Held, LocalsInv, SwappedIn, AtWork, Cur, TypeOK, Entry
<1>8. ArmedInv'
  BY DEF ArmedInv, Parked, ThreadsApart, Held, LocalsInv, SwappedIn, AtWork, Cur, TypeOK, Entry
<1>9. MainInv'
  BY DEF MainInv, TypeOK, Threads
<1> QED
  BY <1>1, <1>2, <1>3, <1>4, <1>5, <1>6, <1>7, <1>8, <1>9

\* stop() has joined all workers, none of which held anything
LEMMA JoinStep ==
  ASSUME IInv, UseCaller => MaxStarts < 2, Join
  PROVE  IInv'
<1> USE ConstAssumption DEF IInv, NoFiber, Fibers, Join, StopFrame, fiberVars, jobVars, AllExited
<1>1. TypeOK'
  BY DEF TypeOK, PcSet, MainSet, FiberState, Entry
<1>2. CountsExact'
  <2>1. ActiveThreads' = ActiveThreads /\ IdleThreads' = IdleThreads
    BY DEF TypeOK, ActiveThreads, IdleThreads
  <2> QED
    BY <2>1 DEF CountsExact
<1>3. NoAbort'
  BY DEF NoAbort
<1>4. ListInv' /\ ListDistinct' /\ ListApart'
  BY DEF ListInv, ListDistinct, ListApart, Held, LocalsInv, SwappedIn, AtWork, Cur, TypeOK, Entry
<1>5. ThreadsApart'
  BY DEF ThreadsApart, Held, TypeOK, Entry
<1>6. LocalsInv'
  BY DEF ThreadsApart, Held, ResumableState, LocalsInv, SwappedIn, AtWork, Cur, TypeOK, Entry
<1>7. SpareInv'
  BY DEF SpareInv, ThreadsApart, Held, LocalsInv, SwappedIn, AtWork, Cur, TypeOK, Entry
<1>8. ArmedInv'
  BY DEF ArmedInv, Parked, ThreadsApart, Held, LocalsInv, SwappedIn, AtWork, Cur, TypeOK, Entry
<1>9. MainInv'
  BY DEF MainInv, TypeOK, Threads
<1> QED
  BY <1>1, <1>2, <1>3, <1>4, <1>5, <1>6, <1>7, <1>8, <1>9

\* A parked fiber goes back to the list: it was owned by nobody
LEMMA WakeStep ==
  ASSUME IInv, NEW f \in Fibers, Wake(f), Parked(f)
  PROVE  IInv'
<1> USE ConstAssumption DEF IInv, NoFiber, Fibers, Wake, Enqueue, FiberEntry, callerVars, jobVars
<1>1. TypeOK'
  BY DEF TypeOK, PcSet, MainSet, FiberState, Entry
<1>2. CountsExact'
  <2>1. ActiveThreads' = ActiveThreads /\ IdleThreads' = IdleThreads
    BY DEF TypeOK, ActiveThreads, IdleThreads
  <2> QED
    BY <2>1 DEF CountsExact
<1>3. NoAbort'
  BY DEF NoAbort
<1>4. ListInv' /\ ListDistinct' /\ ListApart'
  <2> DEFINE e == FiberEntry(f, AnyThread)
  <2>1. /\ \A u \in Threads : ~Held(u, f)'
        /\ f <= s_fiber_id /\ m_cb[f] \in Jobs /\ m_state[f] = "HOLD"
    BY DEF Parked, Held, ArmedInv
  <2>2. m_fibers' = Append(m_fibers, e) /\ e \in Entry /\ e.fiber = f
    BY DEF Entry
  <2> HIDE DEF e
  <2>3. /\ Len(m_fibers') = Len(m_fibers) + 1
        /\ \A i \in 1 .. Len(m_fibers) : m_fibers'[i] = m_fibers[i]
        /\ m_fibers'[Len(m_fibers) + 1] = e
    BY <2>2 DEF TypeOK
  <2>4. ListInv'
    <3>1. \A i \in 1 .. Len(m_fibers') : i \in 1 .. Len(m_fibers) \/ m_fibers'[i] = e
      BY <2>3 DEF TypeOK
    <3> QED
      BY <2>1, <2>2, <2>3, <3>1 DEF ListInv, ResumableState
  <2>5. ListDistinct'
    BY <2>2, <2>3 DEF ListDistinct, ListInv, TypeOK
  <2>6. ListApart'
    BY <2>1, <2>2, <2>3 DEF ListApart, Held, TypeOK
  <2> QED
    BY <2>4, <2>5, <2>6
<1>5. ThreadsApart'
  BY DEF ThreadsApart, Held, TypeOK, Entry
<1>6. LocalsInv'
  BY DEF ThreadsApart, Held, ResumableState, LocalsInv, SwappedIn, AtWork, Cur, TypeOK, Entry
<1>7. SpareInv'
  BY DEF SpareInv, ThreadsApart, Held, LocalsInv, SwappedIn, AtWork, Cur, TypeOK, Entry
<1>8. ArmedInv'
  BY DEF ArmedInv, Parked, ThreadsApart, Held, LocalsInv, SwappedIn, AtWork, Cur, TypeOK, Entry
<1>9. MainInv'
  BY DEF MainInv, TypeOK
<1> QED
  BY <1>1, <1>2, <1>3, <1>4, <1>5, <1>6, <1>7, <1>8, <1>9

\* What schedule() leaves alone
ScheduleFrame ==
  UNCHANGED <<m_activeThreadCount, m_idleThreadCount, callerVars, pc, ft,
              cbFiber, idleState, yields, done, fault>>

\* Appending callbacks, one or several, keeps the invariant
LEMMA CallbacksQueued ==
  ASSUME IInv, ScheduleFrame, UNCHANGED fiberVars,
         submitted' \in SUBSET Jobs, m_fibers' \in Seq(Entry),
         Len(m_fibers') >= Len(m_fibers),
         \A i \in 1 .. Len(m_fibers) : m_fibers'[i] = m_fibers[i],
         \A i \in 1 .. Len(m_fibers') : i > Len(m_fibers) =>
            m_fibers'[i].fiber = NoFiber /\ m_fibers'[i].cb \in Jobs
  PROVE  IInv'
<1> USE DEF IInv, ScheduleFrame, fiberVars, callerVars
<1>1. TypeOK' /\ CountsExact' /\ NoAbort' /\ MainInv'
  BY DEF TypeOK, CountsExact, ActiveThreads, IdleThreads, NoAbort, MainInv
<1>2. \A i \in 1 .. Len(m_fibers') : m_fibers'[i].fiber # NoFiber =>
         i \in 1 .. Len(m_fibers) /\ m_fibers'[i] = m_fibers[i]
  BY SMTT(30) DEF TypeOK
<1>3. ListInv'
  <2>1. \A i \in 1 .. Len(m_fibers') : m_fibers'[i].fiber = NoFiber => m_fibers'[i].cb \in Jobs
    <3>1. \A i \in 1 .. Len(m_fibers') : i \in 1 .. Len(m_fibers) \/ i > Len(m_fibers)
      BY DEF TypeOK
    <3> QED
      BY <3>1 DEF ListInv
  <2> QED
    BY <1>2, <2>1 DEF ListInv
<1>4. ListDistinct' /\ ListApart'
  BY <1>2 DEF ListDistinct, ListApart, Held
<1>5. ThreadsApart' /\ ArmedInv'
  BY DEF ThreadsApart, ArmedInv, Held, Parked
<1>6. LocalsInv' /\ SpareInv'
  BY DEF LocalsInv, SpareInv, SwappedIn, AtWork, Cur
<1> QED
  BY <1>1, <1>3, <1>4, <1>5, <1>6

\* Only callbacks were appended to the list
CallbacksAppended ==
  /\ UNCHANGED fiberVars
  /\ submitted' \in SUBSET Jobs /\ m_fibers' \in Seq(Entry)
  /\ Len(m_fibers') >= Len(m_fibers)
  /\ \A i \in 1 .. Len(m_fibers) : m_fibers'[i] = m_fibers[i]
  /\ \A i \in 1 .. Len(m_fibers') : i > Len(m_fibers) =>
       m_fibers'[i].fiber = NoFiber /\ m_fibers'[i].cb \in Jobs

\* schedule(cb, thread) appends one
LEMMA ScheduleCbAppends ==
  ASSUME TypeOK, NEW j \in Fresh,
         NEW thr \in Workers \cup {Caller, AnyThread}, ScheduleCb(j, thr)
  PROVE  CallbacksAppended
<1> DEFINE e == CbEntry(j, thr)
<1>1. e \in Entry /\ e.fiber = NoFiber /\ e.cb = j /\ j \in Jobs
  BY DEF CbEntry, Entry, Fresh
<1>2. m_fibers' = Append(m_fibers, e) /\ UNCHANGED fiberVars
  BY DEF ScheduleCb, Enqueue
<1>3. m_fibers \in Seq(Entry) /\ submitted' \in SUBSET Jobs
  BY <1>1 DEF TypeOK, ScheduleCb
<1> HIDE DEF e
<1>4. /\ m_fibers' \in Seq(Entry) /\ Len(m_fibers') = Len(m_fibers) + 1
      /\ \A i \in 1 .. Len(m_fibers) : m_fibers'[i] = m_fibers[i]
      /\ m_fibers'[Len(m_fibers) + 1] = e
  BY <1>1, <1>2, <1>3
<1>5. \A i \in 1 .. Len(m_fibers') : i > Len(m_fibers) =>
         m_fibers'[i].fiber = NoFiber /\ m_fibers'[i].cb \in Jobs
  BY <1>1, <1>3, <1>4
<1>6. Len(m_fibers') >= Len(m_fibers)
  BY <1>3, <1>4
<1> QED
  BY <1>2, <1>3, <1>4, <1>5, <1>6 DEF CallbacksAppended

\* schedule(begin, end) appends two
LEMMA ScheduleRangeAppends ==
  ASSUME TypeOK, NEW j \in Fresh, NEW k \in Fresh, ScheduleRange(j, k)
  PROVE  CallbacksAppended
<1> DEFINE r == <<CbEntry(j, AnyThread), CbEntry(k, AnyThread)>>
<1>1. /\ r \in Seq(Entry) /\ Len(r) = 2
      /\ \A i \in 1 .. 2 : r[i].fiber = NoFiber /\ r[i].cb \in Jobs
  BY DEF CbEntry, Entry, Fresh
<1>2. m_fibers' = m_fibers \o r /\ UNCHANGED fiberVars
  BY DEF ScheduleRange
<1>3. m_fibers \in Seq(Entry) /\ submitted' \in SUBSET Jobs
  BY DEF TypeOK, ScheduleRange, Fresh
<1> HIDE DEF r
<1>4. /\ m_fibers' \in Seq(Entry) /\ Len(m_fibers') = Len(m_fibers) + 2
      /\ \A i \in 1 .. Len(m_fibers) + 2 : m_fibers'[i] =
           IF i <= Len(m_fibers) THEN m_fibers[i] ELSE r[i - Len(m_fibers)]
  <2>1. /\ m_fibers \o r \in Seq(Entry) /\ Len(m_fibers \o r) = Len(m_fibers) + Len(r)
        /\ \A i \in 1 .. Len(m_fibers) + Len(r) : (m_fibers \o r)[i] =
             IF i <= Len(m_fibers) THEN m_fibers[i] ELSE r[i - Len(m_fibers)]
    BY <1>1, <1>3, ConcatProperties
  <2> QED
    BY <1>1, <1>2, <2>1
<1>5. \A i \in 1 .. Len(m_fibers') : i > Len(m_fibers) =>
         m_fibers'[i].fiber = NoFiber /\ m_fibers'[i].cb \in Jobs
  BY <1>1, <1>3, <1>4
<1>6. /\ Len(m_fibers') >= Len(m_fibers)
      /\ \A i \in 1 .. Len(m_fibers) : m_fibers'[i] = m_fibers[i]
  BY <1>3, <1>4
<1> QED
  BY <1>2, <1>3, <1>4, <1>5, <1>6 DEF CallbacksAppended

\* schedule(cb, thread) and schedule(begin, end) keep the invariant
LEMMA ScheduleCbStep ==
  ASSUME IInv, ScheduleFrame, NEW j \in Fresh,
         NEW thr \in Workers \cup {Caller, AnyThread}, ScheduleCb(j, thr)
  PROVE  IInv'
  BY ScheduleCbAppends, CallbacksQueued DEF CallbacksAppended, IInv

LEMMA ScheduleRangeStep ==
  ASSUME IInv, ScheduleFrame, NEW j \in Fresh, NEW k \in Fresh, ScheduleRange(j, k)
  PROVE  IInv'
  BY ScheduleRangeAppends, CallbacksQueued DEF CallbacksAppended, IInv

\* schedule(fiber, thread) of a new fiber keeps the invariant: nothing refers
\* to the id it gets
LEMMA ScheduleFiberStep ==
  ASSUME IInv, ScheduleFrame, NEW j \in Fresh,
         NEW thr \in Workers \cup {Caller, AnyThread}, ScheduleFiber(j, thr)
  PROVE  IInv'
<1> USE ConstAssumption DEF IInv, NoFiber, Fibers
<1> DEFINE n == s_fiber_id + 1
           e == FiberEntry(n, thr)
<1>1. /\ n \in Fibers /\ n > s_fiber_id /\ s_fiber_id' = n /\ armed' = armed
      /\ m_state' = [m_state EXCEPT ![n] = "INIT"]
      /\ m_cb' = [m_cb EXCEPT ![n] = j] /\ j \in Jobs
      /\ submitted' = submitted \cup {j} /\ s_fiber_id \in Nat
  BY DEF ScheduleFiber, NewFiber, TypeOK, Fresh
<1>2. e \in Entry /\ e.fiber = n /\ m_fibers' = Append(m_fibers, e)
  BY <1>1 DEF FiberEntry, Entry, ScheduleFiber, Enqueue
<1> HIDE DEF e, n
<1>3. /\ m_fibers' \in Seq(Entry) /\ Len(m_fibers') = Len(m_fibers) + 1
      /\ \A i \in 1 .. Len(m_fibers) : m_fibers'[i] = m_fibers[i]
      /\ m_fibers'[Len(m_fibers) + 1] = e
  BY <1>2 DEF TypeOK
<1>4. \A i \in 1 .. Len(m_fibers') : i \in 1 .. Len(m_fibers) \/ m_fibers'[i] = e
  BY <1>3 DEF TypeOK
<1>5. \A f \in Fibers \ {n} : m_state'[f] = m_state[f] /\ m_cb'[f] = m_cb[f]
  BY <1>1 DEF TypeOK
<1>6. /\ m_state'[n] = "INIT" /\ m_cb'[n] = j
      /\ \A t \in Threads : ft[t].fiber # n /\ cbFiber[t] # n
      /\ \A i \in 1 .. Len(m_fibers) : m_fibers[i].fiber # n
      /\ n \notin armed
  BY <1>1 DEF TypeOK, ThreadsApart, Held, ListInv, ArmedInv
<1>7. TypeOK'
  BY <1>1, <1>3 DEF TypeOK, FiberState, ScheduleFrame, callerVars
<1>8. CountsExact' /\ NoAbort' /\ MainInv'
  BY DEF CountsExact, ActiveThreads, IdleThreads, NoAbort, MainInv, ScheduleFrame, callerVars
<1>9. ListInv'
  <2>1. \A i \in 1 .. Len(m_fibers) : m_fibers[i] \in Entry
    BY DEF TypeOK
  <2> QED
    BY <1>1, <1>2, <1>3, <1>4, <1>5, <1>6, <2>1 DEF ListInv, ResumableState, Entry
<1>10. ListDistinct' /\ ListApart'
  BY <1>2, <1>3, <1>4, <1>6 DEF ListDistinct, ListApart, Held, ScheduleFrame
<1>11. ThreadsApart'
  BY <1>1 DEF ThreadsApart, Held, ScheduleFrame
<1>12. LocalsInv'
  <2>1. \A t \in Threads :
          /\ Cur(t)' = Cur(t) /\ Cur(t) # n
          /\ Cur(t) # NoFiber => Cur(t) \in Fibers
          /\ ft[t].fiber # NoFiber => ft[t].fiber \in Fibers
    BY <1>6 DEF Cur, ScheduleFrame, TypeOK, Entry
  <2> QED
    BY <1>1, <1>5, <1>6, <2>1 DEF LocalsInv, SwappedIn, AtWork, ScheduleFrame
<1>13. SpareInv'
  BY <1>1, <1>5, <1>6 DEF SpareInv, SwappedIn, AtWork, Cur, ScheduleFrame, TypeOK
<1>14. ArmedInv'
  BY <1>1, <1>5, <1>6 DEF ArmedInv, Parked, ScheduleFrame, TypeOK
<1> QED
  BY <1>7, <1>8, <1>9, <1>10, <1>11, <1>12, <1>13, <1>14

-----------------------------------------------------------------------------
\* The constructed scheduler satisfies the invariant
LEMMA InitEstablishes == ASSUME Init PROVE IInv
<1> USE ConstAssumption DEF Init, NoFiber, Fibers
<1>1. ResetEntry \in Entry
  BY DEF ResetEntry, Entry
<1>2. TypeOK
  <2>1. m_fibers \in Seq(Entry) /\ ft \in [Threads -> Entry] /\ pc \in [Threads -> PcSet]
    BY <1>1 DEF PcSet
  <2>2. /\ cbFiber \in [Threads -> Fibers \cup {NoFiber}]
        /\ idleState \in [Threads -> FiberState] /\ m_state \in [Fibers -> FiberState]
        /\ m_cb \in [Fibers -> Jobs \cup {NoJob}]
    BY DEF FiberState
  <2>3. yields \in [Jobs -> 0 .. MaxYields] /\ starts \in 0 .. MaxStarts /\ s_fiber_id \in 0 .. MaxFibers
    OBVIOUS
  <2>4. armed \in SUBSET Fibers /\ submitted \in SUBSET Jobs /\ done \in SUBSET Jobs
    OBVIOUS
  <2> QED
    BY <2>1, <2>2, <2>3, <2>4 DEF TypeOK, FiberState, MainSet
<1>3. ActiveThreads = {} /\ IdleThreads = {}
  BY DEF ActiveThreads, IdleThreads
<1>4. CountsExact
  BY <1>3, FS_EmptySet DEF CountsExact
<1>5. ListInv /\ ListDistinct /\ ListApart
  BY DEF ListInv, ListDistinct, ListApart
<1>6. ThreadsApart
  BY DEF ThreadsApart, Held, ResetEntry
<1>7. LocalsInv /\ SpareInv
  BY DEF LocalsInv, SpareInv, SwappedIn, AtWork, ResetEntry
<1>8. ArmedInv /\ NoAbort /\ MainInv
  BY DEF ArmedInv, NoAbort, MainInv, Threads
<1> QED
  BY <1>2, <1>4, <1>5, <1>6, <1>7, <1>8 DEF IInv

\* Every step but a wake-up keeps the invariant, as long as a root fiber is
\* called only once
LEMMA StepPreserves ==
  ASSUME UseCaller => MaxStarts < 2, IInv,
         \/ CallerSchedules \/ Start \/ StopBegins \/ StopStep
         \/ \E t \in Threads : RunStep(t) \/ BodyStep(t)
         \/ UNCHANGED vars
  PROVE  IInv'
<1>1. CASE CallerSchedules
  <2>1. ScheduleFrame
    BY <1>1 DEF CallerSchedules, ScheduleFrame
  <2> QED
    BY <1>1, <2>1, ConstAssumption, ScheduleCbStep, ScheduleFiberStep, ScheduleRangeStep
       DEF CallerSchedules
<1>2. CASE Start
  BY <1>2, StartStep
<1>3. CASE StopBegins
  BY <1>3, StopBeginsStep
<1>4. CASE StopStep
  BY <1>4, StopReturnsEarlyStep, StopFlagsStep, StopCallsStep, RootReturnsStep, JoinStep
     DEF StopStep
<1>5. ASSUME NEW t \in Threads, RunStep(t) PROVE IInv'
  BY <1>5, PickStep, PickNothingStep, IdleTurnStep, RunFiberStep, RunCallbackReuseStep,
     RunCallbackNewStep, SwapOutStep, RequeueStep, FinishStep, NoteHoldStep, SetHoldStep
     DEF RunStep
<1>6. ASSUME NEW t \in Threads, BodyStep(t) PROVE IInv'
  <2>1. CASE Spawn(t)
    <3>1. ScheduleFrame
      BY <2>1 DEF Spawn, BodyFrame, ScheduleFrame
    <3> QED
      BY <2>1, <3>1, ConstAssumption, ScheduleCbStep, ScheduleFiberStep DEF Spawn
  <2> QED
    BY <1>6, <2>1, ReturnStep, ThrowStep, YieldToReadyStep, ArmStep, YieldToHoldStep
       DEF BodyStep
<1>7. CASE UNCHANGED vars
  <2> USE <1>7 DEF vars, IInv
  <2>1. TypeOK' /\ CountsExact' /\ NoAbort' /\ MainInv'
    BY DEF TypeOK, CountsExact, ActiveThreads, IdleThreads, NoAbort, MainInv
  <2>2. ListInv' /\ ListDistinct' /\ ListApart' /\ ThreadsApart' /\ ArmedInv'
    BY DEF ListInv, ListDistinct, ListApart, ThreadsApart, ArmedInv, Held, Parked
  <2>3. LocalsInv' /\ SpareInv'
    BY DEF LocalsInv, SpareInv, SwappedIn, AtWork, Cur
  <2> QED
    BY <2>1, <2>2, <2>3
<1> QED
  BY <1>1, <1>2, <1>3, <1>4, <1>5, <1>6, <1>7

\* ... and so does a wake-up, when fibers are resumed only once they have left
\* their thread
LEMMA NextPreserves ==
  ASSUME ~EarlyWake, UseCaller => MaxStarts < 2, IInv, [Next]_vars
  PROVE  IInv'
<1>1. ASSUME NEW f \in Fibers, Wake(f) PROVE IInv'
  BY <1>1, WakeStep DEF Wake
<1> QED
  BY <1>1, StepPreserves DEF Next, Terminated

\* On one thread a fiber is parked whenever that thread is in its idle fiber, or
\* runs another one
LEMMA ParkedAlone ==
  ASSUME IInv, OneThread, NEW t \in Threads, pc[t] \in {"idling", "exec"}, NEW f \in armed
  PROVE  Parked(f)
<1>1. f \in Fibers /\ f # NoFiber
  BY ConstAssumption DEF IInv, TypeOK, Fibers, NoFiber
<1>2. f # ft[t].fiber /\ f # cbFiber[t]
  BY <1>1 DEF IInv, LocalsInv, SpareInv, AtWork, SwappedIn, Cur
<1> QED
  BY <1>2 DEF Parked, OneThread

\* A fiber that is on some thread's stack is held by that thread, and threads
\* hold different fibers
LEMMA OwnershipExcludes == ASSUME IInv PROVE ExclusiveExecution
<1> SUFFICES ASSUME NEW t \in Threads, NEW u \in Threads, t # u,
                    OnStack(t), OnStack(u)
             PROVE  Cur(t) # Cur(u)
  BY DEF ExclusiveExecution
<1>1. Cur(t) \in Fibers /\ Held(t, Cur(t)) /\ (Cur(u) # NoFiber => Held(u, Cur(u)))
  BY DEF IInv, LocalsInv, SwappedIn, AtWork, OnStack, Cur, Held, TypeOK, Entry
<1> QED
  BY <1>1 DEF IInv, ThreadsApart, NoFiber, Fibers, Held, Cur

-----------------------------------------------------------------------------
(* One thread.  There a fiber may be resumed early: the thread that is      *)
(* still on the way out of it is the only one that could pick it.           *)

\* The fiber that thread t is about to leave is listed already
EarlyEntry(t) ==
  \E i \in 1 .. Len(m_fibers) :
    m_fibers[i].fiber # NoFiber /\ Leaving(t, m_fibers[i].fiber)

\* While nobody leaves a listed fiber, the invariants are the same
LEMMA EarlyIsLate ==
  ASSUME EarlyInv, \A t \in Threads : ~EarlyEntry(t)
  PROVE  IInv
  BY DEF EarlyInv, IInv, EarlyEntry, EarlyListInv, ListInv, EarlyListApart, ListApart

LEMMA LateIsEarly == ASSUME IInv PROVE EarlyInv
  BY DEF EarlyInv, IInv, EarlyListInv, ListInv, EarlyListApart, ListApart

\* A thread that leaves a fiber is between the request and the loop's end
LEMMA LeaverAtWork ==
  ASSUME EarlyInv, NEW t \in Threads, EarlyEntry(t)
  PROVE  /\ pc[t] \in {"hold", "swapOut", "settle", "sethold"}
         /\ Cur(t) \in Fibers /\ Cur(t) \notin armed
         /\ pc[t] # "hold" => m_state[Cur(t)] = "HOLD"
<1>1. Cur(t) \in Fibers
  BY DEF EarlyInv, EarlyEntry, LocalsInv, SwappedIn, AtWork, Leaving, Cur, TypeOK, Entry, NoFiber, Fibers
<1> QED
  BY <1>1 DEF EarlyEntry, Leaving

\* The fiber that was resumed early reaches HOLD
LEMMA EarlyYieldToHold ==
  ASSUME EarlyInv, OneThread, NEW t \in Threads, YieldToHold(t)
  PROVE  EarlyInv'
<1> USE ConstAssumption DEF EarlyInv, NoFiber, Fibers, YieldToHold, BodyFrame, callerVars, jobVars
<1>1. Cur(t) \in Fibers /\ Cur(t)' = Cur(t) /\ pc'[t] = "swapOut" /\ \A u \in Threads : u = t
  BY DEF LocalsInv, SwappedIn, AtWork, Cur, TypeOK, Entry, OneThread
<1>2. /\ m_state'[Cur(t)] = "HOLD"
      /\ \A f \in Fibers \ {Cur(t)} : m_state'[f] = m_state[f]
  BY <1>1 DEF TypeOK
<1>3. TypeOK'
  BY <1>1 DEF TypeOK, PcSet, FiberState
<1>4. CountsExact'
  <2>1. ActiveThreads' = ActiveThreads /\ IdleThreads' = IdleThreads
    BY DEF TypeOK, ActiveThreads, IdleThreads
  <2> QED
    BY <2>1 DEF CountsExact
<1>5. \A f \in Fibers : Leaving(t, f) => Leaving(t, f)' /\ f = Cur(t)
  BY <1>1, <1>2 DEF Leaving
<1>6. \A i \in 1 .. Len(m_fibers) : m_fibers[i].fiber # NoFiber => m_fibers[i].fiber \in Fibers
  <2>1. \A i \in 1 .. Len(m_fibers) : m_fibers[i] \in Entry
    BY DEF TypeOK
  <2> QED
    BY <2>1 DEF Entry
<1>7. EarlyListInv'
  BY <1>1, <1>2, <1>5, <1>6 DEF EarlyListInv, ResumableState
<1>8. ListDistinct' /\ EarlyListApart'
  BY <1>1, <1>5, <1>6 DEF ListDistinct, EarlyListApart, Held
<1>9. ThreadsApart' /\ NoAbort' /\ MainInv'
  BY <1>1 DEF ThreadsApart, Held, NoAbort, MainInv, TypeOK, Threads
<1>10. LocalsInv'
  BY <1>1, <1>2 DEF LocalsInv, SwappedIn, AtWork, Cur
<1>11. SpareInv'
  BY <1>1, <1>2 DEF SpareInv, SwappedIn, AtWork, Cur, TypeOK
<1>12. ArmedInv'
  BY <1>1, <1>2 DEF ArmedInv, Parked, TypeOK
<1> QED
  BY <1>3, <1>4, <1>7, <1>8, <1>9, <1>10, <1>11, <1>12

\* Back in run(), the thread no longer counts as active
LEMMA EarlySwapOut ==
  ASSUME EarlyInv, OneThread, NEW t \in Threads, SwapOut(t)
  PROVE  EarlyInv'
<1> USE ConstAssumption DEF EarlyInv, NoFiber, Fibers, SwapOut, callerVars, fiberVars, jobVars
<1>1. Cur(t) \in Fibers /\ Cur(t)' = Cur(t) /\ pc'[t] = "settle" /\ \A u \in Threads : u = t
  BY DEF LocalsInv, SwappedIn, AtWork, Cur, TypeOK, Entry, OneThread
<1>2. CountsExact' /\ m_activeThreadCount' \in Nat
  <2>1. /\ ActiveThreads' = ActiveThreads \ {t} /\ IdleThreads' = IdleThreads
        /\ t \in ActiveThreads
    BY DEF TypeOK, ActiveThreads, IdleThreads
  <2>2. Cardinality(ActiveThreads \ {t}) = Cardinality(ActiveThreads) - 1 /\ Cardinality(ActiveThreads \ {t}) \in Nat
    BY <2>1, ThreadSetsFinite, CountLess
  <2> QED
    BY <2>1, <2>2 DEF CountsExact, TypeOK, Deactivate
<1>3. TypeOK'
  BY <1>2 DEF TypeOK, PcSet
<1>4. EarlyListInv' /\ ListDistinct' /\ EarlyListApart'
  BY <1>1 DEF EarlyListInv, ListDistinct, EarlyListApart, Held, Leaving
<1>5. ThreadsApart' /\ NoAbort' /\ MainInv'
  BY <1>1 DEF ThreadsApart, Held, NoAbort, MainInv, TypeOK, Threads
<1>6. LocalsInv' /\ SpareInv'
  BY <1>1 DEF LocalsInv, SpareInv, SwappedIn, AtWork, Cur
<1>7. ArmedInv'
  BY DEF ArmedInv, Parked
<1> QED
  BY <1>2, <1>3, <1>4, <1>5, <1>6, <1>7

\* The branch for HOLD is chosen
LEMMA EarlyNoteHold ==
  ASSUME EarlyInv, OneThread, NEW t \in Threads, NoteHold(t)
  PROVE  EarlyInv'
<1> USE ConstAssumption DEF EarlyInv, NoFiber, Fibers, NoteHold, SettleFrame, callerVars, jobVars
<1>1. Cur(t) \in Fibers /\ Cur(t)' = Cur(t) /\ pc'[t] = "sethold" /\ \A u \in Threads : u = t
  BY DEF LocalsInv, SwappedIn, AtWork, Cur, TypeOK, Entry, OneThread
<1>2. CountsExact'
  <2>1. ActiveThreads' = ActiveThreads /\ IdleThreads' = IdleThreads
    BY DEF TypeOK, ActiveThreads, IdleThreads
  <2> QED
    BY <2>1 DEF CountsExact
<1>3. TypeOK'
  BY DEF TypeOK, PcSet
<1>4. EarlyListInv' /\ ListDistinct' /\ EarlyListApart'
  BY <1>1 DEF EarlyListInv, ListDistinct, EarlyListApart, Held, Leaving
<1>5. ThreadsApart' /\ NoAbort' /\ MainInv'
  BY <1>1 DEF ThreadsApart, Held, NoAbort, MainInv, TypeOK, Threads
<1>6. LocalsInv' /\ SpareInv'
  BY <1>1 DEF LocalsInv, SpareInv, SwappedIn, AtWork, Cur
<1>7. ArmedInv'
  BY DEF ArmedInv, Parked
<1> QED
  BY <1>2, <1>3, <1>4, <1>5, <1>6, <1>7

\* The thread lets go of the fiber, which is in HOLD and may be listed
LEMMA EarlySetHold ==
  ASSUME EarlyInv, OneThread, NEW t \in Threads, SetHold(t)
  PROVE  EarlyInv'
<1> USE ConstAssumption DEF EarlyInv, NoFiber, Fibers, SetHold, SettleFrame, callerVars, jobVars, LetGo, ResetEntry
<1>1. /\ Cur(t) \in Fibers /\ m_state[Cur(t)] = "HOLD" /\ m_cb[Cur(t)] \in Jobs
      /\ pc'[t] = "pick" /\ \A u \in Threads : u = t
  BY DEF LocalsInv, SwappedIn, AtWork, Cur, TypeOK, Entry, OneThread
<1>2. m_state' = m_state
  BY <1>1 DEF TypeOK
<1>3. /\ ft'[t].fiber = NoFiber
      /\ cbFiber'[t] = IF ft[t].fiber # NoFiber THEN cbFiber[t] ELSE NoFiber
  BY DEF TypeOK
<1>4. TypeOK'
  BY <1>2 DEF TypeOK, PcSet, Entry
<1>5. CountsExact'
  <2>1. ActiveThreads' = ActiveThreads /\ IdleThreads' = IdleThreads
    BY DEF TypeOK, ActiveThreads, IdleThreads
  <2> QED
    BY <2>1 DEF CountsExact
<1>6. EarlyListInv'
  BY <1>1, <1>2 DEF EarlyListInv, Leaving, ResumableState
<1>7. ListDistinct' /\ EarlyListApart'
  <2>1. ASSUME NEW i \in 1 .. Len(m_fibers), m_fibers[i].fiber # NoFiber
        PROVE  m_fibers[i].fiber # ft'[t].fiber /\ m_fibers[i].fiber # cbFiber'[t]
    <3>1. m_fibers[i].fiber # ft'[t].fiber
      BY <1>3, <2>1
    <3>2. CASE ft[t].fiber = NoFiber
      BY <1>3, <2>1, <3>2
    <3>3. CASE ft[t].fiber # NoFiber
      <4>1. cbFiber'[t] = cbFiber[t] /\ Cur(t) # cbFiber[t]
        BY <1>3, <3>3 DEF Cur, ThreadsApart
      <4> QED
        BY <3>1, <4>1, <2>1 DEF EarlyListApart, Held, Leaving
    <3> QED
      BY <3>2, <3>3, <3>1
  <2> QED
    BY <1>1, <2>1 DEF ListDistinct, EarlyListApart, Held
<1>8. ThreadsApart'
  BY <1>1, <1>3 DEF ThreadsApart, Held
<1>9. NoAbort' /\ MainInv'
  BY <1>1 DEF NoAbort, MainInv, TypeOK, Threads
<1>10. LocalsInv'
  BY <1>1, <1>3 DEF LocalsInv, SwappedIn, AtWork
<1>11. SpareInv'
  BY <1>1, <1>2, <1>3 DEF SpareInv, SwappedIn, AtWork, Cur, ThreadsApart, Held
<1>12. ArmedInv'
  BY <1>1, <1>2, <1>3 DEF ArmedInv, Parked, Cur
<1> QED
  BY <1>4, <1>5, <1>6, <1>7, <1>8, <1>9, <1>10, <1>11, <1>12

\* The caller schedules callbacks
LEMMA EarlyCallbacks ==
  ASSUME EarlyInv, ScheduleFrame, CallbacksAppended
  PROVE  EarlyInv'
<1> USE DEF EarlyInv, ScheduleFrame, CallbacksAppended, fiberVars, callerVars
<1>1. TypeOK' /\ CountsExact' /\ NoAbort' /\ MainInv'
  BY DEF TypeOK, CountsExact, ActiveThreads, IdleThreads, NoAbort, MainInv
<1>2. \A i \in 1 .. Len(m_fibers') : m_fibers'[i].fiber # NoFiber =>
         i \in 1 .. Len(m_fibers) /\ m_fibers'[i] = m_fibers[i]
  BY SMTT(30) DEF TypeOK
<1>3. EarlyListInv'
  <2>1. \A i \in 1 .. Len(m_fibers') : m_fibers'[i].fiber = NoFiber => m_fibers'[i].cb \in Jobs
    <3>1. \A i \in 1 .. Len(m_fibers') : i \in 1 .. Len(m_fibers) \/ i > Len(m_fibers)
      BY DEF TypeOK
    <3> QED
      BY <3>1 DEF EarlyListInv
  <2> QED
    BY <1>2, <2>1 DEF EarlyListInv, Leaving, Cur
<1>4. ListDistinct' /\ EarlyListApart'
  BY <1>2 DEF ListDistinct, EarlyListApart, Held, Leaving, Cur
<1>5. ThreadsApart' /\ ArmedInv'
  BY DEF ThreadsApart, ArmedInv, Held, Parked
<1>6. LocalsInv' /\ SpareInv'
  BY DEF LocalsInv, SpareInv, SwappedIn, AtWork, Cur
<1> QED
  BY <1>1, <1>3, <1>4, <1>5, <1>6

\* ... or a fiber, which is new
LEMMA EarlyNewFiber ==
  ASSUME EarlyInv, ScheduleFrame, NEW j \in Fresh,
         NEW thr \in Workers \cup {Caller, AnyThread}, ScheduleFiber(j, thr)
  PROVE  EarlyInv'
<1> USE ConstAssumption DEF EarlyInv, NoFiber, Fibers
<1> DEFINE n == s_fiber_id + 1
           e == FiberEntry(n, thr)
<1>1. /\ n \in Fibers /\ n > s_fiber_id /\ s_fiber_id' = n /\ armed' = armed
      /\ m_state' = [m_state EXCEPT ![n] = "INIT"]
      /\ m_cb' = [m_cb EXCEPT ![n] = j] /\ j \in Jobs
      /\ submitted' = submitted \cup {j} /\ s_fiber_id \in Nat
  BY DEF ScheduleFiber, NewFiber, TypeOK, Fresh
<1>2. e \in Entry /\ e.fiber = n /\ m_fibers' = Append(m_fibers, e)
  BY <1>1 DEF FiberEntry, Entry, ScheduleFiber, Enqueue
<1> HIDE DEF e, n
<1>3. /\ m_fibers' \in Seq(Entry) /\ Len(m_fibers') = Len(m_fibers) + 1
      /\ \A i \in 1 .. Len(m_fibers) : m_fibers'[i] = m_fibers[i]
      /\ m_fibers'[Len(m_fibers) + 1] = e
  BY <1>2 DEF TypeOK
<1>4. \A i \in 1 .. Len(m_fibers') : i \in 1 .. Len(m_fibers) \/ m_fibers'[i] = e
  BY <1>3 DEF TypeOK
<1>5. \A f \in Fibers \ {n} : m_state'[f] = m_state[f] /\ m_cb'[f] = m_cb[f]
  BY <1>1 DEF TypeOK
<1>6. /\ m_state'[n] = "INIT" /\ m_cb'[n] = j
      /\ \A t \in Threads : ft[t].fiber # n /\ cbFiber[t] # n
      /\ \A i \in 1 .. Len(m_fibers) : m_fibers[i].fiber # n
      /\ n \notin armed
  BY <1>1 DEF TypeOK, ThreadsApart, Held, EarlyListInv, ArmedInv
<1>7. TypeOK'
  BY <1>1, <1>3 DEF TypeOK, FiberState, ScheduleFrame, callerVars
<1>8. CountsExact' /\ NoAbort' /\ MainInv'
  BY DEF CountsExact, ActiveThreads, IdleThreads, NoAbort, MainInv, ScheduleFrame, callerVars
<1>9. \A t \in Threads :
        /\ Cur(t)' = Cur(t) /\ Cur(t) # n
        /\ Cur(t) # NoFiber => Cur(t) \in Fibers
        /\ ft[t].fiber # NoFiber => ft[t].fiber \in Fibers
  BY <1>6 DEF Cur, ScheduleFrame, TypeOK, Entry
<1>10. \A t \in Threads, f \in Fibers : Leaving(t, f) => Leaving(t, f)'
  BY <1>1, <1>5, <1>9 DEF Leaving, ScheduleFrame
<1>11. EarlyListInv'
  <2>1. \A i \in 1 .. Len(m_fibers) : m_fibers[i] \in Entry
    BY DEF TypeOK
  <2> QED
    BY <1>1, <1>2, <1>3, <1>4, <1>5, <1>6, <1>10, <2>1 DEF EarlyListInv, ResumableState, Entry
<1>12. ListDistinct'
  BY <1>2, <1>3, <1>4, <1>6 DEF ListDistinct
<1>13. EarlyListApart'
  <2>1. \A i \in 1 .. Len(m_fibers) : m_fibers[i].fiber # NoFiber => m_fibers[i].fiber \in Fibers
    <3>1. \A i \in 1 .. Len(m_fibers) : m_fibers[i] \in Entry
      BY DEF TypeOK
    <3> QED
      BY <3>1 DEF Entry
  <2> QED
    BY <1>2, <1>3, <1>4, <1>6, <1>10, <2>1 DEF EarlyListApart, Held, ScheduleFrame
<1>14. ThreadsApart'
  BY <1>1 DEF ThreadsApart, Held, ScheduleFrame
<1>15. LocalsInv'
  BY <1>1, <1>5, <1>6, <1>9 DEF LocalsInv, SwappedIn, AtWork, ScheduleFrame
<1>16. SpareInv'
  BY <1>1, <1>5, <1>6 DEF SpareInv, SwappedIn, AtWork, Cur, ScheduleFrame, TypeOK
<1>17. ArmedInv'
  BY <1>1, <1>5, <1>6 DEF ArmedInv, Parked, ScheduleFrame, TypeOK
<1> QED
  BY <1>7, <1>8, <1>11, <1>12, <1>13, <1>14, <1>15, <1>16, <1>17

\* stop() moves on while the thread of the pool is at work: it cannot be the
\* caller's, so stop() neither enters run() nor finds that all have left
LEMMA EarlyStop ==
  ASSUME EarlyInv, OneThread, NEW t \in Threads, EarlyEntry(t), StopBegins \/ StopStep
  PROVE  EarlyInv'
<1> USE ConstAssumption DEF EarlyInv
<1>1. pc[t] \in {"hold", "swapOut", "settle", "sethold"} /\ \A u \in Threads : u = t
  BY LeaverAtWork DEF OneThread
<1>2. ~UseCaller \/ main = "inRun"
  BY <1>1 DEF MainInv, Threads
<1>3. ~RootReturns /\ ~Join /\ ~StopReturnsEarly
  <2>1. ~RootReturns
    BY <1>1 DEF RootReturns, MainInv, Threads
  <2>2. ~StopReturnsEarly
    BY <1>2 DEF StopReturnsEarly, NothingToRun
  <2>3. ~Join
    BY <1>1, <1>2 DEF Join, AllExited, Threads
  <2> QED
    BY <2>1, <2>2, <2>3
<1>4. ~UseCaller /\ main \in {"started", "stop", "stopCheck"} /\ main' \in {"stop", "stopCheck", "join"}
  BY <1>2, <1>3 DEF StopStep, StopBegins, StopFlags, StopCalls
<1>5. /\ m_stopping' \in BOOLEAN /\ m_autoStop' \in BOOLEAN
      /\ UNCHANGED <<m_fibers, m_activeThreadCount, m_idleThreadCount, starts, ft, cbFiber,
                     fiberVars, jobVars, rootState, pc, idleState, fault>>
  BY <1>3, <1>4 DEF StopStep, StopBegins, StopFlags, StopCalls, StopFrame, TypeOK
<1> USE <1>5 DEF fiberVars, jobVars
<1>6. TypeOK' /\ CountsExact' /\ NoAbort'
  BY <1>4 DEF TypeOK, MainSet, CountsExact, ActiveThreads, IdleThreads, NoAbort
<1>7. EarlyListInv' /\ ListDistinct' /\ EarlyListApart'
  BY DEF EarlyListInv, ListDistinct, EarlyListApart, Held, Leaving, Cur
<1>8. ThreadsApart' /\ ArmedInv'
  BY DEF ThreadsApart, ArmedInv, Held, Parked
<1>9. LocalsInv' /\ SpareInv'
  BY DEF LocalsInv, SpareInv, SwappedIn, AtWork, Cur
<1>10. MainInv'
  BY <1>4 DEF MainInv
<1> QED
  BY <1>6, <1>7, <1>8, <1>9, <1>10

\* A fiber is resumed: it is parked, or on its way off the thread
LEMMA EarlyWakeStep ==
  ASSUME EarlyInv, OneThread, NEW f \in Fibers, Wake(f)
  PROVE  EarlyInv'
<1> USE ConstAssumption DEF EarlyInv, NoFiber, Fibers, Wake, Enqueue, FiberEntry, callerVars, jobVars
<1>1. TypeOK'
  BY DEF TypeOK, PcSet, MainSet, FiberState, Entry
<1>2. CountsExact'
  <2>1. ActiveThreads' = ActiveThreads /\ IdleThreads' = IdleThreads
    BY DEF TypeOK, ActiveThreads, IdleThreads
  <2> QED
    BY <2>1 DEF CountsExact
<1>3. NoAbort' /\ MainInv' /\ ThreadsApart'
  BY DEF NoAbort, MainInv, ThreadsApart, Held
<1> DEFINE e == FiberEntry(f, AnyThread)
<1>4. f \in armed /\ f <= s_fiber_id /\ m_cb[f] \in Jobs /\ armed' = armed \ {f}
  BY DEF ArmedInv
<1>5. ASSUME NEW t \in Threads, Held(t, f)
      PROVE  Leaving(t, f)'
  <2>1. SwappedIn(t) /\ f = Cur(t)
    BY <1>4, <1>5 DEF SpareInv, Held, LocalsInv, SwappedIn, AtWork, Cur
  <2>2. pc[t] \in {"hold", "swapOut", "settle", "sethold"} /\ (pc[t] # "hold" => m_state[f] = "HOLD")
    BY <1>4, <2>1 DEF LocalsInv, SwappedIn, AtWork
  <2> QED
    BY <1>4, <2>1, <2>2 DEF Leaving, Cur
<1>6. (\A t \in Threads : ~Held(t, f)) => m_state[f] = "HOLD"
  BY <1>4 DEF ArmedInv, Parked, Held
<1>7. m_fibers' = Append(m_fibers, e) /\ e \in Entry /\ e.fiber = f
  BY DEF Entry
<1> HIDE DEF e
<1>8. /\ Len(m_fibers') = Len(m_fibers) + 1
      /\ \A i \in 1 .. Len(m_fibers) : m_fibers'[i] = m_fibers[i]
      /\ m_fibers'[Len(m_fibers) + 1] = e
      /\ \A i \in 1 .. Len(m_fibers') : i \in 1 .. Len(m_fibers) \/ m_fibers'[i] = e
  BY <1>7 DEF TypeOK
<1>9. \A t \in Threads, g \in Fibers : Leaving(t, g) => Leaving(t, g)'
  BY <1>4 DEF Leaving, Cur
<1>10. \A i \in 1 .. Len(m_fibers) : m_fibers[i].fiber # NoFiber =>
          m_fibers[i].fiber \in Fibers /\ m_fibers[i].fiber # f
  <2>1. \A i \in 1 .. Len(m_fibers) : m_fibers[i] \in Entry
    BY DEF TypeOK
  <2> QED
    BY <1>4, <2>1 DEF EarlyListInv, Entry
<1>11. EarlyListInv'
  <2>1. m_state[f] \in ResumableState \/ \E t \in Threads : Leaving(t, f)'
    BY <1>5, <1>6 DEF ResumableState
  <2> QED
    BY <1>4, <1>7, <1>8, <1>9, <1>10, <2>1 DEF EarlyListInv
<1>12. ListDistinct'
  BY <1>7, <1>8, <1>10 DEF ListDistinct
<1>13. EarlyListApart'
  BY <1>5, <1>7, <1>8, <1>9, <1>10 DEF EarlyListApart, Held
<1>14. LocalsInv' /\ SpareInv'
  BY <1>4 DEF LocalsInv, SpareInv, SwappedIn, AtWork, Cur
<1>15. ArmedInv'
  BY <1>4 DEF ArmedInv, Parked
<1> QED
  BY <1>1, <1>2, <1>3, <1>11, <1>12, <1>13, <1>14, <1>15

\* Nor is there a difference while no thread is at work
LEMMA RestIsLate ==
  ASSUME EarlyInv, \A t \in Threads : ~AtWork(t)
  PROVE  IInv
<1>1. \A t \in Threads : EarlyEntry(t) => AtWork(t)
  BY LeaverAtWork DEF AtWork
<1> QED
  BY <1>1, EarlyIsLate

\* While a listed fiber is being left, its thread can only go on with that
LEMMA EarlyWayOut ==
  ASSUME EarlyInv, NEW t \in Threads, EarlyEntry(t), RunStep(t) \/ BodyStep(t)
  PROVE  SwapOut(t) \/ NoteHold(t) \/ SetHold(t) \/ YieldToHold(t)
<1>1. /\ pc[t] \in {"hold", "swapOut", "settle", "sethold"}
      /\ pc[t] # "hold" => m_state[Cur(t)] = "HOLD"
  BY LeaverAtWork
<1> QED
  BY <1>1 DEF RunStep, BodyStep, Pick, PickNothing, Idle, RunFiber, RunCallbackReuse,
     RunCallbackNew, Requeue, Finish, Return, Throw, YieldToReady, Arm, Spawn

\* Every step keeps EarlyInv.  While a listed fiber is being left, the caller can
\* only schedule or begin to stop; at all other times the invariant is the one
\* of late wake-ups.
LEMMA EarlyNextPreserves ==
  ASSUME OneThread, UseCaller => MaxStarts < 2, EarlyInv, [Next]_vars
  PROVE  EarlyInv'
<1>1. ASSUME NEW f \in Fibers, Wake(f) PROVE EarlyInv'
  BY <1>1, EarlyWakeStep
<1>2. CASE UNCHANGED vars
  <2> USE <1>2 DEF vars, EarlyInv
  <2>1. TypeOK' /\ CountsExact' /\ NoAbort' /\ MainInv'
    BY DEF TypeOK, CountsExact, ActiveThreads, IdleThreads, NoAbort, MainInv
  <2>2. EarlyListInv' /\ ListDistinct' /\ EarlyListApart' /\ ThreadsApart' /\ ArmedInv'
    BY DEF EarlyListInv, ListDistinct, EarlyListApart, Leaving, Cur, ThreadsApart, ArmedInv, Held, Parked
  <2>3. LocalsInv' /\ SpareInv'
    BY DEF LocalsInv, SpareInv, SwappedIn, AtWork, Cur
  <2> QED
    BY <2>1, <2>2, <2>3
<1>3. CASE \A t \in Threads : ~EarlyEntry(t)
  <2>1. IInv
    BY <1>3, EarlyIsLate
  <2>2. (\A f \in Fibers : ~Wake(f)) => IInv'
    BY <2>1, StepPreserves DEF Next, Terminated
  <2>3. IInv' => EarlyInv'
    BY DEF EarlyInv, IInv, EarlyListInv, ListInv, EarlyListApart, ListApart
  <2> QED
    BY <1>1, <2>2, <2>3
<1>4. ASSUME NEW t \in Threads, EarlyEntry(t) PROVE EarlyInv'
  <2>1. /\ pc[t] \in {"hold", "swapOut", "settle", "sethold"} /\ \A u \in Threads : u = t
        /\ pc[t] # "hold" => m_state[Cur(t)] = "HOLD"
    BY <1>4, LeaverAtWork DEF OneThread
  <2>2. CASE CallerSchedules
    <3>1. ScheduleFrame /\ TypeOK
      BY <2>2 DEF CallerSchedules, ScheduleFrame, EarlyInv
    <3> QED
      BY <2>2, <3>1, ConstAssumption, ScheduleCbAppends, ScheduleRangeAppends, EarlyCallbacks,
         EarlyNewFiber DEF CallerSchedules
  <2>3. CASE StopBegins \/ StopStep
    BY <1>4, <2>3, EarlyStop
  <2>4. ~Start
    BY <2>1, ConstAssumption DEF Start, CallerFree, EarlyInv, MainInv, Threads
  <2>5. ASSUME NEW u \in Threads, RunStep(u) \/ BodyStep(u) PROVE EarlyInv'
    <3>1. u = t
      BY <2>1
    <3>2. SwapOut(t) \/ NoteHold(t) \/ SetHold(t) \/ YieldToHold(t)
      BY <1>4, <2>5, <3>1, EarlyWayOut
    <3> QED
      BY <3>2, EarlySwapOut, EarlyNoteHold, EarlySetHold, EarlyYieldToHold
  <2> QED
    BY <1>1, <1>2, <2>2, <2>3, <2>4, <2>5 DEF Next, Terminated
<1> QED
  BY <1>3, <1>4

-----------------------------------------------------------------------------
\* For any number of threads, jobs, yields and start/stop cycles: the
\* variables of the scheduler keep their types and IInv holds, provided that
\* whoever resumes a fiber waits until the fiber has left its thread
\* (~EarlyWake) and that a scheduler with a root fiber is started once.
THEOREM Invariance ==
  ASSUME ~EarlyWake, UseCaller => MaxStarts < 2
  PROVE  Spec => []IInv
<1>1. Init => IInv
  BY InitEstablishes
<1>2. IInv /\ [Next]_vars => IInv'
  BY NextPreserves
<1> QED
  BY <1>1, <1>2, PTL DEF Spec

\* On one thread, a worker's or the caller's, EarlyInv holds whenever fibers
\* are resumed.
THEOREM EarlyInvariance ==
  ASSUME OneThread, UseCaller => MaxStarts < 2
  PROVE  Spec => []EarlyInv
<1>1. Init => EarlyInv
  BY InitEstablishes, LateIsEarly
<1>2. EarlyInv /\ [Next]_vars => EarlyInv'
  BY EarlyNextPreserves
<1> QED
  BY <1>1, <1>2, PTL DEF Spec

\* So EarlyInv holds when one of the two is given: one thread, or late wake-ups
LEMMA EitherWay ==
  ASSUME EarlyWake => OneThread, UseCaller => MaxStarts < 2
  PROVE  Spec => []EarlyInv
<1>1. CASE OneThread
  BY <1>1, EarlyInvariance
<1>2. CASE ~OneThread
  <2>1. Spec => []IInv
    BY <1>2, Invariance
  <2>2. IInv => EarlyInv
    BY LateIsEarly
  <2> QED
    BY <2>1, <2>2, PTL
<1> QED
  BY <1>1, <1>2

\* Type correctness of run(), start(), stop(), schedule() and the fibers; in
\* particular neither thread counter ever wraps.
THEOREM TypeCorrect ==
  ASSUME EarlyWake => OneThread, UseCaller => MaxStarts < 2
  PROVE  Spec => []TypeOK
<1>1. EarlyInv => TypeOK
  BY DEF EarlyInv
<1> QED
  BY <1>1, EitherWay, PTL

\* swapIn() never enters a fiber that is still on another thread's stack.
THEOREM Exclusive ==
  ASSUME EarlyWake => OneThread, UseCaller => MaxStarts < 2
  PROVE  Spec => []ExclusiveExecution
<1>1. CASE OneThread
  <2>1. ExclusiveExecution
    BY <1>1 DEF OneThread, ExclusiveExecution
  <2> QED
    BY <2>1, PTL
<1>2. CASE ~OneThread
  <2>1. IInv => ExclusiveExecution
    BY OwnershipExcludes
  <2> QED
    BY <1>2, <2>1, Invariance, PTL
<1> QED
  BY <1>1, <1>2

\* No assertion of swapIn(), reset(), MainFunc and CallerMainFunc fails: with
\* several threads when fibers are resumed late, on one thread always.
THEOREM NeverAborts ==
  ASSUME EarlyWake => OneThread, UseCaller => MaxStarts < 2
  PROVE  Spec => []NoAbort
<1>1. EarlyInv => NoAbort
  BY DEF EarlyInv
<1> QED
  BY <1>1, EitherWay, PTL

\* m_activeThreadCount and m_idleThreadCount are exact, so stopping() decides
\* on the true number of threads that hold an entry.
THEOREM CountsAreExact ==
  ASSUME EarlyWake => OneThread, UseCaller => MaxStarts < 2
  PROVE  Spec => []CountsExact
<1>1. EarlyInv => CountsExact
  BY DEF EarlyInv
<1> QED
  BY <1>1, EitherWay, PTL
=============================================================================
