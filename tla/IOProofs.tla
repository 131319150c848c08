------------------------------ MODULE IOProofs ------------------------------
(***************************************************************************)
(* Proofs about the event table of hps_IOManager, for any number of        *)
(* descriptors, waiters and pollers: its count is exact, no waiter is      *)
(* scheduled twice or forgotten, and epoll watches what is registered.     *)
(***************************************************************************)
EXTENDS IOManager, FiniteSetTheorems, TLAPS

\* A context is filled exactly while its event is registered
ContextsFilled ==
  \A fd \in Fds, ev \in Events : ev \in events[fd] <=> context[fd][ev] # NoWaiter

\* The waiters that wait are those in some context
WaitersPlaced ==
  \A w \in Waiters :
    status[w] = "waiting" <=> \E fd \in Fds, ev \in Events : context[fd][ev] = w

\* No waiter is in two contexts
PlacesApart ==
  \A fd, gd \in Fds, ev, dv \in Events :
    context[fd][ev] # NoWaiter /\ context[fd][ev] = context[gd][dv] => fd = gd /\ ev = dv

\* The table and the waiters: what WaitersConserved says with cardinalities,
\* in a form every step preserves.  After a failed assertion nothing moves.
TableInv ==
  /\ events \in [Fds -> SUBSET Events]
  /\ context \in [Fds -> [Events -> Waiters \cup {NoWaiter}]]
  /\ m_pendingEventCount \in Nat /\ PendingExact
  /\ status \in [Waiters -> {"new", "waiting", "scheduled", "deleted"}]
  /\ fault \in {"none", "trigger", "context"}
  /\ Running => ContextsFilled /\ WaitersPlaced /\ PlacesApart

\* The inductive invariant
IOInv == TypeOK /\ TableInv

-----------------------------------------------------------------------------
(* Counting registered events.                                              *)

LEMMA EventsFinite ==
  /\ IsFiniteSet(Events)
  /\ IsFiniteSet(RegisteredEvents) /\ Cardinality(RegisteredEvents) \in Nat
<1>1. IsFiniteSet(Events)
  <2>1. Events = {"READ"} \cup {"WRITE"}
    BY DEF Events
  <2> QED
    BY <2>1, FS_Singleton, FS_AddElement
<1>2. IsFiniteSet(Fds \X Events)
  BY <1>1, IOAssumption, FS_Product
<1>3. IsFiniteSet(RegisteredEvents)
  BY <1>2, FS_Subset DEF RegisteredEvents
<1> QED
  BY <1>1, <1>3, FS_CardinalityType

\* addEvent: one more
LEMMA CountAdded ==
  ASSUME TableInv, NEW fd \in Fds, NEW ev \in Events \ events[fd],
         events' = [events EXCEPT ![fd] = @ \cup {ev}]
  PROVE  Cardinality(RegisteredEvents)' = Cardinality(RegisteredEvents) + 1
<1>1. RegisteredEvents' = RegisteredEvents \cup {<<fd, ev>>} /\ <<fd, ev>> \notin RegisteredEvents
  BY DEF TableInv, RegisteredEvents
<1> QED
  BY <1>1, EventsFinite, FS_AddElement

\* delEvent and triggerEvent: fewer by as many as are taken out
LEMMA CountRemoved ==
  ASSUME TableInv, NEW fd \in Fds, NEW evs \in SUBSET events[fd],
         events' = [events EXCEPT ![fd] = @ \ evs]
  PROVE  /\ Cardinality(RegisteredEvents)' = Cardinality(RegisteredEvents) - Cardinality(evs)
         /\ Cardinality(RegisteredEvents)' \in Nat
<1> DEFINE T == {fd} \X evs
<1>1. RegisteredEvents' = RegisteredEvents \ T /\ RegisteredEvents \cap T = T
  BY DEF TableInv, RegisteredEvents
<1>2. evs \in SUBSET Events
  BY DEF TableInv
<1>3. IsFiniteSet(evs) /\ Cardinality(evs) \in Nat
  BY <1>2, EventsFinite, FS_Subset, FS_CardinalityType
<1>4. Cardinality(T) = Cardinality(evs)
  <2>1. IsFiniteSet({fd}) /\ Cardinality({fd}) = 1
    BY FS_Singleton
  <2>2. Cardinality(T) = Cardinality({fd}) * Cardinality(evs)
    BY <1>3, <2>1, FS_Product
  <2> HIDE DEF T
  <2> QED
    BY <1>3, <2>1, <2>2
<1> HIDE DEF T
<1>5. /\ Cardinality(RegisteredEvents \ T) = Cardinality(RegisteredEvents) - Cardinality(T)
      /\ Cardinality(RegisteredEvents \ T) \in Nat
  BY <1>1, EventsFinite, FS_Difference, FS_CardinalityType
<1> QED
  BY <1>1, <1>4, <1>5

-----------------------------------------------------------------------------
(* What the operations do to the table.                                     *)

\* Taking events out of the table together with their waiters, whether these
\* are scheduled or deleted, leaves the rest as it was
LEMMA TakeOut ==
  ASSUME TableInv, Running, NEW fd \in Fds, NEW evs \in SUBSET events[fd],
         NEW s \in {"scheduled", "deleted"},
         events' = [events EXCEPT ![fd] = @ \ evs],
         Clear(fd, evs), Pending(Cardinality(evs)), fault' = fault,
         status' = [w \in Waiters |-> IF w \in WaitersOf(fd, evs) THEN s ELSE status[w]]
  PROVE  TableInv'
<1> USE IOAssumption DEF TableInv, Running, Clear, Pending, WaitersOf
<1>1. events' \in [Fds -> SUBSET Events]
  OBVIOUS
<1>2. context' \in [Fds -> [Events -> Waiters \cup {NoWaiter}]]
  OBVIOUS
<1>3. m_pendingEventCount' \in Nat /\ PendingExact'
  <2>1. /\ Cardinality(RegisteredEvents)' = Cardinality(RegisteredEvents) - Cardinality(evs)
        /\ Cardinality(RegisteredEvents)' \in Nat
    BY CountRemoved
  <2> QED
    BY <2>1 DEF PendingExact
<1>4. status' \in [Waiters -> {"new", "waiting", "scheduled", "deleted"}]
  OBVIOUS
<1>5. \A gd \in Fds, dv \in Events :
        context'[gd][dv] = IF gd = fd /\ dv \in evs THEN NoWaiter ELSE context[gd][dv]
  OBVIOUS
<1>6. ContextsFilled'
  BY <1>5 DEF ContextsFilled
<1>7. WaitersPlaced'
  BY <1>5 DEF WaitersPlaced, PlacesApart
<1>8. PlacesApart'
  BY <1>5 DEF PlacesApart
<1> QED
  BY <1>1, <1>2, <1>3, <1>4, <1>6, <1>7, <1>8

\* triggerEvent for each of evs, its assertion included
LEMMA TriggerTable ==
  ASSUME TableInv, Running, NEW fd \in Fds, NEW evs, Trigger(fd, evs)
  PROVE  TableInv'
<1>1. CASE evs \subseteq events[fd]
  BY <1>1, TakeOut DEF Trigger
<1>2. CASE ~(evs \subseteq events[fd])
  BY <1>2 DEF Trigger, TableInv, Running, PendingExact, RegisteredEvents
<1> QED
  BY <1>1, <1>2

\* addEvent puts a new waiter into an empty context: the assertion on the
\* context cannot fail
LEMMA AddTable ==
  ASSUME TableInv, NEW fd \in Fds, NEW ev \in Events, NEW w \in Waiters, AddEvent(fd, ev, w)
  PROVE  TableInv' /\ Running'
<1> USE IOAssumption DEF TableInv, Running
<1>1. context[fd][ev] = NoWaiter
  BY DEF AddEvent, ContextsFilled
<1>2. /\ context' = [context EXCEPT ![fd][ev] = w]
      /\ status' = [status EXCEPT ![w] = "waiting"] /\ fault' = "none"
      /\ status[w] = "new"
      /\ events' = [events EXCEPT ![fd] = @ \cup {ev}]
      /\ m_pendingEventCount' = m_pendingEventCount + 1
      /\ ev \notin events[fd]
  BY <1>1 DEF AddEvent
<1>3. events' \in [Fds -> SUBSET Events]
  BY <1>2
<1>4. context' \in [Fds -> [Events -> Waiters \cup {NoWaiter}]]
  BY <1>2
<1>5. m_pendingEventCount' \in Nat /\ PendingExact'
  <2>1. Cardinality(RegisteredEvents)' = Cardinality(RegisteredEvents) + 1
    BY <1>2, CountAdded
  <2> QED
    BY <1>2, <2>1 DEF PendingExact
<1>6. \A gd \in Fds, dv \in Events :
        context'[gd][dv] = IF gd = fd /\ dv = ev THEN w ELSE context[gd][dv]
  BY <1>2
<1>7. \A gd \in Fds, dv \in Events : context[gd][dv] # w
  BY <1>2 DEF WaitersPlaced, AddEvent
<1>8. ContextsFilled'
  BY <1>2, <1>6 DEF ContextsFilled, AddEvent
<1>9. WaitersPlaced'
  BY <1>2, <1>6, <1>1 DEF WaitersPlaced, AddEvent
<1>10. PlacesApart'
  BY <1>6, <1>7 DEF PlacesApart, AddEvent
<1> QED
  BY <1>2, <1>3, <1>4, <1>5, <1>8, <1>9, <1>10

-----------------------------------------------------------------------------
(* The steps.                                                               *)

KernelTypeOK ==
  /\ open \in SUBSET Fds /\ hup \in SUBSET Fds /\ readyList \in SUBSET Fds
  /\ ready \in [Fds -> SUBSET Events] /\ interest \in [Fds -> SUBSET Events]

FetchedTypeOK == fetched \in [Pollers -> SUBSET [fd : Fds, evs : SUBSET (Events \cup {"HUP"})]]

LEMMA TypeParts == IOInv <=> TableInv /\ KernelTypeOK /\ FetchedTypeOK
  BY DEF IOInv, TypeOK, TableInv, KernelTypeOK, FetchedTypeOK

LEMMA CtlTypes ==
  ASSUME KernelTypeOK, NEW fd \in Fds, NEW mask \in SUBSET Events, Ctl(fd, mask)
  PROVE  KernelTypeOK'
  BY DEF KernelTypeOK, Ctl

\* The kernel and the users of descriptors leave the table alone
LEMMA EnvPreserves ==
  ASSUME IOInv, NEW fd \in Fds, EnvStep(fd)
  PROVE  IOInv'
<1>1. EnvFrame
  BY DEF EnvStep, Arrive, Consume, HangUp, Close, Reopen
<1>2. TableInv' /\ FetchedTypeOK'
  BY <1>1, TypeParts DEF EnvFrame, TableInv, FetchedTypeOK, Running, PendingExact,
       RegisteredEvents, ContextsFilled, WaitersPlaced, PlacesApart
<1>3. KernelTypeOK'
  BY TypeParts DEF EnvStep, Arrive, Consume, HangUp, Close, Reopen, Wakes, KernelTypeOK
<1> QED
  BY <1>2, <1>3, TypeParts DEF IOInv, TypeOK, TableInv, KernelTypeOK, FetchedTypeOK

LEMMA UserPreserves ==
  ASSUME IOInv, NEW fd \in Fds, UserStep(fd)
  PROVE  IOInv'
<1>0. TableInv /\ KernelTypeOK /\ FetchedTypeOK
  BY TypeParts
<1>1. ASSUME NEW ev \in Events, NEW w \in Waiters, AddEvent(fd, ev, w)
      PROVE  TableInv' /\ KernelTypeOK' /\ FetchedTypeOK'
  <2>1. KernelTypeOK'
    BY <1>0, <1>1, CtlTypes DEF AddEvent, AddMask, TableInv
  <2> QED
    BY <1>0, <1>1, <2>1, AddTable DEF AddEvent, FetchedTypeOK
<1>2. ASSUME NEW ev \in Events, DelEvent(fd, ev)
      PROVE  TableInv' /\ KernelTypeOK' /\ FetchedTypeOK'
  <2>1. KernelTypeOK' /\ FetchedTypeOK'
    BY <1>0, <1>2, CtlTypes DEF DelEvent, TableInv, FetchedTypeOK
  <2>2. Cardinality({ev}) = 1 /\ WaitersOf(fd, {ev}) = {context[fd][ev]}
    BY FS_Singleton DEF WaitersOf
  <2>3. TableInv'
    BY <1>0, <1>2, <2>2, TakeOut DEF DelEvent
  <2> QED
    BY <2>1, <2>3
<1>3. ASSUME NEW ev \in Events, CancelEvent(fd, ev)
      PROVE  TableInv' /\ KernelTypeOK' /\ FetchedTypeOK'
  BY <1>0, <1>3, CtlTypes, TriggerTable DEF CancelEvent, TableInv, FetchedTypeOK
<1>4. ASSUME CancelAll(fd)
      PROVE  TableInv' /\ KernelTypeOK' /\ FetchedTypeOK'
  BY <1>0, <1>4, CtlTypes, TriggerTable DEF CancelAll, TableInv, FetchedTypeOK
<1>5. TableInv' /\ KernelTypeOK' /\ FetchedTypeOK'
  BY <1>1, <1>2, <1>3, <1>4 DEF UserStep
<1> QED
  BY <1>5 DEF IOInv, TypeOK, TableInv, KernelTypeOK, FetchedTypeOK

\* A fetch and the dispatch of what an earlier fetch brought
LEMMA PollerPreserves ==
  ASSUME IOInv, NEW p \in Pollers, Fetch(p) \/ Dispatch(p)
  PROVE  IOInv'
<1>0. TableInv /\ KernelTypeOK /\ FetchedTypeOK
  BY TypeParts
<1>1. CASE Fetch(p)
  <2>1. TableInv' /\ KernelTypeOK'
    BY <1>0, <1>1 DEF Fetch, TableInv, KernelTypeOK, Running, PendingExact,
         RegisteredEvents, ContextsFilled, WaitersPlaced, PlacesApart
  <2>2. \A fd \in readyList : Reported(fd) \in [fd : Fds, evs : SUBSET (Events \cup {"HUP"})]
    BY <1>0 DEF Reported, KernelTypeOK
  <2>3. FetchedTypeOK'
    BY <1>0, <1>1, <2>2 DEF Fetch, FetchedTypeOK
  <2> QED
    BY <2>1, <2>3 DEF IOInv, TypeOK, TableInv, KernelTypeOK, FetchedTypeOK
<1>2. CASE Dispatch(p)
  <2>1. PICK r \in fetched[p] :
          /\ fetched' = [fetched EXCEPT ![p] = @ \ {r}]
          /\ \/ Ctl(r.fd, LeftEvents(r.fd, r)) /\ Trigger(r.fd, RealEvents(r))
             \/ UNCHANGED <<events, context, m_pendingEventCount, status, fault, kernelVars>>
    BY <1>2 DEF Dispatch
  <2>2. r.fd \in Fds /\ LeftEvents(r.fd, r) \in SUBSET Events
    BY <1>0 DEF FetchedTypeOK, LeftEvents, TableInv
  <2>3. FetchedTypeOK'
    BY <1>0, <2>1 DEF FetchedTypeOK
  <2>4. CASE Ctl(r.fd, LeftEvents(r.fd, r)) /\ Trigger(r.fd, RealEvents(r))
    <3>1. TableInv' /\ KernelTypeOK'
      BY <1>0, <1>2, <2>2, <2>4, CtlTypes, TriggerTable DEF Dispatch
    <3> QED
      BY <2>3, <3>1 DEF IOInv, TypeOK, TableInv, KernelTypeOK, FetchedTypeOK
  <2>5. CASE UNCHANGED <<events, context, m_pendingEventCount, status, fault, kernelVars>>
    <3>1. TableInv' /\ KernelTypeOK'
      BY <1>0, <2>5 DEF kernelVars, TableInv, KernelTypeOK, Running, PendingExact,
           RegisteredEvents, ContextsFilled, WaitersPlaced, PlacesApart
    <3> QED
      BY <2>3, <3>1 DEF IOInv, TypeOK, TableInv, KernelTypeOK, FetchedTypeOK
  <2> QED
    BY <2>1, <2>4, <2>5
<1> QED
  BY <1>1, <1>2

LEMMA IOInit == Init => IOInv
<1> SUFFICES ASSUME Init PROVE IOInv
  OBVIOUS
<1>1. RegisteredEvents = {} /\ PendingExact
  BY FS_EmptySet DEF Init, RegisteredEvents, PendingExact
<1>2. ContextsFilled /\ WaitersPlaced /\ PlacesApart
  BY IOAssumption DEF Init, EmptyContext, ContextsFilled, WaitersPlaced, PlacesApart
<1> QED
  BY <1>1, <1>2 DEF Init, EmptyContext, IOInv, TypeOK, TableInv

LEMMA IONext == IOInv /\ [Next]_vars => IOInv'
<1> SUFFICES ASSUME IOInv, [Next]_vars PROVE IOInv'
  OBVIOUS
<1>1. CASE Next
  BY <1>1, EnvPreserves, UserPreserves, PollerPreserves DEF Next
<1>2. CASE UNCHANGED vars
  BY <1>2 DEF vars, IOInv, TypeOK, TableInv, Running, PendingExact, RegisteredEvents,
       ContextsFilled, WaitersPlaced, PlacesApart
<1> QED
  BY <1>1, <1>2

-----------------------------------------------------------------------------
(* The theorems.                                                            *)

\* The inductive invariant holds, for every set of descriptors, waiters and
\* pollers, with or without hang-ups and careless closes.
THEOREM IOInvariance == Spec => []IOInv
  BY IOInit, IONext, PTL DEF Spec

\* Every variable keeps its type; the count, an unsigned atomic, never drops
\* below zero.
THEOREM IOTypeCorrect == Spec => []TypeOK
<1>1. IOInv => TypeOK
  BY DEF IOInv
<1> QED
  BY <1>1, IOInvariance, PTL

\* The count by which stopping() knows of events is always exact.
THEOREM CountIsExact == Spec => []PendingExact
<1>1. IOInv => PendingExact
  BY DEF IOInv, TableInv
<1> QED
  BY <1>1, IOInvariance, PTL

\* The inductive form implies the one with cardinalities
LEMMA PlacesCounted == IOInv => WaitersConserved
<1> SUFFICES ASSUME IOInv, Running
             PROVE  /\ \A w \in Waiters :
                         Cardinality({x \in Fds \X Events : context[x[1]][x[2]] = w}) =
                           IF status[w] = "waiting" THEN 1 ELSE 0
                    /\ ContextsFilled
  BY DEF WaitersConserved, ContextsFilled
<1>1. ContextsFilled /\ WaitersPlaced /\ PlacesApart
  BY DEF IOInv, TableInv
<1>2. ASSUME NEW w \in Waiters
      PROVE  Cardinality({x \in Fds \X Events : context[x[1]][x[2]] = w}) =
               IF status[w] = "waiting" THEN 1 ELSE 0
  <2> DEFINE P == {x \in Fds \X Events : context[x[1]][x[2]] = w}
  <2>1. CASE status[w] = "waiting"
    <3>1. PICK fd \in Fds, ev \in Events : context[fd][ev] = w
      BY <1>1, <2>1 DEF WaitersPlaced
    <3>2. P = {<<fd, ev>>}
      BY <1>1, <3>1, IOAssumption DEF PlacesApart
    <3> QED
      BY <2>1, <3>2, FS_Singleton
  <2>2. CASE status[w] # "waiting"
    <3>1. P = {}
      BY <1>1, <2>2 DEF WaitersPlaced
    <3> QED
      BY <2>2, <3>1, FS_EmptySet
  <2> QED
    BY <2>1, <2>2
<1> QED
  BY <1>1, <1>2

\* No waiter is scheduled twice, forgotten or left behind in a context,
\* whatever adds, deletes, cancels, closes and dispatches interleave.
THEOREM NoWaiterLost == Spec => []WaitersConserved
  BY PlacesCounted, IOInvariance, PTL

\* addEvent's assertion that the context is empty never fails.
THEOREM ContextNeverBusy == Spec => [](fault # "context")
<1>1. Init => fault # "context"
  BY DEF Init
<1>2. IOInv /\ fault # "context" /\ [Next]_vars => (fault # "context")'
  <2> SUFFICES ASSUME IOInv, fault # "context", [Next]_vars PROVE fault' # "context"
    OBVIOUS
  <2>1. ASSUME NEW fd \in Fds, NEW ev \in Events, NEW w \in Waiters, AddEvent(fd, ev, w)
        PROVE  fault' # "context"
    BY <2>1, AddTable DEF IOInv, Running
  <2>2. ASSUME NEW fd \in Fds, EnvStep(fd) PROVE fault' # "context"
    BY <2>2 DEF EnvStep, Arrive, Consume, HangUp, Close, Reopen, EnvFrame
  <2> QED
    BY <2>1, <2>2 DEF Next, UserStep, DelEvent, CancelEvent, CancelAll, Fetch, Dispatch,
         Trigger, vars
<1> QED
  BY <1>1, <1>2, IOInvariance, PTL DEF Spec

\* One step keeps what epoll watches and what is registered in step
LEMMA InterestStep ==
  ASSUME CleanClose, IOInv, InterestMatches, Next
  PROVE  InterestMatches'
<1> USE DEF InterestMatches, Running
<1>0. /\ events \in [Fds -> SUBSET Events] /\ interest \in [Fds -> SUBSET Events]
      /\ FetchedTypeOK
  BY DEF IOInv, TypeOK, FetchedTypeOK
<1>1. ASSUME NEW fd \in Fds, EnvStep(fd) PROVE InterestMatches'
  BY <1>0, <1>1 DEF EnvStep, Arrive, Consume, HangUp, Close, Reopen, EnvFrame
<1>2. ASSUME NEW fd \in Fds, UserStep(fd) PROVE InterestMatches'
  <2>1. ASSUME NEW ev \in Events, NEW w \in Waiters, AddEvent(fd, ev, w) PROVE InterestMatches'
    BY <1>0, <2>1 DEF AddEvent, AddMask, Ctl
  <2>2. ASSUME NEW ev \in Events, DelEvent(fd, ev) PROVE InterestMatches'
    BY <1>0, <2>2 DEF DelEvent, Ctl
  <2>3. ASSUME NEW ev \in Events, CancelEvent(fd, ev) PROVE InterestMatches'
    BY <1>0, <2>3 DEF CancelEvent, Ctl, Trigger
  <2>4. CASE CancelAll(fd)
    BY <1>0, <2>4 DEF CancelAll, Ctl, Trigger
  <2> QED
    BY <1>2, <2>1, <2>2, <2>3, <2>4 DEF UserStep
<1>3. ASSUME NEW p \in Pollers, Fetch(p) PROVE InterestMatches'
  BY <1>3 DEF Fetch
<1>4. ASSUME NEW p \in Pollers, Dispatch(p) PROVE InterestMatches'
  <2>1. PICK r \in fetched[p] :
          \/ Ctl(r.fd, LeftEvents(r.fd, r)) /\ Trigger(r.fd, RealEvents(r))
          \/ UNCHANGED <<events, context, m_pendingEventCount, status, fault, kernelVars>>
    BY <1>4 DEF Dispatch
  <2>2. r.fd \in Fds
    BY <1>0, <1>4 DEF FetchedTypeOK
  <2> QED
    BY <1>0, <1>4, <2>1, <2>2, ZenonT(60) DEF Dispatch, Ctl, Trigger, LeftEvents, kernelVars
<1> QED
  BY <1>1, <1>2, <1>3, <1>4 DEF Next

\* As long as users close descriptors without registered events only, epoll
\* watches exactly what is registered, and every choice between ADD, MOD and
\* DEL is right.
THEOREM EpollInStep == CleanClose => (Spec => []InterestMatches)
<1> SUFFICES ASSUME CleanClose PROVE Spec => []InterestMatches
  OBVIOUS
<1>1. Init => InterestMatches
  BY DEF Init, InterestMatches
<1>2. IOInv /\ InterestMatches /\ [Next]_vars => InterestMatches'
  BY InterestStep DEF vars, InterestMatches, Running
<1> QED
  BY <1>1, <1>2, IOInvariance, PTL DEF Spec
=============================================================================
