------------------------------ MODULE IOManager ------------------------------
(***************************************************************************)
(* The event half of hps_IOManager (iomanager.h, iomanager.cpp): the table *)
(* of hps_FdContext, addEvent / delEvent / cancelEvent / cancelAll, and    *)
(* the part of idle() that fetches events with epoll_wait and dispatches   *)
(* them.  Every operation on an fd holds the fd's mutex from its first     *)
(* look at the context to its end, so each is one step; a batch returned   *)
(* by epoll_wait is dispatched one fd at a time, and anything can happen   *)
(* to an fd between the fetch and its turn.                                *)
(*                                                                         *)
(* The kernel's epoll instance is external and modelled from its use here: *)
(* edge triggered, armed again by ADD and MOD, emptied by close().         *)
(***************************************************************************)
EXTENDS Integers, FiniteSets

CONSTANTS
  Fds,        \* below 32, the initial size of m_fdContexts
  Waiters,    \* what is to be scheduled: callbacks or fibers, each used once
  NoWaiter,   \* an empty hps_EventContext
  Pollers,    \* threads in idle()
  WithHup,    \* TRUE: a peer may hang up (EPOLLHUP)
  CleanClose  \* TRUE: users close an fd only when it has no events left

ASSUME IOAssumption ==
  /\ IsFiniteSet(Fds) /\ IsFiniteSet(Waiters) /\ NoWaiter \notin Waiters
  /\ WithHup \in BOOLEAN /\ CleanClose \in BOOLEAN

Events == {"READ", "WRITE"}

VARIABLES
  events,               \* hps_FdContext::events
  context,              \* hps_FdContext::read and ::write
  m_pendingEventCount,
  fetched,              \* of a poller: the epoll_events not yet dispatched
  status,               \* of a waiter: "new", "waiting", "scheduled", "deleted"
  fault,                \* the assertion that failed, or "none"
  open, ready, hup,     \* the fds: open, what would not block, hung up
  interest,             \* epoll: the events asked for, {} if not registered
  readyList             \* epoll: fds with something new to report

vars == <<events, context, m_pendingEventCount, fetched, status, fault, open,
          ready, hup, interest, readyList>>

kernelVars == <<open, ready, hup, interest, readyList>>

\* The one type invariant of the module.
TypeOK ==
  /\ events \in [Fds -> SUBSET Events]
  /\ context \in [Fds -> [Events -> Waiters \cup {NoWaiter}]]
  /\ m_pendingEventCount \in Nat
  /\ fetched \in [Pollers -> SUBSET [fd : Fds, evs : SUBSET (Events \cup {"HUP"})]]
  /\ status \in [Waiters -> {"new", "waiting", "scheduled", "deleted"}]
  /\ fault \in {"none", "trigger", "context"}
  /\ open \in SUBSET Fds /\ hup \in SUBSET Fds /\ readyList \in SUBSET Fds
  /\ ready \in [Fds -> SUBSET Events] /\ interest \in [Fds -> SUBSET Events]

\* hps_FdContext as constructed: two empty hps_EventContexts
EmptyContext == [ev \in Events |-> NoWaiter]

\* contextResize(): a context for every fd of the table
Init ==
  /\ events = [fd \in Fds |-> {}]
  /\ context = [fd \in Fds |-> EmptyContext]
  /\ m_pendingEventCount = 0
  /\ fetched = [p \in Pollers |-> {}]
  /\ status = [w \in Waiters |-> "new"]
  /\ fault = "none"
  /\ open = Fds /\ hup = {} /\ readyList = {}
  /\ ready = [fd \in Fds |-> {}] /\ interest = [fd \in Fds |-> {}]

Running == fault = "none"

-----------------------------------------------------------------------------
(* The kernel.                                                              *)

\* epoll_ctl fails on a closed fd, on an ADD of a registered one and on a MOD
\* or DEL of another; add tells which of them the code chose
CtlWorks(fd, add) == fd \in open /\ (add <=> interest[fd] = {})

\* epoll_ctl: MOD and ADD look at the fd anew
Ctl(fd, mask) ==
  /\ interest' = [interest EXCEPT ![fd] = mask]
  /\ readyList' = IF mask = {} THEN readyList \ {fd}
                  ELSE IF mask \cap ready[fd] # {} \/ fd \in hup
                         THEN readyList \cup {fd} ELSE readyList
  /\ UNCHANGED <<open, ready, hup>>

Wakes(fd, cond) == IF cond THEN readyList \cup {fd} ELSE readyList

EnvFrame == UNCHANGED <<events, context, m_pendingEventCount, fetched, status, fault>>

\* Data or buffer space arrives
Arrive(fd, ev) ==
  /\ Running /\ fd \in open /\ ev \notin ready[fd]
  /\ ready' = [ready EXCEPT ![fd] = @ \cup {ev}]
  /\ readyList' = Wakes(fd, ev \in interest[fd])
  /\ EnvFrame /\ UNCHANGED <<open, hup, interest>>

\* A user reads or writes until the call would block
Consume(fd, ev) ==
  /\ Running /\ ev \in ready[fd]
  /\ ready' = [ready EXCEPT ![fd] = @ \ {ev}]
  /\ EnvFrame /\ UNCHANGED <<open, hup, interest, readyList>>

HangUp(fd) ==
  /\ Running /\ WithHup /\ fd \in open \ hup
  /\ hup' = hup \cup {fd}
  /\ readyList' = Wakes(fd, interest[fd] # {})
  /\ EnvFrame /\ UNCHANGED <<open, ready, interest>>

Close(fd) ==
  /\ Running /\ fd \in open
  /\ CleanClose => events[fd] = {}
  /\ open' = open \ {fd} /\ hup' = hup \ {fd} /\ readyList' = readyList \ {fd}
  /\ ready' = [ready EXCEPT ![fd] = {}]
  /\ interest' = [interest EXCEPT ![fd] = {}]
  /\ EnvFrame

\* The number is used for a new descriptor
Reopen(fd) ==
  /\ Running /\ fd \notin open
  /\ open' = open \cup {fd}
  /\ EnvFrame /\ UNCHANGED <<ready, hup, interest, readyList>>

-----------------------------------------------------------------------------
(* Users.                                                                   *)

\* Mutants of Pending: one decrement per call; one in triggerEvent as well
PendingOnce(n)  == m_pendingEventCount' = m_pendingEventCount - 1
PendingTwice(n) == m_pendingEventCount' = m_pendingEventCount - 2 * n

\* m_pendingEventCount -- for each of n events
Pending(n) == m_pendingEventCount' = m_pendingEventCount - n

\* Mutant of Clear: the contexts stay filled
ClearNot(fd, evs) == context' = context

\* The contexts of the events evs of fd are empty again: after triggerEvent,
\* which swaps cb or fiber into the scheduler, and after resetContext
Clear(fd, evs) ==
  context' = [context EXCEPT ![fd] = [ev \in Events |-> IF ev \in evs THEN NoWaiter ELSE @[ev]]]

WaitersOf(fd, evs) == {context[fd][ev] : ev \in evs}

\* triggerEvent for each of evs: all must be registered (HPS_ASSERT)
Trigger(fd, evs) ==
  IF evs \subseteq events[fd]
    THEN /\ events' = [events EXCEPT ![fd] = @ \ evs]
         /\ Clear(fd, evs)
         /\ status' = [w \in Waiters |-> IF w \in WaitersOf(fd, evs) THEN "scheduled" ELSE status[w]]
         /\ Pending(Cardinality(evs))
         /\ fault' = fault
    ELSE fault' = "trigger" /\ UNCHANGED <<events, context, status, m_pendingEventCount>>

\* Mutant of AddMask: the events already registered are forgotten
AddMaskNew(fd, ev) == {ev}

AddMask(fd, ev) == events[fd] \cup {ev}

\* addEvent, of an event that is not registered yet (anything else aborts).
\* When epoll_ctl fails it returns -1 and changes nothing.
AddEvent(fd, ev, w) ==
  /\ Running /\ status[w] = "new" /\ ev \notin events[fd]
  /\ CtlWorks(fd, events[fd] = {})
  /\ Ctl(fd, AddMask(fd, ev))
  /\ events' = [events EXCEPT ![fd] = @ \cup {ev}]
  /\ m_pendingEventCount' = m_pendingEventCount + 1
  /\ IF context[fd][ev] = NoWaiter
       THEN /\ context' = [context EXCEPT ![fd][ev] = w]
            /\ status' = [status EXCEPT ![w] = "waiting"]
            /\ fault' = fault
       ELSE fault' = "context" /\ UNCHANGED <<context, status>>
  /\ UNCHANGED fetched

\* delEvent: the waiter is dropped without being scheduled
DelEvent(fd, ev) ==
  /\ Running /\ ev \in events[fd]
  /\ CtlWorks(fd, FALSE)
  /\ Ctl(fd, events[fd] \ {ev})
  /\ events' = [events EXCEPT ![fd] = @ \ {ev}]
  /\ Pending(1)
  /\ Clear(fd, {ev})
  /\ status' = [w \in Waiters |-> IF w = context[fd][ev] THEN "deleted" ELSE status[w]]
  /\ UNCHANGED <<fetched, fault>>

\* cancelEvent: the waiter is scheduled now
CancelEvent(fd, ev) ==
  /\ Running /\ ev \in events[fd]
  /\ CtlWorks(fd, FALSE)
  /\ Ctl(fd, events[fd] \ {ev})
  /\ Trigger(fd, {ev})
  /\ UNCHANGED fetched

CancelAll(fd) ==
  /\ Running /\ events[fd] # {}
  /\ CtlWorks(fd, FALSE)
  /\ Ctl(fd, {})
  /\ Trigger(fd, events[fd])
  /\ UNCHANGED fetched

-----------------------------------------------------------------------------
(* idle().                                                                  *)

Reported(fd) == [fd |-> fd, evs |-> (ready[fd] \cap interest[fd])
                                    \cup (IF fd \in hup THEN {"HUP"} ELSE {})]

\* epoll_wait returns what is new, once (EPOLLET)
Fetch(p) ==
  /\ Running /\ fetched[p] = {} /\ readyList # {}
  /\ fetched' = [fetched EXCEPT ![p] = {r \in {Reported(fd) : fd \in readyList} : r.evs # {}}]
  /\ readyList' = {}
  /\ UNCHANGED <<events, context, m_pendingEventCount, status, fault, open,
                 ready, hup, interest>>

\* An error or hang-up counts as both events
RealEvents(r) == IF "HUP" \in r.evs THEN Events ELSE r.evs

\* Mutant of LeftEvents: what was not delivered is no longer watched
LeftEventsNone(fd, r) == {}

LeftEvents(fd, r) == events[fd] \ RealEvents(r)

\* One turn of the loop over the fetched events.  The events triggered are
\* the reported ones, not those of them that are still registered.
Dispatch(p) ==
  /\ Running
  /\ \E r \in fetched[p] :
       /\ fetched' = [fetched EXCEPT ![p] = @ \ {r}]
       /\ IF RealEvents(r) \cap events[r.fd] # {} /\ CtlWorks(r.fd, FALSE)
            THEN Ctl(r.fd, LeftEvents(r.fd, r)) /\ Trigger(r.fd, RealEvents(r))
            ELSE UNCHANGED <<events, context, m_pendingEventCount, status, fault,
                             kernelVars>>

-----------------------------------------------------------------------------
EnvStep(fd) ==
  \/ \E ev \in Events : Arrive(fd, ev) \/ Consume(fd, ev)
  \/ HangUp(fd) \/ Close(fd) \/ Reopen(fd)

UserStep(fd) ==
  \/ \E ev \in Events, w \in Waiters : AddEvent(fd, ev, w)
  \/ \E ev \in Events : DelEvent(fd, ev) \/ CancelEvent(fd, ev)
  \/ CancelAll(fd)

Next ==
  \/ \E fd \in Fds : EnvStep(fd) \/ UserStep(fd)
  \/ \E p \in Pollers : Fetch(p) \/ Dispatch(p)

\* Every thread in idle() keeps polling: epoll_wait is called with timeout 0
Fairness == \A p \in Pollers : WF_vars(Fetch(p)) /\ WF_vars(Dispatch(p))

Spec == Init /\ [][Next]_vars /\ Fairness

-----------------------------------------------------------------------------
(* Properties.                                                              *)

RegisteredEvents == {x \in Fds \X Events : x[2] \in events[x[1]]}

\* m_pendingEventCount, which keeps the manager from stopping, is the number
\* of registered events over all descriptors.
PendingExact == m_pendingEventCount = Cardinality(RegisteredEvents)

\* A waiter that has been neither scheduled nor deleted is in the context of
\* exactly one registered event; contexts of other events are empty, which
\* addEvent asserts.  So none is scheduled twice or forgotten.
WaitersConserved ==
  Running =>
    /\ \A w \in Waiters :
         Cardinality({x \in Fds \X Events : context[x[1]][x[2]] = w}) =
           IF status[w] = "waiting" THEN 1 ELSE 0
    /\ \A fd \in Fds, ev \in Events : ev \in events[fd] <=> context[fd][ev] # NoWaiter

\* What epoll watches on an fd is what is registered there, so the choice
\* between ADD, MOD and DEL, made from events alone, is always right.
InterestMatches == Running => \A fd \in Fds : interest[fd] = events[fd]

\* triggerEvent is called for registered events only (its assertion).
TriggerOnlyRegistered == fault # "trigger"

\* An event that is registered and stays ready is delivered: no edge is lost
\* between ADD, MOD, the fetch of one thread and the dispatch of another.
ReadyDelivered ==
  \A fd \in Fds, ev \in Events :
    (ev \in events[fd] /\ ev \in ready[fd] /\ Running)
      ~> (ev \notin events[fd] \/ ev \notin ready[fd] \/ ~Running)
=============================================================================
