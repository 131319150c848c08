---------------------------- MODULE TimerManager ----------------------------
(***************************************************************************)
(* hps_Timer and hps_TimerManager (timer.h, timer.cpp): the ordered set of *)
(* timers, the operations of their users and the loop of the threads that  *)
(* collect expired callbacks.                                              *)
(*                                                                         *)
(* m_timers is a std::set whose comparator is not an order: because of the *)
(* second comparison of Comparator (rhs with rhs) two timers may each      *)
(* precede the other.  The set is modelled by its in-order sequence.  Where*)
(* an insertion lands, and whether find() sees an element, then depends on *)
(* the shape of the tree; the model allows every outcome some shape gives  *)
(* (exact for up to three timers).                                         *)
(***************************************************************************)
EXTENDS Integers, FiniteSets, Sequences, SequencesExt

CONSTANTS
  Timers,     \* timers ever created; the number is the timer's address
  Pollers,    \* threads in hps_IOManager::idle()
  Intervals,  \* intervals users ask for, in ms
  MaxTime,    \* bound: the clock stops here
  MaxSkip     \* the clock advances by up to this much between two reads

ASSUME TimerAssumption ==
  /\ Timers \subseteq Nat /\ IsFiniteSet(Timers)
  /\ Intervals \subseteq Nat
  /\ MaxTime \in Nat /\ MaxSkip \in Nat \ {0}

VARIABLES
  now,          \* GetCurrentMS()
  m_timers,     \* in-order sequence of the set, under m_mutex
  m_next, m_ms, m_recurring,
  m_cb,         \* TRUE while the timer's callback is set
  m_tickled,
  signal,       \* onTimerInsertedAtFront() was called, no poller woke up yet
  life,         \* of a timer: "none", "made" (constructed), "added", "cancelled"
  pc, now_ms,   \* of a poller
  handed,       \* how often a timer's callback was put into cbs
  fault         \* "eraseEnd": erase(end()), undefined behaviour

vars == <<now, m_timers, m_next, m_ms, m_recurring, m_cb, m_tickled, signal,
          life, pc, now_ms, handed, fault>>

\* The one type invariant of the module.
TypeOK ==
  /\ now \in 0 .. MaxTime
  /\ m_timers \in Seq(Timers)
  /\ m_next \in [Timers -> Nat] /\ m_ms \in [Timers -> Nat]
  /\ m_recurring \in [Timers -> BOOLEAN] /\ m_cb \in [Timers -> BOOLEAN]
  /\ m_tickled \in BOOLEAN /\ signal \in BOOLEAN
  /\ life \in [Timers -> {"none", "made", "added", "cancelled"}]
  /\ pc \in [Pollers -> {"loop", "wait", "awake", "collect"}]
  /\ now_ms \in [Pollers -> 0 .. MaxTime]
  /\ handed \in [Timers -> Nat]
  /\ fault \in {"none", "eraseEnd"}

Init ==
  /\ now = 0
  /\ m_timers = <<>>
  /\ m_next = [k \in Timers |-> 0] /\ m_ms = [k \in Timers |-> 0]
  /\ m_recurring = [k \in Timers |-> FALSE] /\ m_cb = [k \in Timers |-> FALSE]
  /\ m_tickled = FALSE /\ signal = FALSE
  /\ life = [k \in Timers |-> "none"]
  /\ pc = [p \in Pollers |-> "loop"] /\ now_ms = [p \in Pollers |-> 0]
  /\ handed = [k \in Timers |-> 0]
  /\ fault = "none"

-----------------------------------------------------------------------------
(* The set.                                                                 *)

\* Comparator, for two timers: the address decides unless lhs is earlier
Before(next, a, b) == next[a] < next[b] \/ a < b

\* Positions at which insert() may put k: its neighbours there agree
Positions(s, next, k) ==
  {p \in 1 .. Len(s) + 1 :
     /\ p > 1 => ~Before(next, k, s[p - 1])
     /\ p <= Len(s) => Before(next, k, s[p])}

\* The sequences insert() may leave
Inserted(s, next, k) == {InsertAt(s, p, k) : p \in Positions(s, next, k)}

\* The sequences of at most as many timers as there are
Orders == UNION {[1 .. n -> Timers] : n \in 0 .. Cardinality(Timers)}

\* The loop at the end of listExpiredCb(), turn by turn: c[i] is the set after
\* i of the expired timers, of which the recurring ones are inserted again
PutBack(rest, next, expired) ==
  {c \in [0 .. Len(expired) -> Orders] :
     /\ c[0] = rest
     /\ \A i \in 1 .. Len(expired) :
          IF m_recurring[expired[i]] THEN c[i] \in Inserted(c[i - 1], next, expired[i])
                                     ELSE c[i] = c[i - 1]}

\* find(k) descends from the root: it must miss k when the element before k
\* does not precede it, and may miss it when any element is on the wrong side
PositionOf(k) == CHOOSE i \in 1 .. Len(m_timers) : m_timers[i] = k

MayFind(k) ==
  /\ k \in Range(m_timers)
  /\ LET i == PositionOf(k) IN i > 1 => Before(m_next, m_timers[i - 1], k)

MayMiss(k) ==
  k \in Range(m_timers) =>
    \E i \in 1 .. Len(m_timers) :
      \/ i < PositionOf(k) /\ ~Before(m_next, m_timers[i], k)
      \/ i > PositionOf(k) /\ Before(m_next, m_timers[i], k)

-----------------------------------------------------------------------------
(* Users of timers.                                                         *)

Running == fault = "none"

UserFrame == UNCHANGED <<now, pc, now_ms, handed>>

\* Mutant of Deadline: the interval is taken off
DeadlineMinus(start, ms) == start - ms

Deadline(start, ms) == start + ms

\* hps_Timer(ms, cb, recurring): reads the clock before addTimer() locks
Construct(k, ms, recurring) ==
  /\ Running /\ life[k] = "none"
  /\ life' = [life EXCEPT ![k] = "made"]
  /\ m_ms' = [m_ms EXCEPT ![k] = ms]
  /\ m_next' = [m_next EXCEPT ![k] = Deadline(now, ms)]
  /\ m_recurring' = [m_recurring EXCEPT ![k] = recurring]
  /\ m_cb' = [m_cb EXCEPT ![k] = TRUE]
  /\ UserFrame /\ UNCHANGED <<m_timers, m_tickled, signal, fault>>

\* Mutant of NotifyFront: the flag is set without the call
NotifyFrontNot(k) ==
  /\ m_tickled' = (m_tickled \/ m_timers'[1] = k)
  /\ signal' = signal

\* addTimer(val, lock) after the insertion: the pollers are told once about a
\* new front, until the next getNextTimer()
NotifyFront(k) ==
  /\ m_tickled' = (m_tickled \/ m_timers'[1] = k)
  /\ signal' = (signal \/ (m_timers'[1] = k /\ ~m_tickled))

\* addTimer(ms, cb, recurring), the critical section
AddTimer(k) ==
  /\ Running /\ life[k] = "made"
  /\ m_timers' \in Inserted(m_timers, m_next, k)
  /\ NotifyFront(k)
  /\ life' = [life EXCEPT ![k] = "added"]
  /\ UserFrame /\ UNCHANGED <<m_next, m_ms, m_recurring, m_cb, fault>>

HasHandle(k) == life[k] \in {"added", "cancelled"}

\* erase() of what find(k) returned
Without(k) == RemoveAt(m_timers, PositionOf(k))

\* cancel(): the result of find() is erased unseen
Cancel(k) ==
  /\ Running /\ HasHandle(k) /\ m_cb[k]
  /\ m_cb' = [m_cb EXCEPT ![k] = FALSE]
  /\ life' = [life EXCEPT ![k] = "cancelled"]
  /\ \/ MayFind(k) /\ m_timers' = Without(k) /\ fault' = fault
     \/ MayMiss(k) /\ m_timers' = m_timers /\ fault' = "eraseEnd"
  /\ UserFrame /\ UNCHANGED <<m_next, m_ms, m_recurring, m_tickled, signal>>

\* refresh(): returns false, changing nothing, when find() misses
Refresh(k) ==
  /\ Running /\ HasHandle(k) /\ m_cb[k] /\ MayFind(k)
  /\ m_next' = [m_next EXCEPT ![k] = Deadline(now, m_ms[k])]
  /\ m_timers' \in Inserted(Without(k), m_next', k)
  /\ UserFrame
  /\ UNCHANGED <<m_ms, m_recurring, m_cb, m_tickled, signal, life, fault>>

\* reset(ms, from_now): m_ms is compared with ms before the lock is taken, so
\* the locked part may run with any ms; it ends in addTimer(val, lock)
Reset(k, ms, from_now) ==
  /\ Running /\ HasHandle(k) /\ m_cb[k] /\ MayFind(k)
  /\ m_ms' = [m_ms EXCEPT ![k] = ms]
  /\ m_next' = [m_next EXCEPT ![k] = Deadline(IF from_now THEN now ELSE @ - m_ms[k], ms)]
  /\ m_timers' \in Inserted(Without(k), m_next', k)
  /\ NotifyFront(k)
  /\ UserFrame /\ UNCHANGED <<m_recurring, m_cb, life, fault>>

-----------------------------------------------------------------------------
(* Pollers: the part of hps_IOManager::idle() that deals with timers.       *)

PollerFrame ==
  UNCHANGED <<now, m_ms, m_recurring, life, fault>>

\* getNextTimer(): clears m_tickled under the read lock
GetNextTimer(p) ==
  /\ Running /\ pc[p] = "loop"
  /\ m_tickled' = FALSE
  /\ pc' = [pc EXCEPT ![p] = "wait"]
  /\ PollerFrame
  /\ UNCHANGED <<m_timers, m_next, m_cb, signal, now_ms, handed>>

\* epoll_wait returns: for the tickle, an event or the timeout
Wake(p) ==
  /\ Running /\ pc[p] = "wait"
  /\ signal' = FALSE
  /\ pc' = [pc EXCEPT ![p] = "awake"]
  /\ PollerFrame
  /\ UNCHANGED <<m_timers, m_next, m_cb, m_tickled, now_ms, handed>>

\* listExpiredCb() reads the clock, and returns if it sees an empty set
ReadClock(p) ==
  /\ Running /\ pc[p] = "awake"
  /\ now_ms' = [now_ms EXCEPT ![p] = now]
  /\ pc' = [pc EXCEPT ![p] = IF m_timers = <<>> THEN "loop" ELSE "collect"]
  /\ PollerFrame
  /\ UNCHANGED <<m_timers, m_next, m_cb, m_tickled, signal, handed>>

\* Mutant of Expired: a timer that has not yet come due is taken too
ExpiredEarly(t) == {i \in 0 .. Len(m_timers) :
  /\ \A j \in 1 .. i : m_next[m_timers[j]] >= t
  /\ i < Len(m_timers) => m_next[m_timers[i + 1]] < t}

\* The end of the prefix of timers due at exactly t
Expired(t) == {i \in 0 .. Len(m_timers) :
  /\ \A j \in 1 .. i : m_next[m_timers[j]] = t
  /\ i < Len(m_timers) => m_next[m_timers[i + 1]] # t}

\* Mutant of KeepsCallback: a one-shot timer keeps its callback
KeepsCallbackAlways(k) == TRUE

KeepsCallback(k) == m_recurring[k]

\* listExpiredCb() under the write lock, with the time read before it: hands
\* out the callbacks, puts recurring timers back, empties the others
ListExpired(p) ==
  /\ Running /\ pc[p] = "collect"
  /\ \E i \in Expired(now_ms[p]) :
       LET expired == SubSeq(m_timers, 1, i)
           rest    == SubSeq(m_timers, i + 1, Len(m_timers))
       IN /\ handed' = [k \in Timers |->
                          IF k \in Range(expired) THEN handed[k] + 1 ELSE handed[k]]
          /\ m_next' = [k \in Timers |-> IF k \in Range(expired) /\ m_recurring[k]
                                           THEN Deadline(now_ms[p], m_ms[k]) ELSE m_next[k]]
          /\ m_cb' = [k \in Timers |-> IF k \in Range(expired)
                                         THEN m_cb[k] /\ KeepsCallback(k) ELSE m_cb[k]]
          /\ \E c \in PutBack(rest, m_next', expired) : m_timers' = c[i]
  /\ pc' = [pc EXCEPT ![p] = "loop"]
  /\ PollerFrame /\ UNCHANGED <<m_tickled, signal, now_ms>>

\* Time passes; between two reads of the clock a thread may lose more than 1 ms
Tick ==
  /\ Running
  /\ \E d \in 1 .. MaxSkip : now + d <= MaxTime /\ now' = now + d
  /\ UNCHANGED <<m_timers, m_next, m_ms, m_recurring, m_cb, m_tickled, signal,
                 life, pc, now_ms, handed, fault>>

Next ==
  \/ \E k \in Timers, ms \in Intervals, b \in BOOLEAN :
       Construct(k, ms, b) \/ Reset(k, ms, b)
  \/ \E k \in Timers : AddTimer(k) \/ Cancel(k) \/ Refresh(k)
  \/ \E p \in Pollers : GetNextTimer(p) \/ Wake(p) \/ ReadClock(p) \/ ListExpired(p)
  \/ Tick

Spec == Init /\ [][Next]_vars

-----------------------------------------------------------------------------
(* Properties.                                                              *)

\* cancel(), refresh(), reset() and listExpiredCb() keep the set and the
\* callbacks in step: an added timer is in the set, once, exactly while its
\* callback is set.  An empty callback handed to the scheduler would abort it.
SetMatchesCallbacks ==
  Running => \A k \in Timers :
    Cardinality({i \in 1 .. Len(m_timers) : m_timers[i] = k}) =
      IF m_cb[k] /\ life[k] # "made" THEN 1 ELSE 0

\* A callback is handed out only from a timer that is due by now, that has
\* not been cancelled, and, if one-shot, that was never handed out before:
\* whatever happened between the poller's clock read and its lock.
HandedOutProperly ==
  [][\A k \in Timers : handed'[k] > handed[k] =>
       /\ m_next[k] <= now
       /\ life[k] = "added"
       /\ handed'[k] = 1 \/ m_recurring[k]]_vars

\* While m_tickled suppresses further calls of onTimerInsertedAtFront(), one
\* is on its way or some poller is between waking up and its next
\* getNextTimer(): no new front goes unnoticed.
TickleNotLost ==
  m_tickled => signal \/ \E p \in Pollers : pc[p] # "wait"

\* idle() collects the timers that are due and schedules them: after
\* listExpiredCb() none of the timers left was due when it read the clock.
DueTimersCollected ==
  [][\A p \in Pollers : pc[p] = "collect" /\ pc'[p] = "loop" =>
       \A k \in Range(m_timers') : m_next'[k] > now_ms[p]]_vars
=============================================================================
