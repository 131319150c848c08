----------------------------- MODULE LogProofs -----------------------------
(***************************************************************************)
(* Proofs about loggers and appenders, for any number of threads, loggers, *)
(* appenders and formatters: no line is formatted through an empty         *)
(* pointer, no line goes to a stale file, no logger replaces a formatter   *)
(* that was given to the appender itself, but in the window between the    *)
(* two locks of addAppender(), and no list is changed under a loop.  Then  *)
(* a proof about the parser of patterns, for patterns of any length: it    *)
(* makes the items a pattern was written from.                             *)
(***************************************************************************)
EXTENDS Log, LogFormatter, SequenceTheorems, WellFoundedInduction, TLAPS

\* A thread has appenders left to visit exactly while it is in a loop over
\* them; addAppender() is about one
TodoInv ==
  \A t \in Threads :
    /\ todo[t] = <<>> <=> pc[t] \in {"out", "event"}
    /\ pc[t] \in {"give", "push"} => Len(todo[t]) = 1
    /\ pc[t] \in {"reopen", "stamp"} => Visited(t) \in Files

\* Unless users take formatters away, whatever is attached or about to be
\* visited has one, but for the appender that addAppender() has found without
FormatterInv ==
  \/ ClearInUse
  \/ /\ NeverUnformatted
     /\ \A l \in Loggers : \A i \in 1 .. Len(m_appenders[l]) :
          formatter[m_appenders[l][i]] # Null
     /\ \A t \in Threads : pc[t] # "give" =>
          \A i \in 1 .. Len(todo[t]) : formatter[todo[t][i]] # Null

\* m_hasFormatter tells which appenders were given a formatter; the one that
\* addAppender() has found without has none of its own, or got it since
OwnInv ==
  /\ \A a \in Appenders : own[a] # Null <=> m_hasFormatter[a]
  /\ \A t \in Threads : pc[t] = "give" =>
       own[Visited(t)] = Null \/ Visited(t) \in overtaken

\* Who holds which lock: outside, none; on the way to root, that of the logger
\* without appenders; in an operation of a logger, its lock, and in root's
\* log() at most one other, from which the event came
HolderInv ==
  \A t \in Threads :
    /\ pc[t] = "out" => \A l \in Loggers : holder[l] # t
    /\ pc[t] = "event" => holder[Root] # t
    /\ pc[t] \notin {"out", "event"} => holder[log[t]] = t
    /\ pc[t] \in {"spread", "give", "push"} => \A l \in Loggers : holder[l] = t => l = log[t]
    /\ \A k, l \in Loggers : holder[k] = t /\ holder[l] = t => k = l \/ Root \in {k, l}
    /\ \A l \in Loggers : holder[l] = t /\ pc[t] # "event" => l = log[t] \/ log[t] = Root

\* The clock readings in use: a file is never older than the second noted for
\* it, nor than the one its writer has read once it has dealt with the file
ClockInv ==
  /\ \A a \in Files : m_latsTime[a] <= since[a] /\ since[a] <= now
  /\ \A t \in Threads : read[t] <= now
  /\ \A t \in Threads : pc[t] \in {"stamp", "write"} /\ Visited(t) \in Files =>
       since[Visited(t)] >= read[t]

\* The inductive invariant
LogInv ==
  /\ TypeOK /\ OwnFormatterKept /\ LoopsUndisturbed
  /\ TodoInv /\ FormatterInv /\ OwnInv /\ ClockInv /\ HolderInv

-----------------------------------------------------------------------------
(* Sequences.                                                               *)

\* A set of naturals has a least member
LEMMA LeastMember ==
  ASSUME NEW T \in SUBSET Nat, T # {}
  PROVE  \E x \in T : \A y \in T : x <= y
<1>1. PICK x \in T : \A y \in T : <<y, x>> \notin OpToRel(<, Nat)
  BY NatLessThanWellFounded, WFMin
<1>2. \A y \in T : ~(y < x)
  BY <1>1 DEF OpToRel
<1> QED
  BY <1>2

\* Erasing the first occurrence of an element leaves a sequence of elements
\* of the old one
LEMMA RemoveFirstFacts ==
  ASSUME NEW S, NEW s \in Seq(S), NEW e, Contains(s, e)
  PROVE  /\ RemoveFirst(s, e) \in Seq(S)
         /\ \A i \in 1 .. Len(RemoveFirst(s, e)) :
              \E j \in 1 .. Len(s) : RemoveFirst(s, e)[i] = s[j]
<1> DEFINE I == {i \in 1 .. Len(s) : s[i] = e}
           k == SelectInSeq(s, LAMBDA v : v = e)
           a == SubSeq(s, 1, k - 1)
           b == SubSeq(s, k + 1, Len(s))
<1>1. k \in 1 .. Len(s)
  <2>1. I # {} /\ I \in SUBSET Nat
    BY DEF Contains
  <2>2. Min(I) \in I
    BY <2>1, LeastMember DEF Min
  <2>3. k = Min(I)
    BY <2>1 DEF SelectInSeq
  <2> QED
    BY <2>2, <2>3
<1>2. RemoveFirst(s, e) = a \o b
  BY DEF RemoveFirst, RemoveAt, Contains
<1> HIDE DEF k
<1>3. a \in Seq(S) /\ Len(a) = k - 1 /\ \A i \in 1 .. Len(a) : a[i] = s[i]
  BY <1>1
<1>4. b \in Seq(S) /\ Len(b) = Len(s) - k /\ \A i \in 1 .. Len(b) : b[i] = s[i + k]
  BY <1>1
<1> HIDE DEF a, b
<1>5. ASSUME NEW i \in 1 .. Len(a \o b)
      PROVE  \E j \in 1 .. Len(s) : (a \o b)[i] = s[j]
  <2>1. CASE i \in 1 .. Len(a)
    BY <1>1, <1>3, <1>4, <2>1
  <2>2. CASE i \notin 1 .. Len(a)
    <3>1. i - Len(a) \in 1 .. Len(b) /\ (a \o b)[i] = b[i - Len(a)]
      BY <1>1, <1>3, <1>4, <2>2
    <3>2. (i - Len(a)) + k \in 1 .. Len(s)
      BY <1>1, <1>3, <1>4, <3>1
    <3> QED
      BY <1>4, <3>1, <3>2
  <2> QED
    BY <2>1, <2>2
<1> QED
  BY <1>2, <1>3, <1>4, <1>5

\* What is left of a loop over a sequence after one turn
LEMMA TailFacts ==
  ASSUME NEW S, NEW s \in Seq(S), s # <<>>
  PROVE  \E r \in Seq(S) :
           /\ Tail(s) = r
           /\ r = <<>> <=> Len(s) = 1
           /\ \A i \in 1 .. Len(r) : i + 1 \in 1 .. Len(s) /\ r[i] = s[i + 1]
<1>1. Tail(s) \in Seq(S) /\ Len(Tail(s)) = Len(s) - 1 /\ Len(s) \in Nat \ {0}
  BY EmptySeq, HeadTailProperties
<1>2. \A i \in 1 .. Len(Tail(s)) : Tail(s)[i] = s[i + 1]
  OBVIOUS
<1>3. ASSUME NEW r \in Seq(S), r = Tail(s)
      PROVE  /\ r = <<>> <=> Len(s) = 1
             /\ \A i \in 1 .. Len(r) : i + 1 \in 1 .. Len(s) /\ r[i] = s[i + 1]
  <2>1. Len(r) = Len(s) - 1
    BY <1>1, <1>3
  <2>2. r = <<>> <=> Len(r) = 0
    BY EmptySeq
  <2>3. \A i \in 1 .. Len(r) : r[i] = s[i + 1]
    BY <1>2, <1>3
  <2> QED
    BY <1>1, <2>1, <2>2, <2>3
<1> QED
  BY <1>1, <1>3

-----------------------------------------------------------------------------
(* Ways through a logger.                                                   *)

Places == {"out", "event", "append", "reopen", "stamp", "write", "spread", "give", "push"}

\* What a step of t leaves the other threads
Aside(t) ==
  \A u \in Threads : u # t => pc'[u] = pc[u] /\ todo'[u] = todo[u] /\ log'[u] = log[u]

\* On to the next appender, or out after the last
LEMMA NextAppenderFacts ==
  ASSUME TypeOK, TodoInv, NEW t \in Threads, NEW where \in Places,
         pc[t] \notin {"out", "event"}, NextAppender(t, where)
  PROVE  /\ holder' \in [Loggers -> Threads \cup {Null}]
         /\ log' \in [Threads -> Loggers]
         /\ pc' \in [Threads -> Places] /\ todo' \in [Threads -> Seq(Appenders)]
         /\ Aside(t)
         /\ IF Len(todo[t]) = 1 THEN pc'[t] = "out" /\ todo'[t] = <<>>
                                ELSE pc'[t] = where /\ todo'[t] # <<>>
         /\ \A i \in 1 .. Len(todo'[t]) :
              i + 1 \in 1 .. Len(todo[t]) /\ todo'[t][i] = todo[t][i + 1]
<1> USE LogAssumption DEF NextAppender, Leave, Goto, Release, Places, TypeOK
<1>1. todo[t] \in Seq(Appenders) /\ todo[t] # <<>>
  BY DEF TodoInv
<1>2. PICK r \in Seq(Appenders) :
        /\ Tail(todo[t]) = r
        /\ r = <<>> <=> Len(todo[t]) = 1
        /\ \A i \in 1 .. Len(r) : i + 1 \in 1 .. Len(todo[t]) /\ r[i] = todo[t][i + 1]
  BY <1>1, TailFacts, ZenonT(60)
<1>3. todo' = [todo EXCEPT ![t] = r] /\ todo'[t] = r
  BY <1>2
<1>0. /\ pc \in [Threads -> Places] /\ holder \in [Loggers -> Threads \cup {Null}]
      /\ log \in [Threads -> Loggers] /\ todo \in [Threads -> Seq(Appenders)]
      /\ Root \in Loggers
  OBVIOUS
<1> HIDE LogAssumption DEF TypeOK, Places
<1>4. /\ holder' \in [Loggers -> Threads \cup {Null}] /\ log' \in [Threads -> Loggers]
      /\ pc' \in [Threads -> Places]
  <2>1. "out" \in Places
    BY DEF Places
  <2>2. CASE Len(todo[t]) = 1
    BY <1>0, <2>1, <2>2
  <2>3. CASE Len(todo[t]) # 1
    BY <1>0, <2>3
  <2> QED
    BY <2>2, <2>3
<1>5. todo' \in [Threads -> Seq(Appenders)]
  BY <1>0, <1>3
<1>6. Aside(t)
  BY <1>0 DEF Aside
<1>7. IF Len(todo[t]) = 1 THEN pc'[t] = "out" /\ todo'[t] = <<>>
                          ELSE pc'[t] = where /\ todo'[t] # <<>>
  <2>1. CASE Len(todo[t]) = 1
    BY <1>0, <1>2, <1>3, <2>1
  <2>2. CASE Len(todo[t]) # 1
    BY <1>0, <1>2, <1>3, <2>2
  <2> QED
    BY <2>1, <2>2
<1>8. \A i \in 1 .. Len(todo'[t]) :
        i + 1 \in 1 .. Len(todo[t]) /\ todo'[t][i] = todo[t][i + 1]
  BY <1>2, <1>3
<1> QED
  BY <1>4, <1>5, <1>6, <1>7, <1>8

\* The appender a thread visits
LEMMA VisitedFacts ==
  ASSUME TypeOK, TodoInv, NEW t \in Threads, pc[t] \notin {"out", "event"}
  PROVE  /\ todo[t] \in Seq(Appenders) /\ Len(todo[t]) \in Nat \ {0}
         /\ Visited(t) = todo[t][1] /\ Visited(t) \in Appenders
<1>1. todo[t] \in Seq(Appenders) /\ todo[t] # <<>>
  BY DEF TodoInv, TypeOK
<1>2. Len(todo[t]) \in Nat \ {0}
  BY <1>1, EmptySeq
<1> QED
  BY <1>1, <1>2 DEF Visited

\* A step of t that gives no appender a formatter and attaches none need only
\* care for what t visits next
LEMMA FormattersKept ==
  ASSUME FormatterInv, NEW t \in Threads, Aside(t),
         UNCHANGED <<formatter, m_appenders, fault>>,
         ~ClearInUse /\ pc'[t] # "give" => \A i \in 1 .. Len(todo'[t]) : formatter[todo'[t][i]] # Null
  PROVE  FormatterInv'
<1> SUFFICES ASSUME ~ClearInUse PROVE FormatterInv'
  BY DEF FormatterInv
<1>1. ASSUME NEW l \in Loggers, NEW i \in 1 .. Len(m_appenders'[l])
      PROVE  formatter'[m_appenders'[l][i]] # Null
  BY <1>1 DEF FormatterInv
<1>2. ASSUME NEW u \in Threads, pc'[u] # "give", NEW i \in 1 .. Len(todo'[u])
      PROVE  formatter'[todo'[u][i]] # Null
  BY <1>2 DEF FormatterInv, Aside
<1>3. NeverUnformatted'
  BY DEF FormatterInv, NeverUnformatted
<1> QED
  BY <1>1, <1>2, <1>3 DEF FormatterInv

\* A step of t that gives no appender a formatter, and does not stop between
\* the two locks of addAppender()
LEMMA OwnersKept ==
  ASSUME OwnInv, NEW t \in Threads, Aside(t), UNCHANGED <<own, m_hasFormatter, overtaken>>,
         pc'[t] # "give"
  PROVE  OwnInv'
<1>1. ASSUME NEW u \in Threads, pc'[u] = "give"
      PROVE  own'[Visited(u)'] = Null \/ Visited(u)' \in overtaken'
  BY <1>1 DEF OwnInv, Aside, Visited
<1> QED
  BY <1>1 DEF OwnInv

-----------------------------------------------------------------------------
(* Locks and loops.                                                         *)

Loops == {"append", "reopen", "stamp", "write", "spread"}

\* What is left of what is left of a loop
LEMMA RestFacts ==
  ASSUME NEW s \in Seq(Appenders), NEW r \in Seq(Appenders), RestOf(r, s), r # <<>>
  PROVE  RestOf(Tail(r), s)
<1>1. Len(r) \in Nat \ {0} /\ Len(s) \in Nat
  BY EmptySeq
<1>2. PICK q \in Seq(Appenders) : q = Tail(r)
  BY HeadTailProperties
<1>3. Len(q) = Len(r) - 1 /\ \A i \in 1 .. Len(q) : q[i] = r[i + 1]
  BY <1>1, <1>2, HeadTailProperties
<1>4. ASSUME NEW i \in 1 .. Len(q) PROVE q[i] = s[Len(s) - Len(q) + i]
  <2>1. i + 1 \in 1 .. Len(r) /\ q[i] = r[i + 1]
    BY <1>1, <1>3
  <2>2. r[i + 1] = s[Len(s) - Len(r) + (i + 1)]
    BY <2>1 DEF RestOf
  <2>3. Len(s) - Len(r) + (i + 1) = Len(s) - Len(q) + i
    BY <1>1, <1>3
  <2> QED
    BY <2>1, <2>2, <2>3
<1>5. RestOf(q, s)
  BY <1>1, <1>3, <1>4 DEF RestOf
<1> QED
  BY <1>2, <1>5

\* A step of t that leaves the lists as they are need only care for its own loop
LEMMA LoopsKept ==
  ASSUME LoopsUndisturbed, NEW t \in Threads, Aside(t), m_appenders' = m_appenders,
         pc'[t] \in Loops => RestOf(todo'[t], m_appenders[log'[t]])
  PROVE  LoopsUndisturbed'
<1> SUFFICES ASSUME NEW u \in Threads, pc'[u] \in Loops
             PROVE  RestOf(todo'[u], m_appenders'[log'[u]])
  BY DEF LoopsUndisturbed, Loops
<1>1. CASE u = t
  BY <1>1
<1>2. CASE u # t
  BY <1>2 DEF LoopsUndisturbed, Aside, Loops
<1> QED
  BY <1>1, <1>2

\* Nobody is in a loop over the list of a logger whose lock is free, or held
\* by a thread that is in no loop itself
LEMMA ListFree ==
  ASSUME TypeOK, HolderInv, NEW l \in Loggers, NEW u \in Threads, pc[u] \in Loops,
         holder[l] = Null \/ (holder[l] \in Threads /\ pc[holder[l]] \notin Loops)
  PROVE  log[u] # l
  BY LogAssumption DEF HolderInv, Loops

\* A step of t that goes on in the operation it is in
LEMMA HeldOn ==
  ASSUME TypeOK, HolderInv, NEW t \in Threads, NEW where \in Places, pc' = [pc EXCEPT ![t] = where],
         UNCHANGED <<holder, log>>, pc[t] \notin {"out", "event"}, where \notin {"out", "event"},
         where \in {"spread", "give", "push"} => pc[t] \in {"spread", "give", "push"}
  PROVE  HolderInv'
<1> SUFFICES ASSUME NEW u \in Threads
    PROVE
    /\ pc'[u] = "out" => \A l \in Loggers : holder[l] # u
    /\ pc'[u] = "event" => holder[Root] # u
    /\ pc'[u] \notin {"out", "event"} => holder[log[u]] = u
    /\ pc'[u] \in {"spread", "give", "push"} => \A l \in Loggers : holder[l] = u => l = log[u]
    /\ \A k, l \in Loggers : holder[k] = u /\ holder[l] = u => k = l \/ Root \in {k, l}
    /\ \A l \in Loggers : holder[l] = u /\ pc'[u] # "event" => l = log[u] \/ log[u] = Root
  BY DEF HolderInv
<1>1. CASE u = t
  BY <1>1 DEF HolderInv, TypeOK
<1>2. CASE u # t
  BY <1>2 DEF HolderInv, TypeOK
<1> QED
  BY <1>1, <1>2

\* A step of t that returns
LEMMA HeldNoMore ==
  ASSUME TypeOK, HolderInv, NEW t \in Threads, Leave(t)
  PROVE  HolderInv'
<1> USE LogAssumption DEF Leave, Goto, Release
<1>1. ASSUME NEW u \in Threads, NEW l \in Loggers
      PROVE  holder'[l] = u <=> holder[l] = u /\ u # t
  BY DEF TypeOK
<1>2. pc'[t] = "out" /\ \A u \in Threads : u # t => pc'[u] = pc[u] /\ log'[u] = log[u]
  BY DEF TypeOK
<1>3. \A u \in Threads : log[u] \in Loggers /\ Root \in Loggers
  BY DEF TypeOK
<1> SUFFICES ASSUME NEW u \in Threads
    PROVE
    /\ pc'[u] = "out" => \A l \in Loggers : holder'[l] # u
    /\ pc'[u] = "event" => holder'[Root] # u
    /\ pc'[u] \notin {"out", "event"} => holder'[log'[u]] = u
    /\ pc'[u] \in {"spread", "give", "push"} => \A l \in Loggers : holder'[l] = u => l = log'[u]
    /\ \A k, l \in Loggers : holder'[k] = u /\ holder'[l] = u => k = l \/ Root \in {k, l}
    /\ \A l \in Loggers : holder'[l] = u /\ pc'[u] # "event" => l = log'[u] \/ log'[u] = Root
  BY DEF HolderInv
<1>4. CASE u = t
  BY <1>1, <1>2, <1>4
<1>5. CASE u # t
  BY <1>1, <1>2, <1>3, <1>5 DEF HolderInv
<1> QED
  BY <1>4, <1>5

\* A step of t that takes the lock of l, from outside or, if l is root, with
\* that of a logger without appenders
LEMMA HeldNow ==
  ASSUME TypeOK, HolderInv, NEW t \in Threads, NEW l \in Loggers, NEW where \in Places,
         holder[l] = Null, holder' = [holder EXCEPT ![l] = t], log' = [log EXCEPT ![t] = l],
         pc' = [pc EXCEPT ![t] = where], where \notin {"out", "event"},
         \/ pc[t] = "out"
         \/ pc[t] = "event" /\ l = Root /\ where \notin {"spread", "give", "push"}
  PROVE  HolderInv'
<1>1. ASSUME NEW u \in Threads, NEW k \in Loggers
      PROVE  holder'[k] = u <=> (k = l /\ u = t) \/ (k # l /\ holder[k] = u)
  BY DEF TypeOK
<1>2. /\ pc'[t] = where /\ log'[t] = l
      /\ \A u \in Threads : u # t => pc'[u] = pc[u] /\ log'[u] = log[u]
  BY DEF TypeOK
<1>3. Root \in Loggers /\ \A u \in Threads : log[u] \in Loggers /\ u # Null
  BY LogAssumption DEF TypeOK
<1> SUFFICES ASSUME NEW u \in Threads
    PROVE
    /\ pc'[u] = "out" => \A k \in Loggers : holder'[k] # u
    /\ pc'[u] = "event" => holder'[Root] # u
    /\ pc'[u] \notin {"out", "event"} => holder'[log'[u]] = u
    /\ pc'[u] \in {"spread", "give", "push"} => \A k \in Loggers : holder'[k] = u => k = log'[u]
    /\ \A j, k \in Loggers : holder'[j] = u /\ holder'[k] = u => j = k \/ Root \in {j, k}
    /\ \A k \in Loggers : holder'[k] = u /\ pc'[u] # "event" => k = log'[u] \/ log'[u] = Root
  BY DEF HolderInv
<1>4. CASE u = t /\ pc[t] = "out"
  BY <1>1, <1>2, <1>3, <1>4 DEF HolderInv
<1>5. CASE u = t /\ pc[t] = "event"
  BY <1>1, <1>2, <1>3, <1>5 DEF HolderInv
<1>6. CASE u # t
  BY <1>1, <1>2, <1>3, <1>6 DEF HolderInv
<1> QED
  BY <1>4, <1>5, <1>6

\* On to the next appender, or out after the last: what a loop has left gets
\* shorter
LEMMA NextHolds ==
  ASSUME TypeOK, TodoInv, HolderInv, NEW t \in Threads, NEW where \in Places,
         pc[t] \notin {"out", "event"}, NextAppender(t, where),
         Len(todo[t]) = 1 \/ where \notin {"out", "event"},
         where \in {"spread", "give", "push"} => pc[t] \in {"spread", "give", "push"}
  PROVE  HolderInv'
<1>1. CASE Len(todo[t]) = 1
  BY <1>1, HeldNoMore DEF NextAppender
<1>2. CASE Len(todo[t]) # 1
  <2>1. UNCHANGED <<holder, log>> /\ pc' = [pc EXCEPT ![t] = where]
    BY <1>2 DEF NextAppender, Goto
  <2> QED
    BY <1>2, <2>1, HeldOn
<1> QED
  BY <1>1, <1>2

LEMMA NextLoops ==
  ASSUME TypeOK, TodoInv, LoopsUndisturbed, NEW t \in Threads, NEW where \in Loops,
         pc[t] \in Loops, NextAppender(t, where), m_appenders' = m_appenders
  PROVE  LoopsUndisturbed'
<1>1. Aside(t)
  BY DEF NextAppender, Leave, Goto, TypeOK, Aside
<1>2. CASE Len(todo[t]) = 1
  <2>1. pc'[t] \notin Loops
    BY <1>2 DEF NextAppender, Leave, Goto, TypeOK, Loops
  <2> QED
    BY <1>1, <2>1, LoopsKept
<1>3. CASE Len(todo[t]) # 1
  <2>1. todo'[t] = Tail(todo[t]) /\ log' = log
    BY <1>3 DEF NextAppender, TypeOK
  <2>2. todo[t] \in Seq(Appenders) /\ todo[t] # <<>> /\ m_appenders[log[t]] \in Seq(Appenders)
    BY DEF TodoInv, TypeOK, Loops
  <2>3. RestOf(todo[t], m_appenders[log[t]])
    BY DEF LoopsUndisturbed, Loops
  <2>4. RestOf(todo'[t], m_appenders[log'[t]])
    BY <2>1, <2>2, <2>3, RestFacts
  <2> QED
    BY <1>1, <2>4, LoopsKept
<1> QED
  BY <1>2, <1>3

\* Into the loop over the appenders of l, or out again if it has none
LEMMA VisitFacts ==
  ASSUME TypeOK, NEW t \in Threads, NEW l \in Loggers, NEW where \in Places,
         Visit(t, l, where)
  PROVE  /\ holder' \in [Loggers -> Threads \cup {Null}]
         /\ log' \in [Threads -> Loggers]
         /\ pc' \in [Threads -> Places] /\ todo' \in [Threads -> Seq(Appenders)]
         /\ Aside(t)
         /\ todo'[t] = m_appenders[l]
         /\ pc'[t] = IF m_appenders[l] = <<>> THEN "out" ELSE where
<1>1. /\ pc \in [Threads -> Places] /\ holder \in [Loggers -> Threads \cup {Null}]
      /\ log \in [Threads -> Loggers] /\ todo \in [Threads -> Seq(Appenders)]
      /\ m_appenders \in [Loggers -> Seq(Appenders)]
      /\ Root \in Loggers /\ "out" \in Places
  BY LogAssumption DEF TypeOK, Places
<1>2. CASE m_appenders[l] = <<>>
  BY <1>1, <1>2 DEF Visit, Leave, Goto, Release, Aside
<1>3. CASE m_appenders[l] # <<>>
  BY <1>1, <1>3, ZenonT(60) DEF Visit, Goto, Aside
<1> QED
  BY <1>2, <1>3

LEMMA VisitHolds ==
  ASSUME TypeOK, HolderInv, NEW t \in Threads, NEW l \in Loggers, NEW where \in Loops,
         Visit(t, l, where),
         pc[t] = "out" \/ (pc[t] = "event" /\ l = Root /\ where # "spread")
  PROVE  HolderInv'
<1>1. CASE m_appenders[l] = <<>>
  BY <1>1, HeldNoMore DEF Visit
<1>2. CASE m_appenders[l] # <<>>
  <2>1. /\ holder[l] = Null /\ holder' = [holder EXCEPT ![l] = t]
        /\ log' = [log EXCEPT ![t] = l] /\ pc' = [pc EXCEPT ![t] = where]
    BY <1>2 DEF Visit, Goto
  <2>2. where \in Places /\ where \notin {"out", "event"} /\ where \notin {"give", "push"}
    BY DEF Loops, Places
  <2> QED
    BY <2>1, <2>2, HeldNow
<1> QED
  BY <1>1, <1>2

LEMMA VisitLoops ==
  ASSUME TypeOK, LoopsUndisturbed, NEW t \in Threads, NEW l \in Loggers, NEW where \in Loops,
         Visit(t, l, where), m_appenders' = m_appenders
  PROVE  LoopsUndisturbed'
<1>1. Aside(t) /\ todo'[t] = m_appenders[l]
  BY DEF Visit, Leave, Goto, TypeOK, Aside
<1>2. pc'[t] \in Loops => log'[t] = l
  BY DEF Visit, Leave, Goto, TypeOK, Loops
<1>3. RestOf(m_appenders[l], m_appenders[l])
  <2>1. Len(m_appenders[l]) \in Nat
    BY LenProperties DEF TypeOK
  <2> QED
    BY <2>1 DEF RestOf
<1> QED
  BY <1>1, <1>2, <1>3, LoopsKept

-----------------------------------------------------------------------------
(* The steps.                                                               *)

\* getLogger() makes a logger without appenders
LEMMA GetLoggerStep ==
  ASSUME LogInv, NEW l \in Loggers, GetLogger(l)
  PROVE  LogInv'
<1> USE LogAssumption DEF LogInv, GetLogger, loggerVars, appenderVars, fileVars
<1>1. TypeOK'
  BY DEF TypeOK, Places
<1>2. OwnFormatterKept'
  BY DEF OwnFormatterKept, TypeOK
<1>3. TodoInv'
  BY DEF TodoInv, Visited, Aside, TypeOK
<1>4. FormatterInv'
  BY DEF FormatterInv, NeverUnformatted
<1>5. OwnInv'
  BY DEF OwnInv, Visited
<1>6. ClockInv'
  BY DEF ClockInv, TodoInv, Visited, Aside, TypeOK
<1>7. HolderInv'
  BY DEF HolderInv
<1>8. LoopsUndisturbed'
  BY DEF LoopsUndisturbed
<1> QED
  BY <1>1, <1>2, <1>3, <1>4, <1>5, <1>6, <1>7, <1>8

\* root's level keeps an event out
LEMMA EventDroppedStep ==
  ASSUME LogInv, NEW t \in Threads, EventDropped(t)
  PROVE  LogInv'
<1> USE LogAssumption DEF LogInv, EventDropped, Leave, Goto, Release, loggerVars, appenderVars, fileVars
<1>0. Aside(t) /\ todo' = todo /\ pc[t] # "give" /\ pc'[t] # "give"
  BY DEF Aside, TypeOK
<1>1. TypeOK'
  BY DEF TypeOK, Places
<1>2. OwnFormatterKept'
  BY DEF OwnFormatterKept, TypeOK
<1>3. TodoInv'
  BY DEF TodoInv, Visited, Aside, TypeOK
<1>4. FormatterInv'
  BY <1>0, FormattersKept DEF FormatterInv
<1>5. OwnInv'
  BY <1>0, OwnersKept
<1>6. ClockInv'
  BY DEF ClockInv, TodoInv, Visited, Aside, TypeOK
<1>7. HolderInv'
  BY HeldNoMore
<1>8. LoopsUndisturbed'
  <2>1. Aside(t) /\ pc'[t] \notin Loops
    BY DEF Aside, TypeOK, Loops
  <2> QED
    BY <2>1, LoopsKept
<1> QED
  BY <1>1, <1>2, <1>3, <1>4, <1>5, <1>6, <1>7, <1>8

\* log() enters the loop over the appenders of a logger
LEMMA LogHereStep ==
  ASSUME LogInv, NEW t \in Threads, NEW l \in Loggers, LogHere(t, l)
  PROVE  LogInv'
<1> USE LogAssumption DEF LogInv, LogHere, loggerVars, appenderVars, fileVars
<1>0. /\ holder' \in [Loggers -> Threads \cup {Null}]
      /\ log' \in [Threads -> Loggers]
      /\ pc' \in [Threads -> Places] /\ todo' \in [Threads -> Seq(Appenders)]
      /\ Aside(t)
      /\ todo'[t] = m_appenders[l]
      /\ pc'[t] = IF m_appenders[l] = <<>> THEN "out" ELSE "append"
  BY VisitFacts DEF LogHere, Places
<1>1. TypeOK'
  BY <1>0 DEF TypeOK, Places
<1>2. OwnFormatterKept'
  BY <1>0 DEF OwnFormatterKept, TypeOK
<1>3. TodoInv'
  BY <1>0 DEF TodoInv, Visited, Aside, TypeOK
<1>4. FormatterInv'
  BY <1>0, FormattersKept DEF FormatterInv
<1>5. OwnInv'
  BY <1>0, OwnersKept
<1>6. ClockInv'
  BY <1>0 DEF ClockInv, TodoInv, Visited, Aside, TypeOK
<1>7. HolderInv'
  BY VisitHolds DEF LogHere, Enters, Loops
<1>8. LoopsUndisturbed'
  BY VisitLoops DEF LogHere, Loops
<1> QED
  BY <1>1, <1>2, <1>3, <1>4, <1>5, <1>6, <1>7, <1>8

\* log() of a logger without appenders goes on to root
LEMMA LogToRootStep ==
  ASSUME LogInv, NEW t \in Threads, NEW l \in Loggers, LogToRoot(t, l)
  PROVE  LogInv'
<1> USE LogAssumption DEF LogInv, LogToRoot, Enters, Goto, loggerVars, appenderVars, fileVars
<1>0. Aside(t) /\ todo' = todo /\ pc[t] # "give" /\ pc'[t] # "give"
  BY DEF Aside, TypeOK
<1>1. TypeOK'
  BY DEF TypeOK, Places
<1>2. OwnFormatterKept'
  BY DEF OwnFormatterKept, TypeOK
<1>3. TodoInv'
  BY DEF TodoInv, Visited, Aside, TypeOK
<1>4. FormatterInv'
  BY <1>0, FormattersKept DEF FormatterInv
<1>5. OwnInv'
  BY <1>0, OwnersKept
<1>6. ClockInv'
  BY DEF ClockInv, TodoInv, Visited, Aside, TypeOK
<1>7. HolderInv'
  BY DEF HolderInv, TypeOK
<1>8. LoopsUndisturbed'
  <2>1. Aside(t) /\ pc'[t] \notin Loops
    BY DEF Aside, TypeOK, Loops
  <2> QED
    BY <2>1, LoopsKept
<1> QED
  BY <1>1, <1>2, <1>3, <1>4, <1>5, <1>6, <1>7, <1>8

\* An appender's level keeps an event out
LEMMA AppendNotStep ==
  ASSUME LogInv, NEW t \in Threads, AppendNot(t)
  PROVE  LogInv'
<1> USE LogAssumption DEF LogInv, AppendNot, loggerVars, appenderVars, fileVars
<1>0. /\ holder' \in [Loggers -> Threads \cup {Null}]
      /\ log' \in [Threads -> Loggers]
      /\ pc' \in [Threads -> Places] /\ todo' \in [Threads -> Seq(Appenders)]
      /\ Aside(t)
      /\ IF Len(todo[t]) = 1 THEN pc'[t] = "out" /\ todo'[t] = <<>>
                             ELSE pc'[t] = "append" /\ todo'[t] # <<>>
      /\ \A i \in 1 .. Len(todo'[t]) :
           i + 1 \in 1 .. Len(todo[t]) /\ todo'[t][i] = todo[t][i + 1]
  BY NextAppenderFacts DEF AppendNot, Places
<1>1. TypeOK'
  BY <1>0 DEF TypeOK, Places
<1>2. OwnFormatterKept'
  BY <1>0 DEF OwnFormatterKept, TypeOK
<1>3. TodoInv'
  BY <1>0 DEF TodoInv, Visited, Aside, TypeOK
<1>4. FormatterInv'
  <2>1. pc'[t] # "give" /\ pc[t] # "give"
    BY <1>0
  <2>2. ASSUME ~ClearInUse, NEW i \in 1 .. Len(todo'[t])
        PROVE  formatter[todo'[t][i]] # Null
    <3>1. i + 1 \in 1 .. Len(todo[t]) /\ todo'[t][i] = todo[t][i + 1]
      BY <1>0
    <3> QED
      BY <2>1, <2>2, <3>1 DEF FormatterInv
  <2> QED
    BY <1>0, <2>1, <2>2, FormattersKept
<1>5. OwnInv'
  BY <1>0, OwnersKept
<1>6. ClockInv'
  BY <1>0 DEF ClockInv, TodoInv, Visited, Aside, TypeOK
<1>7. HolderInv'
  BY <1>0, NextHolds DEF AppendNot, Places, TodoInv
<1>8. LoopsUndisturbed'
  BY NextLoops DEF AppendNot, Loops
<1> QED
  BY <1>1, <1>2, <1>3, <1>4, <1>5, <1>6, <1>7, <1>8

\* An appender's log() reads the clock: a file noted for this second was opened in it
LEMMA AppendLineStep ==
  ASSUME LogInv, NEW t \in Threads, AppendLine(t)
  PROVE  LogInv'
<1> USE LogAssumption DEF LogInv, AppendLine, Goto, loggerVars, appenderVars, fileVars
<1>0. /\ todo[t] \in Seq(Appenders) /\ Len(todo[t]) \in Nat \ {0}
      /\ Visited(t) = todo[t][1] /\ Visited(t) \in Appenders
  BY VisitedFacts
<1>00. Aside(t) /\ todo' = todo /\ pc[t] # "give" /\ pc'[t] # "give"
  BY DEF Aside, TypeOK
<1>1. TypeOK'
  <2>1. now \in 0 .. MaxTime
    BY DEF TypeOK
  <2> QED
    BY <2>1 DEF TypeOK
<1>2. OwnFormatterKept'
  BY <1>0 DEF OwnFormatterKept, TypeOK
<1>3. TodoInv'
  BY <1>0 DEF TodoInv, Visited, Aside, TypeOK
<1>4. FormatterInv'
  BY <1>00, FormattersKept DEF FormatterInv
<1>5. OwnInv'
  BY <1>00, OwnersKept
<1>6. ClockInv'
  BY <1>0 DEF ClockInv, TodoInv, Visited, Aside, TypeOK
<1>7. HolderInv'
  <2>1. \E where \in {"reopen", "stamp", "write", "push"} : pc' = [pc EXCEPT ![t] = where]
    OBVIOUS
  <2> QED
    BY <2>1, HeldOn DEF Places
<1>8. LoopsUndisturbed'
  <2>1. Aside(t) /\ UNCHANGED <<todo, log>> /\ pc[t] \in Loops
    BY DEF Aside, TypeOK, Loops
  <2> QED
    BY <2>1, LoopsKept DEF LoopsUndisturbed, Loops
<1> QED
  BY <1>1, <1>2, <1>3, <1>4, <1>5, <1>6, <1>7, <1>8

\* A file is opened now
LEMMA ReopenStep ==
  ASSUME LogInv, NEW t \in Threads, Reopen(t)
  PROVE  LogInv'
<1> USE LogAssumption DEF LogInv, Reopen, Goto, loggerVars, appenderVars
<1>0. Aside(t) /\ todo' = todo /\ pc[t] # "give" /\ pc'[t] # "give"
  BY DEF Aside, TypeOK
<1>1. TypeOK'
  BY DEF TypeOK, Places
<1>2. OwnFormatterKept'
  BY DEF OwnFormatterKept, TypeOK
<1>3. TodoInv'
  BY DEF TodoInv, Visited, Aside, TypeOK
<1>4. FormatterInv'
  BY <1>0, FormattersKept DEF FormatterInv
<1>5. OwnInv'
  BY <1>0, OwnersKept
<1>6. ClockInv'
  BY DEF ClockInv, TodoInv, Visited, Aside, TypeOK
<1>7. HolderInv'
  <2>1. \E where \in {"reopen", "stamp", "write", "push"} : pc' = [pc EXCEPT ![t] = where]
    OBVIOUS
  <2> QED
    BY <2>1, HeldOn DEF Places
<1>8. LoopsUndisturbed'
  <2>1. Aside(t) /\ UNCHANGED <<todo, log>> /\ pc[t] \in Loops
    BY DEF Aside, TypeOK, Loops
  <2> QED
    BY <2>1, LoopsKept DEF LoopsUndisturbed, Loops
<1> QED
  BY <1>1, <1>2, <1>3, <1>4, <1>5, <1>6, <1>7, <1>8

\* The second noted is the one read before the file was opened
LEMMA StampStep ==
  ASSUME LogInv, NEW t \in Threads, Stamp(t)
  PROVE  LogInv'
<1> USE LogAssumption DEF LogInv, Stamp, Goto, loggerVars, appenderVars
<1>0. Aside(t) /\ todo' = todo /\ pc[t] # "give" /\ pc'[t] # "give"
  BY DEF Aside, TypeOK
<1>1. TypeOK'
  BY DEF TypeOK, Places
<1>2. OwnFormatterKept'
  BY DEF OwnFormatterKept, TypeOK
<1>3. TodoInv'
  BY DEF TodoInv, Visited, Aside, TypeOK
<1>4. FormatterInv'
  BY <1>0, FormattersKept DEF FormatterInv
<1>5. OwnInv'
  BY <1>0, OwnersKept
<1>6. ClockInv'
  BY DEF ClockInv, TodoInv, Visited, Aside, TypeOK
<1>7. HolderInv'
  <2>1. \E where \in {"reopen", "stamp", "write", "push"} : pc' = [pc EXCEPT ![t] = where]
    OBVIOUS
  <2> QED
    BY <2>1, HeldOn DEF Places
<1>8. LoopsUndisturbed'
  <2>1. Aside(t) /\ UNCHANGED <<todo, log>> /\ pc[t] \in Loops
    BY DEF Aside, TypeOK, Loops
  <2> QED
    BY <2>1, LoopsKept DEF LoopsUndisturbed, Loops
<1> QED
  BY <1>1, <1>2, <1>3, <1>4, <1>5, <1>6, <1>7, <1>8

\* The appender visited has lost its formatter
LEMMA WriteFaultStep ==
  ASSUME LogInv, NEW t \in Threads, Write(t), formatter[Visited(t)] = Null
  PROVE  LogInv'
<1> USE LogAssumption DEF LogInv, Write, loggerVars, appenderVars, fileVars
<1>0. ClearInUse
  <2>1. pc[t] # "give" /\ 1 \in 1 .. Len(todo[t]) /\ Visited(t) = todo[t][1]
    BY VisitedFacts
  <2> QED
    BY <2>1 DEF FormatterInv
<1>1. TypeOK'
  BY DEF TypeOK
<1>2. OwnFormatterKept'
  BY DEF OwnFormatterKept
<1>3. TodoInv'
  BY DEF TodoInv, Visited
<1>4. FormatterInv'
  BY <1>0 DEF FormatterInv
<1>5. OwnInv'
  BY DEF OwnInv, Visited
<1>6. ClockInv'
  <2>1. \A u \in Threads : read'[u] = (IF u = t THEN 0 ELSE read[u])
    BY DEF TypeOK
  <2>2. ASSUME NEW u \in Threads, pc[u] \in {"stamp", "write"}, Visited(u) \in Files
        PROVE  since[Visited(u)] >= read'[u]
    BY <2>1, <2>2 DEF ClockInv, TypeOK
  <2> QED
    BY <2>1, <2>2 DEF ClockInv, TypeOK, Visited
<1>7. HolderInv'
  BY DEF HolderInv
<1>8. LoopsUndisturbed'
  BY DEF LoopsUndisturbed
<1> QED
  BY <1>1, <1>2, <1>3, <1>4, <1>5, <1>6, <1>7, <1>8

\* A line is written: the appender visited has a formatter
LEMMA WriteStep ==
  ASSUME LogInv, NEW t \in Threads, Write(t), formatter[Visited(t)] # Null
  PROVE  LogInv'
<1> USE LogAssumption DEF LogInv, Write, loggerVars, appenderVars, fileVars
<1>0. /\ holder' \in [Loggers -> Threads \cup {Null}]
      /\ log' \in [Threads -> Loggers]
      /\ pc' \in [Threads -> Places] /\ todo' \in [Threads -> Seq(Appenders)]
      /\ Aside(t)
      /\ IF Len(todo[t]) = 1 THEN pc'[t] = "out" /\ todo'[t] = <<>>
                             ELSE pc'[t] = "append" /\ todo'[t] # <<>>
      /\ \A i \in 1 .. Len(todo'[t]) :
           i + 1 \in 1 .. Len(todo[t]) /\ todo'[t][i] = todo[t][i + 1]
  BY NextAppenderFacts DEF Write, Places
<1>1. TypeOK'
  <2>1. read' \in [Threads -> 0 .. MaxTime]
    BY DEF TypeOK
  <2> QED
    BY <1>0, <2>1 DEF TypeOK, Places
<1>2. OwnFormatterKept'
  BY <1>0 DEF OwnFormatterKept, TypeOK
<1>3. TodoInv'
  BY <1>0 DEF TodoInv, Visited, Aside, TypeOK
<1>4. FormatterInv'
  <2>1. pc'[t] # "give" /\ pc[t] # "give"
    BY <1>0
  <2>2. ASSUME ~ClearInUse, NEW i \in 1 .. Len(todo'[t])
        PROVE  formatter[todo'[t][i]] # Null
    <3>1. i + 1 \in 1 .. Len(todo[t]) /\ todo'[t][i] = todo[t][i + 1]
      BY <1>0
    <3> QED
      BY <2>1, <2>2, <3>1 DEF FormatterInv
  <2> QED
    BY <1>0, <2>1, <2>2, FormattersKept
<1>5. OwnInv'
  BY <1>0, OwnersKept
<1>6. ClockInv'
  <2>1. \A u \in Threads : read'[u] <= now'
    BY DEF ClockInv, TypeOK
  <2>2. ASSUME NEW u \in Threads, pc'[u] \in {"stamp", "write"}, Visited(u)' \in Files
        PROVE  since[Visited(u)'] >= read'[u]
    <3>1. u # t
      BY <1>0, <2>2
    <3> QED
      BY <1>0, <2>2, <3>1 DEF ClockInv, Visited, Aside, TypeOK
  <2> QED
    BY <2>1, <2>2 DEF ClockInv
<1>7. HolderInv'
  BY <1>0, NextHolds DEF Write, Places, TodoInv
<1>8. LoopsUndisturbed'
  BY NextLoops DEF Write, Loops
<1> QED
  BY <1>1, <1>2, <1>3, <1>4, <1>5, <1>6, <1>7, <1>8

\* Logger::setFormatter() enters the loop over the appenders
LEMMA SetFormatterStep ==
  ASSUME LogInv, NEW t \in Threads, NEW l \in Loggers, NEW f \in Formatters \cup {Default}, SetFormatter(t, l, f)
  PROVE  LogInv'
<1> USE LogAssumption DEF LogInv, SetFormatter, appenderVars, fileVars
<1>0. /\ holder' \in [Loggers -> Threads \cup {Null}]
      /\ log' \in [Threads -> Loggers]
      /\ pc' \in [Threads -> Places] /\ todo' \in [Threads -> Seq(Appenders)]
      /\ Aside(t)
      /\ todo'[t] = m_appenders[l]
      /\ pc'[t] = IF m_appenders[l] = <<>> THEN "out" ELSE "spread"
  BY VisitFacts DEF SetFormatter, Places
<1>1. TypeOK'
  BY <1>0 DEF TypeOK, Places
<1>2. OwnFormatterKept'
  BY <1>0 DEF OwnFormatterKept, TypeOK
<1>3. TodoInv'
  BY <1>0 DEF TodoInv, Visited, Aside, TypeOK
<1>4. FormatterInv'
  BY <1>0, FormattersKept DEF FormatterInv
<1>5. OwnInv'
  BY <1>0, OwnersKept
<1>6. ClockInv'
  BY <1>0 DEF ClockInv, TodoInv, Visited, Aside, TypeOK
<1>7. HolderInv'
  BY VisitHolds DEF SetFormatter, Enters, Loops
<1>8. LoopsUndisturbed'
  BY VisitLoops DEF SetFormatter, Loops
<1> QED
  BY <1>1, <1>2, <1>3, <1>4, <1>5, <1>6, <1>7, <1>8

\* ... and gives its formatter to those without one of their own
LEMMA SpreadStep ==
  ASSUME LogInv, NEW t \in Threads, Spread(t)
  PROVE  LogInv'
<1> USE LogAssumption DEF LogInv, Spread, Inherits, loggerVars, fileVars
<1>0. /\ holder' \in [Loggers -> Threads \cup {Null}]
      /\ log' \in [Threads -> Loggers]
      /\ pc' \in [Threads -> Places] /\ todo' \in [Threads -> Seq(Appenders)]
      /\ Aside(t)
      /\ IF Len(todo[t]) = 1 THEN pc'[t] = "out" /\ todo'[t] = <<>>
                             ELSE pc'[t] = "spread" /\ todo'[t] # <<>>
      /\ \A i \in 1 .. Len(todo'[t]) :
           i + 1 \in 1 .. Len(todo[t]) /\ todo'[t][i] = todo[t][i + 1]
  BY NextAppenderFacts DEF Spread, Places
<1>1. TypeOK'
  BY <1>0 DEF TypeOK, Places
<1>2. OwnFormatterKept'
  <2>1. Visited(t) \in Appenders
    BY VisitedFacts
  <2> QED
    BY <2>1 DEF OwnFormatterKept, OwnInv, TypeOK
<1>3. TodoInv'
  BY <1>0 DEF TodoInv, Visited, Aside, TypeOK
<1>4. FormatterInv'
  <2> SUFFICES ASSUME ~ClearInUse PROVE FormatterInv'
    BY DEF FormatterInv
  <2>0. NeverUnformatted'
    BY DEF FormatterInv, NeverUnformatted
  <2>1. Visited(t) \in Appenders /\ m_formatter[log[t]] \in Formatters \cup {Default}
    BY VisitedFacts DEF TypeOK
  <2>2. \A b \in Appenders : formatter[b] # Null => formatter'[b] # Null
    BY <2>1 DEF TypeOK
  <2>3. ASSUME NEW l \in Loggers, NEW i \in 1 .. Len(m_appenders[l])
        PROVE  formatter'[m_appenders[l][i]] # Null
    BY <2>2, <2>3 DEF FormatterInv, TypeOK
  <2>4. ASSUME NEW u \in Threads, pc'[u] # "give", NEW i \in 1 .. Len(todo'[u])
        PROVE  formatter'[todo'[u][i]] # Null
    <3>1. CASE u = t
      <4>1. i + 1 \in 1 .. Len(todo[t]) /\ todo'[u][i] = todo[t][i + 1]
        BY <1>0, <2>4, <3>1
      <4>2. todo[t][i + 1] \in Appenders
        BY <4>1, ElementOfSeq DEF TypeOK
      <4> QED
        BY <2>2, <4>1, <4>2 DEF FormatterInv
    <3>2. CASE u # t
      BY <1>0, <2>2, <2>4, <3>2 DEF FormatterInv, Aside, TypeOK
    <3> QED
      BY <3>1, <3>2
  <2> QED
    BY <2>0, <2>3, <2>4 DEF FormatterInv
<1>5. OwnInv'
  BY <1>0, OwnersKept
<1>6. ClockInv'
  BY <1>0 DEF ClockInv, TodoInv, Visited, Aside, TypeOK
<1>7. HolderInv'
  BY <1>0, NextHolds DEF Spread, Places, TodoInv
<1>8. LoopsUndisturbed'
  BY NextLoops DEF Spread, Loops
<1> QED
  BY <1>1, <1>2, <1>3, <1>4, <1>5, <1>6, <1>7, <1>8

\* addAppender() finds an appender with or without a formatter
LEMMA AddAppenderStep ==
  ASSUME LogInv, NEW t \in Threads, NEW l \in Loggers, NEW a \in Appenders, AddAppender(t, l, a)
  PROVE  LogInv'
<1> USE LogAssumption DEF LogInv, AddAppender, NeedsFormatter, Goto, loggerVars, appenderVars, fileVars
<1>1. TypeOK'
  BY DEF TypeOK, Places
<1>2. OwnFormatterKept'
  BY DEF OwnFormatterKept, TypeOK
<1>3. TodoInv'
  BY DEF TodoInv, Visited, Aside, TypeOK
<1>4. FormatterInv'
  <2>1. Aside(t) /\ todo'[t] = <<a>> /\ pc'[t] = (IF formatter[a] = Null THEN "give" ELSE "push")
    BY DEF Aside, TypeOK
  <2> QED
    BY <2>1, FormattersKept
<1>5. OwnInv'
  <2>1. Aside(t) /\ todo'[t] = <<a>> /\ pc'[t] = (IF formatter[a] = Null THEN "give" ELSE "push")
    BY DEF Aside, TypeOK
  <2>2. Visited(t)' = a
    BY <2>1 DEF Visited
  <2>3. formatter[a] = Null => own[a] = Null \/ a \in overtaken
    BY DEF OwnFormatterKept
  <2>4. ASSUME NEW u \in Threads, pc'[u] = "give"
        PROVE  own[Visited(u)'] = Null \/ Visited(u)' \in overtaken
    BY <2>1, <2>2, <2>3, <2>4 DEF OwnInv, Aside, Visited
  <2> QED
    BY <2>4 DEF OwnInv
<1>6. ClockInv'
  BY DEF ClockInv, TodoInv, Visited, Aside, TypeOK
<1>7. HolderInv'
  BY HeldNow DEF Places
<1>8. LoopsUndisturbed'
  <2>1. Aside(t) /\ pc'[t] \notin Loops
    BY DEF Aside, TypeOK, Loops
  <2> QED
    BY <2>1, LoopsKept
<1> QED
  BY <1>1, <1>2, <1>3, <1>4, <1>5, <1>6, <1>7, <1>8

\* ... gives it the logger's: it has none of its own
LEMMA GiveStep ==
  ASSUME LogInv, NEW t \in Threads, Give(t)
  PROVE  LogInv'
<1> USE LogAssumption DEF LogInv, Give, Goto, loggerVars, fileVars
<1>0. Aside(t) /\ todo' = todo /\ pc'[t] # "give" /\ pc'[t] # "event"
  BY DEF Aside, TypeOK
<1>1. TypeOK'
  BY DEF TypeOK, Places
<1>2. OwnFormatterKept'
  <2>1. Visited(t) \in Appenders /\ (own[Visited(t)] = Null \/ Visited(t) \in overtaken)
    BY VisitedFacts DEF OwnInv
  <2> QED
    BY <2>1 DEF OwnFormatterKept, TypeOK
<1>3. TodoInv'
  BY DEF TodoInv, Visited, Aside, TypeOK
<1>4. FormatterInv'
  <2> SUFFICES ASSUME ~ClearInUse PROVE FormatterInv'
    BY DEF FormatterInv
  <2>1. /\ Visited(t) = todo[t][1] /\ Visited(t) \in Appenders /\ Len(todo[t]) = 1
        /\ m_formatter[log[t]] # Null
    BY VisitedFacts DEF TypeOK, TodoInv
  <2>2. \A b \in Appenders : formatter'[b] # Null <=> formatter[b] # Null \/ b = Visited(t)
    BY <2>1 DEF TypeOK
  <2>3. ASSUME NEW l \in Loggers, NEW i \in 1 .. Len(m_appenders[l])
        PROVE  formatter'[m_appenders[l][i]] # Null
    <3>1. m_appenders[l][i] \in Appenders
      BY ElementOfSeq DEF TypeOK
    <3> QED
      BY <2>2, <3>1 DEF FormatterInv
  <2>4. ASSUME NEW u \in Threads, pc'[u] # "give", NEW i \in 1 .. Len(todo[u])
        PROVE  formatter'[todo[u][i]] # Null
    <3>1. todo[u][i] \in Appenders
      BY ElementOfSeq DEF TypeOK
    <3>2. CASE u = t
      BY <2>1, <2>2, <3>2
    <3>3. CASE u # t
      BY <1>0, <2>2, <2>4, <3>1, <3>3 DEF FormatterInv, Aside
    <3> QED
      BY <3>2, <3>3
  <2>5. NeverUnformatted'
    BY DEF FormatterInv, NeverUnformatted
  <2> QED
    BY <2>3, <2>4, <2>5 DEF FormatterInv
<1>5. OwnInv'
  BY <1>0, OwnersKept
<1>6. ClockInv'
  BY DEF ClockInv, TodoInv, Visited, Aside, TypeOK
<1>7. HolderInv'
  <2>1. \E where \in {"reopen", "stamp", "write", "push"} : pc' = [pc EXCEPT ![t] = where]
    OBVIOUS
  <2> QED
    BY <2>1, HeldOn DEF Places
<1>8. LoopsUndisturbed'
  <2>1. Aside(t) /\ pc'[t] \notin Loops
    BY DEF Aside, TypeOK, Loops
  <2> QED
    BY <2>1, LoopsKept
<1> QED
  BY <1>1, <1>2, <1>3, <1>4, <1>5, <1>6, <1>7, <1>8

\* ... and attaches it
LEMMA PushStep ==
  ASSUME LogInv, NEW t \in Threads, Push(t)
  PROVE  LogInv'
<1> USE LogAssumption DEF LogInv, Push, appenderVars, fileVars
<1>0. /\ holder' \in [Loggers -> Threads \cup {Null}]
      /\ log' \in [Threads -> Loggers]
      /\ pc' \in [Threads -> Places] /\ todo' \in [Threads -> Seq(Appenders)]
      /\ Aside(t)
      /\ IF Len(todo[t]) = 1 THEN pc'[t] = "out" /\ todo'[t] = <<>>
                             ELSE pc'[t] = "out" /\ todo'[t] # <<>>
      /\ \A i \in 1 .. Len(todo'[t]) :
           i + 1 \in 1 .. Len(todo[t]) /\ todo'[t][i] = todo[t][i + 1]
  BY NextAppenderFacts DEF Push, Places
<1>1. TypeOK'
  <2>1. Visited(t) \in Appenders /\ log[t] \in Loggers
    BY VisitedFacts DEF TypeOK
  <2>2. m_appenders' \in [Loggers -> Seq(Appenders)]
    BY <2>1 DEF TypeOK
  <2> QED
    BY <1>0, <2>2 DEF TypeOK, Places
<1>2. OwnFormatterKept'
  BY <1>0 DEF OwnFormatterKept, TypeOK
<1>3. TodoInv'
  BY <1>0 DEF TodoInv, Visited, Aside, TypeOK
<1>4. FormatterInv'
  <2> SUFFICES ASSUME ~ClearInUse PROVE FormatterInv'
    BY DEF FormatterInv
  <2>0. NeverUnformatted'
    BY DEF FormatterInv, NeverUnformatted
  <2>1. /\ Visited(t) \in Appenders /\ formatter[Visited(t)] # Null
        /\ log[t] \in Loggers
    <3>1. /\ pc[t] # "give" /\ 1 \in 1 .. Len(todo[t])
          /\ Visited(t) = todo[t][1] /\ Visited(t) \in Appenders
      BY VisitedFacts
    <3>2. log[t] \in Loggers
      BY DEF TypeOK
    <3> QED
      BY <3>1, <3>2 DEF FormatterInv
  <2>2. ASSUME NEW l \in Loggers, NEW i \in 1 .. Len(m_appenders'[l])
        PROVE  formatter[m_appenders'[l][i]] # Null
    <3>1. CASE l = log[t]
      <4>1. /\ m_appenders[l] \in Seq(Appenders)
            /\ m_appenders'[l] = Append(m_appenders[l], Visited(t))
        BY <3>1 DEF TypeOK
      <4>2. CASE i = Len(m_appenders[l]) + 1
        BY <2>1, <4>1, <4>2
      <4>3. CASE i \in 1 .. Len(m_appenders[l])
        <5>1. m_appenders'[l][i] = m_appenders[l][i]
          BY <4>1, <4>3
        <5> QED
          BY <4>3, <5>1 DEF FormatterInv
      <4> QED
        BY <4>1, <4>2, <4>3, <2>2
    <3>2. CASE l # log[t]
      <4>1. m_appenders'[l] = m_appenders[l]
        BY <3>2 DEF TypeOK
      <4> QED
        BY <2>2, <4>1 DEF FormatterInv
    <3> QED
      BY <3>1, <3>2
  <2>3. ASSUME NEW u \in Threads, pc'[u] # "give", NEW i \in 1 .. Len(todo'[u])
        PROVE  formatter[todo'[u][i]] # Null
    <3>1. u # t
      BY <1>0, <2>3 DEF TodoInv
    <3>2. pc'[u] = pc[u] /\ todo'[u] = todo[u]
      BY <1>0, <3>1 DEF Aside
    <3> QED
      BY <2>3, <3>2 DEF FormatterInv
  <2> QED
    BY <2>0, <2>2, <2>3 DEF FormatterInv
<1>5. OwnInv'
  BY <1>0, OwnersKept
<1>6. ClockInv'
  BY <1>0 DEF ClockInv, TodoInv, Visited, Aside, TypeOK
<1>7. HolderInv'
  BY <1>0, NextHolds DEF Push, Places, TodoInv
<1>8. LoopsUndisturbed'
  <2>1. log[t] \in Loggers /\ holder[log[t]] = t /\ pc[t] \notin Loops /\ pc'[t] \notin Loops
    BY <1>0 DEF HolderInv, Loops, TypeOK
  <2>2. \A l \in Loggers \ {log[t]} : m_appenders'[l] = m_appenders[l]
    BY DEF TypeOK
  <2>3. ASSUME NEW u \in Threads, pc'[u] \in Loops
        PROVE  RestOf(todo'[u], m_appenders'[log'[u]])
    <3>1. pc[u] \in Loops /\ todo'[u] = todo[u] /\ log'[u] = log[u] /\ log[u] \in Loggers
      BY <1>0, <2>1, <2>3 DEF Aside, TypeOK
    <3>2. log[u] # log[t]
      BY <2>1, <3>1, ListFree
    <3> QED
      BY <2>2, <3>1, <3>2 DEF LoopsUndisturbed, Loops
  <2> QED
    BY <2>3 DEF LoopsUndisturbed, Loops
<1> QED
  BY <1>1, <1>2, <1>3, <1>4, <1>5, <1>6, <1>7, <1>8

\* delAppender() keeps the others
LEMMA DelAppenderStep ==
  ASSUME LogInv, NEW t \in Threads, NEW l \in Loggers, NEW a \in Appenders, DelAppender(t, l, a)
  PROVE  LogInv'
<1> USE LogAssumption DEF LogInv, DelAppender, appenderVars, fileVars
<1>0. /\ m_appenders'[l] \in Seq(Appenders)
      /\ \A i \in 1 .. Len(m_appenders'[l]) :
           \E j \in 1 .. Len(m_appenders[l]) : m_appenders'[l][i] = m_appenders[l][j]
  <2>1. m_appenders[l] \in Seq(Appenders) /\ m_appenders'[l] = RemoveFirst(m_appenders[l], a)
    BY DEF TypeOK
  <2> QED
    BY <2>1, RemoveFirstFacts
<1>1. TypeOK'
  BY <1>0 DEF TypeOK, Places
<1>2. OwnFormatterKept'
  BY <1>0 DEF OwnFormatterKept, TypeOK
<1>3. TodoInv'
  BY <1>0 DEF TodoInv, Visited, Aside, TypeOK
<1>4. FormatterInv'
  <2> SUFFICES ASSUME ~ClearInUse PROVE FormatterInv'
    BY DEF FormatterInv
  <2>0. NeverUnformatted'
    BY DEF FormatterInv, NeverUnformatted
  <2>1. ASSUME NEW k \in Loggers, NEW i \in 1 .. Len(m_appenders'[k])
        PROVE  formatter[m_appenders'[k][i]] # Null
    <3>1. CASE k = l
      BY <1>0, <2>1, <3>1, SMTT(30) DEF FormatterInv
    <3>2. CASE k # l
      BY <2>1, <3>2 DEF FormatterInv, TypeOK
    <3> QED
      BY <3>1, <3>2
  <2> QED
    BY <2>0, <2>1 DEF FormatterInv
<1>5. OwnInv'
  BY DEF OwnInv, Visited
<1>6. ClockInv'
  BY <1>0 DEF ClockInv, TodoInv, Visited, Aside, TypeOK
<1>7. HolderInv'
  BY DEF HolderInv
<1>8. LoopsUndisturbed'
  BY ListFree DEF LoopsUndisturbed, Loops, TypeOK
<1> QED
  BY <1>1, <1>2, <1>3, <1>4, <1>5, <1>6, <1>7, <1>8

\* clearAppenders() keeps none
LEMMA ClearAppendersStep ==
  ASSUME LogInv, NEW t \in Threads, NEW l \in Loggers, ClearAppenders(t, l)
  PROVE  LogInv'
<1> USE LogAssumption DEF LogInv, ClearAppenders, appenderVars, fileVars
<1>1. TypeOK'
  BY DEF TypeOK, Places
<1>2. OwnFormatterKept'
  BY DEF OwnFormatterKept, TypeOK
<1>3. TodoInv'
  BY DEF TodoInv, Visited, Aside, TypeOK
<1>4. FormatterInv'
  BY DEF FormatterInv, NeverUnformatted
<1>5. OwnInv'
  BY DEF OwnInv, Visited
<1>6. ClockInv'
  BY DEF ClockInv, TodoInv, Visited, Aside, TypeOK
<1>7. HolderInv'
  BY DEF HolderInv
<1>8. LoopsUndisturbed'
  BY ListFree DEF LoopsUndisturbed, Loops, TypeOK
<1> QED
  BY <1>1, <1>2, <1>3, <1>4, <1>5, <1>6, <1>7, <1>8

\* An appender is given a formatter, or none if it is not in use
LEMMA SetOwnFormatterStep ==
  ASSUME LogInv, NEW t \in Threads, NEW a \in Appenders, NEW f \in Formatters \cup {Null}, SetOwnFormatter(t, a, f)
  PROVE  LogInv'
<1> USE LogAssumption DEF LogInv, SetOwnFormatter, loggerVars, fileVars
<1>1. TypeOK'
  BY DEF TypeOK, Places
<1>2. OwnFormatterKept'
  BY DEF OwnFormatterKept, TypeOK
<1>3. TodoInv'
  BY DEF TodoInv, Visited, Aside, TypeOK
<1>4. FormatterInv'
  <2> SUFFICES ASSUME ~ClearInUse PROVE FormatterInv'
    BY DEF FormatterInv
  <2>1. f # Null \/ ~InUse(a)
    OBVIOUS
  <2>2. \A b \in Appenders : formatter'[b] = (IF b = a THEN f ELSE formatter[b])
    BY DEF TypeOK
  <2>3. ASSUME NEW l \in Loggers, NEW i \in 1 .. Len(m_appenders[l])
        PROVE  formatter'[m_appenders[l][i]] # Null
    <3>1. m_appenders[l][i] \in Appenders /\ Contains(m_appenders[l], m_appenders[l][i])
      BY ElementOfSeq DEF TypeOK, Contains
    <3> QED
      BY <2>1, <2>2, <3>1 DEF FormatterInv, InUse
  <2>4. ASSUME NEW u \in Threads, pc[u] # "give", NEW i \in 1 .. Len(todo[u])
        PROVE  formatter'[todo[u][i]] # Null
    <3>1. todo[u][i] \in Appenders /\ Contains(todo[u], todo[u][i])
      BY ElementOfSeq DEF TypeOK, Contains
    <3>2. pc[u] # "out"
      BY <2>4 DEF TodoInv, TypeOK
    <3> QED
      BY <2>1, <2>2, <2>4, <3>1, <3>2 DEF FormatterInv, InUse
  <2>5. NeverUnformatted'
    BY DEF FormatterInv, NeverUnformatted
  <2> QED
    BY <2>3, <2>4, <2>5 DEF FormatterInv
<1>5. OwnInv'
  <2>1. \A b \in Appenders : own'[b] # Null <=> m_hasFormatter'[b]
    BY DEF OwnInv, TypeOK
  <2>2. ASSUME NEW u \in Threads, pc[u] = "give"
        PROVE  own'[Visited(u)] = Null \/ Visited(u) \in overtaken'
    <3>1. Visited(u) \in Appenders
      BY <2>2, VisitedFacts
    <3>2. CASE Visited(u) = a
      BY <2>2, <3>2 DEF Awaited
    <3>3. CASE Visited(u) # a
      BY <2>2, <3>1, <3>3 DEF OwnInv, TypeOK
    <3> QED
      BY <3>2, <3>3
  <2> QED
    BY <2>1, <2>2 DEF OwnInv, Visited
<1>6. ClockInv'
  BY DEF ClockInv, TodoInv, Visited, Aside, TypeOK
<1>7. HolderInv'
  BY DEF HolderInv
<1>8. LoopsUndisturbed'
  BY DEF LoopsUndisturbed
<1> QED
  BY <1>1, <1>2, <1>3, <1>4, <1>5, <1>6, <1>7, <1>8

\* The clock moves on
LEMMA TickStep ==
  ASSUME LogInv, Tick
  PROVE  LogInv'
<1> USE LogAssumption DEF LogInv, Tick, loggerVars, appenderVars, fileVars
<1>1. TypeOK'
  BY DEF TypeOK, Places
<1>2. OwnFormatterKept'
  BY DEF OwnFormatterKept, TypeOK
<1>3. TodoInv'
  BY DEF TodoInv, Visited, Aside, TypeOK
<1>4. FormatterInv'
  BY DEF FormatterInv, NeverUnformatted
<1>5. OwnInv'
  BY DEF OwnInv, Visited
<1>6. ClockInv'
  BY DEF ClockInv, TodoInv, Visited, Aside, TypeOK
<1>7. HolderInv'
  BY DEF HolderInv
<1>8. LoopsUndisturbed'
  BY DEF LoopsUndisturbed
<1> QED
  BY <1>1, <1>2, <1>3, <1>4, <1>5, <1>6, <1>7, <1>8

LEMMA LogInit == Init => LogInv
<1> SUFFICES ASSUME Init PROVE LogInv
  OBVIOUS
<1> USE LogAssumption DEF Init
<1>1. PICK c \in Consoles :
        /\ m_appenders = [l \in Loggers |-> IF l = Root THEN <<c>> ELSE <<>>]
        /\ formatter = [a \in Appenders |-> IF a = c THEN Default ELSE Null]
  OBVIOUS
<1>2. c \in Appenders
  BY DEF Appenders
<1>3. TypeOK
  <2>1. m_appenders \in [Loggers -> Seq(Appenders)] /\ todo \in [Threads -> Seq(Appenders)]
    BY <1>1, <1>2
  <2>2. formatter \in [Appenders -> Formatters \cup {Default, Null}]
    BY <1>1
  <2> QED
    BY <2>1, <2>2 DEF TypeOK
<1>4. FormatterInv
  BY <1>1, <1>2 DEF FormatterInv, NeverUnformatted
<1> QED
  BY <1>3, <1>4 DEF LogInv, OwnFormatterKept, LoopsUndisturbed, TodoInv, OwnInv, ClockInv, HolderInv

LEMMA LogNext == LogInv /\ [Next]_vars => LogInv'
<1> SUFFICES ASSUME LogInv, [Next]_vars PROVE LogInv'
  OBVIOUS
<1>0. m_loggers \subseteq Loggers
  BY DEF LogInv, TypeOK
<1>1. ASSUME NEW t \in Threads, LogStep(t) PROVE LogInv'
  BY <1>1, LogHereStep, LogToRootStep, EventDroppedStep, AppendNotStep, AppendLineStep,
     ReopenStep, StampStep, WriteStep, WriteFaultStep DEF LogStep
<1>2. ASSUME NEW t \in Threads, SetupStep(t) PROVE LogInv'
  BY <1>0, <1>2, SetFormatterStep, AddAppenderStep, DelAppenderStep, SpreadStep, GiveStep,
     PushStep, ClearAppendersStep, SetOwnFormatterStep DEF SetupStep
<1>3. CASE UNCHANGED vars
  BY <1>3 DEF vars, LogInv, TypeOK, NeverUnformatted, OwnFormatterKept, LoopsUndisturbed, TodoInv,
       FormatterInv, OwnInv, ClockInv, HolderInv, Visited
<1> QED
  BY <1>1, <1>2, <1>3, GetLoggerStep, TickStep DEF Next

-----------------------------------------------------------------------------
(* The theorems.                                                            *)

\* The inductive invariant holds, for every set of threads, loggers, appenders
\* and formatters: which lock each thread holds, what it visits, which
\* formatters and stamps the appenders have meanwhile.
THEOREM LogInvariance == Spec => []LogInv
  BY LogInit, LogNext, PTL DEF Spec

\* Every variable keeps its type.
THEOREM LogTypeCorrect == Spec => []TypeOK
<1>1. LogInv => TypeOK
  BY DEF LogInv
<1> QED
  BY <1>1, LogInvariance, PTL

\* Unless users take the formatter away from an appender in use, no line is
\* formatted through an empty pointer, however many loggers share an appender
\* and whatever is attached, removed or set meanwhile.
THEOREM AlwaysFormatted ==
  ASSUME ~ClearInUse
  PROVE  Spec => []NeverUnformatted
<1>1. LogInv => NeverUnformatted
  BY DEF LogInv, FormatterInv
<1> QED
  BY <1>1, LogInvariance, PTL

\* A line goes to a file opened no earlier than the second its writer read,
\* although m_latsTime is written without the appender's lock.
THEOREM FilesAreFresh == Spec => []FreshFile
<1>1. LogInv => FreshFile
  BY DEF LogInv, ClockInv, FreshFile
<1> QED
  BY <1>1, LogInvariance, PTL

\* Whenever users call setFormatter() of an appender, no logger replaces what
\* they gave it, unless they gave it between the two locks of addAppender().
THEOREM OwnFormatterStays == Spec => []OwnFormatterKept
<1>1. LogInv => OwnFormatterKept
  BY DEF LogInv
<1> QED
  BY <1>1, LogInvariance, PTL

\* No list of appenders is changed while a thread loops over it, whatever
\* loggers share the appenders and through whatever loggers root was reached.
THEOREM IteratorsStayValid == Spec => []LoopsUndisturbed
<1>1. LogInv => LoopsUndisturbed
  BY DEF LogInv
<1> QED
  BY <1>1, LogInvariance, PTL

-----------------------------------------------------------------------------
(* The parser of patterns.  Its invariant relates the loop to the tokens    *)
(* the pattern was written from: between two turns it stands at the end of  *)
(* a token, with the items meant up to there.                               *)

\* What an entry of vec is, and what is noted of a token
Items   == [kind : {"text", "directive", "pattern_error"}, name : Seq(Chars), fmt : Seq(Chars)]
Entries == [tok : Tokens, end : Nat, items : Seq(Items)]

\* Where the k-th token ends, and the items meant up to there
EndOf(w, k)   == IF k = 0 THEN 0 ELSE w[k].end
MeantOf(w, k) == IF k = 0 THEN <<>> ELSE w[k].items

\* The mistake in a token, and in an entry
WrongName(tok)    == tok.kind \in {"name", "braced"} /\ tok.name \notin Keys
AnyUnknown(items) == \E x \in 1 .. Len(items) : Unknown(items[x])

\* The text r stands in p from position a + 1 on
Stands(p, a, r) ==
  /\ a + Len(r) <= Len(p)
  /\ \A j \in 1 .. Len(r) : p[a + j] = r[j]

\* The k-th token stands in the pattern behind the others
Placed(p, w, k) ==
  /\ EndOf(w, k) = EndOf(w, k - 1) + Len(Render(w[k].tok))
  /\ Stands(p, EndOf(w, k - 1), Render(w[k].tok))

\* What was meant with the k-th token behind the others
Recorded(w, k) ==
  /\ MeantOf(w, k) = Add(MeantOf(w, k - 1), w[k].tok)
  /\ AnyUnknown(MeantOf(w, k)) <=> \E j \in 1 .. k : WrongName(w[j].tok)

\* A pattern p and its tokens w belong together
WriteOK(p, w) ==
  /\ p \in Seq(Chars) /\ w \in Seq(Entries) /\ Len(p) = EndOf(w, Len(w))
  /\ \A k \in 1 .. Len(w) : Placed(p, w, k) /\ Recorded(w, k)
  /\ \A k \in 1 .. Len(w) : k < Len(w) => Separate(w[k].tok, w[k + 1].tok)

\* The loop has dealt with k tokens
Scanned(k) ==
  /\ nstr \in Seq(Chars) /\ vec \in Seq(Items)
  /\ pos = EndOf(written, k) + 1
  /\ Flush = MeantOf(written, k) /\ ~EndsInText(vec)
  /\ k > 0 => written[k].tok.kind # "unclosed"

\* Before the call, in the loop, behind it; and the patterns of which nothing
\* or only the mistake is claimed
ScanInv ==
  \/ pos = 0 /\ nstr = <<>> /\ vec = <<>> /\ m_error = FALSE /\ built = FALSE
  \/ m_error = FALSE /\ built = FALSE /\ \E k \in 0 .. Len(written) : Scanned(k)
  \/ /\ pos # 0 /\ built = TRUE /\ ~Has("unclosed") /\ vec = Meant
     /\ m_error <=> AnyUnknown(vec)
  \/ m_error = TRUE /\ Has("unclosed")
  \/ Has("percent")

\* The inductive invariant of the parser
ParserInv == WriteOK(m_pattern, written) /\ ScanInv

-----------------------------------------------------------------------------
\* The part of a sequence between two positions
LEMMA PartOf ==
  ASSUME NEW S, NEW s \in Seq(S), NEW m \in Nat \ {0}, NEW n \in Nat, n <= Len(s), m <= n + 1
  PROVE  /\ SubSeq(s, m, n) \in Seq(S) /\ Len(SubSeq(s, m, n)) = n - m + 1
         /\ \A x \in 1 .. n - m + 1 : SubSeq(s, m, n)[x] = s[m + x - 1]
<1>1. \A x \in m .. n : s[x] \in S
  OBVIOUS
<1>2. /\ SubSeq(s, m, n) \in Seq(S)
      /\ Len(SubSeq(s, m, n)) = IF m <= n THEN n - m + 1 ELSE 0
      /\ \A x \in 1 .. n - m + 1 : SubSeq(s, m, n)[x] = s[m + x - 1]
  BY <1>1, SubSeqProperties
<1> QED
  BY <1>2

\* The part of a sequence from position a + 1 to position a + n
LEMMA SubSeqIs ==
  ASSUME NEW S, NEW s \in Seq(S), NEW a \in Nat, NEW n \in Nat, a + n <= Len(s),
         NEW c, c = a + 1, NEW d, d = a + n, NEW g, g = SubSeq(s, c, d)
  PROVE  g \in Seq(S) /\ Len(g) = n /\ \A x \in 1 .. n : g[x] = s[a + x]
<1>1. c \in Nat \ {0} /\ d \in Nat /\ d <= Len(s) /\ c <= d + 1 /\ d - c + 1 = n
  OBVIOUS
<1>2. /\ g \in Seq(S) /\ Len(g) = d - c + 1
      /\ \A x \in 1 .. d - c + 1 : g[x] = s[c + x - 1]
  BY <1>1, PartOf
<1>3. ASSUME NEW x \in 1 .. n PROVE g[x] = s[a + x]
  <2>1. c + x - 1 = a + x /\ x \in 1 .. d - c + 1
    BY <1>1
  <2> QED
    BY <1>2, <2>1
<1> QED
  BY <1>1, <1>2, <1>3

\* r is s, of m characters, and behind it t, of l
Joined(r, s, m, t, l) ==
  /\ r \in Seq(Chars) /\ Len(r) = m + l
  /\ \A j \in 1 .. m : r[j] = s[j]
  /\ \A j \in 1 .. l : r[m + j] = t[j]

\* Text behind text
LEMMA Join ==
  ASSUME NEW s \in Seq(Chars), NEW t \in Seq(Chars), NEW m \in Nat, m = Len(s),
         NEW l \in Nat, l = Len(t), NEW r, r = s \o t
  PROVE  Joined(r, s, m, t, l)
<1>1. /\ r \in Seq(Chars) /\ Len(r) = m + l
      /\ \A j \in 1 .. m + l : r[j] = IF j <= m THEN s[j] ELSE t[j - m]
  BY ConcatProperties
<1>2. ASSUME NEW j \in 1 .. m PROVE r[j] = s[j]
  <2>1. j \in 1 .. m + l /\ j <= m
    OBVIOUS
  <2> QED
    BY <1>1, <2>1
<1>3. ASSUME NEW j \in 1 .. l PROVE r[m + j] = t[j]
  <2>1. m + j \in 1 .. m + l /\ ~(m + j <= m) /\ (m + j) - m = j
    OBVIOUS
  <2> QED
    BY <1>1, <2>1
<1> QED
  BY <1>1, <1>2, <1>3 DEF Joined

\* A sequence of one character
LEMMA Single ==
  ASSUME NEW c \in Chars
  PROVE  <<c>> \in Seq(Chars) /\ Len(<<c>>) = 1 /\ <<c>>[1] = c
OBVIOUS

\* The marks are different characters, and none of the others
LEMMA Marks ==
  /\ Percent \in Chars /\ OpenBrace \in Chars /\ CloseBrace \in Chars
  /\ Percent # OpenBrace /\ Percent # CloseBrace /\ OpenBrace # CloseBrace
<1>1. Percent # OpenBrace /\ Percent # CloseBrace /\ OpenBrace # CloseBrace
  BY Zenon DEF Percent, OpenBrace, CloseBrace
<1> QED
  BY <1>1 DEF Chars

\* r is the sequence s over S with e behind it
EndsAs(r, S, s, e) ==
  /\ r \in Seq(S) /\ r # <<>> /\ Len(r) = Len(s) + 1 /\ Len(s) \in Nat
  /\ r[Len(s) + 1] = e /\ \A x \in 1 .. Len(s) : r[x] = s[x]
  /\ Last(r) = e /\ Front(r) = s

\* Putting an element behind a sequence
LEMMA AppendItem ==
  ASSUME NEW S, NEW s \in Seq(S), NEW e \in S, NEW r, r = Append(s, e)
  PROVE  EndsAs(r, S, s, e)
<1>1. PICK n \in Nat : n = Len(s)
  BY LenProperties
<1>2. r \in Seq(S) /\ Len(r) = n + 1 /\ r[n + 1] = e /\ \A x \in 1 .. n : r[x] = s[x]
  BY <1>1, AppendProperties
<1>3. r # <<>>
  BY <1>2, EmptySeq
<1>4. Last(r) = e
  BY <1>2 DEF Last
<1>5. Front(r) = s
  <2>1. Front(r) = SubSeq(r, 1, n)
    BY <1>2 DEF Front
  <2>2. \A x \in 1 .. n : r[x] \in S
    BY <1>1, <1>2, ElementOfSeq
  <2>3. PICK g : g = SubSeq(r, 1, n)
    OBVIOUS
  <2>4. g \in Seq(S) /\ Len(g) = n /\ \A x \in 1 .. n : g[x] = r[x]
    <3>1. /\ SubSeq(r, 1, n) \in Seq(S) /\ Len(SubSeq(r, 1, n)) = n - 1 + 1
          /\ \A x \in 1 .. n - 1 + 1 : SubSeq(r, 1, n)[x] = r[1 + x - 1]
      BY <1>2, PartOf
    <3>2. n - 1 + 1 = n /\ \A x \in 1 .. n : 1 + x - 1 = x
      OBVIOUS
    <3> QED
      BY <2>3, <3>1, <3>2
  <2>5. g = s
    BY <1>1, <1>2, <2>4, SeqEqual
  <2> QED
    BY <2>1, <2>3, <2>5
<1> QED
  BY <1>1, <1>2, <1>3, <1>4, <1>5 DEF EndsAs

\* The same, spelt out
LEMMA AppendEnds ==
  ASSUME NEW S, NEW s \in Seq(S), NEW e \in S, NEW r, r = Append(s, e)
  PROVE  /\ r \in Seq(S) /\ r # <<>> /\ Len(r) = Len(s) + 1 /\ Len(s) \in Nat
         /\ r[Len(s) + 1] = e /\ \A x \in 1 .. Len(s) : r[x] = s[x]
         /\ Last(r) = e /\ Front(r) = s
<1>1. EndsAs(r, S, s, e)
  BY AppendItem, Zenon
<1> QED
  BY <1>1 DEF EndsAs

\* The characters of a token: which kinds there are, and what they are made of
LEMMA TokenFacts ==
  ASSUME NEW tok \in Tokens
  PROVE  /\ tok.name \in Seq(Chars) /\ tok.fmt \in Seq(Chars)
         /\ tok.kind \in {"char", "percent", "name", "braced", "unclosed"}
         /\ tok.kind = "char" => \E c \in Chars \ {Percent} : tok.name = <<c>>
         /\ tok.kind = "percent" => tok.name = <<Percent>>
         /\ tok.kind \in {"name", "braced", "unclosed"} =>
              tok.name \in Seq(Letters) /\ Len(tok.name) \in Nat \ {0}
         /\ tok.kind \in {"braced", "unclosed"} =>
              tok.fmt \in Seq(Chars \ {CloseBrace}) /\ Len(tok.fmt) \in Nat
         /\ tok.kind = "name" => tok.fmt = <<>>
<1>1. <<>> \in Seq(Chars) /\ Percent \in Chars
  BY EmptySeq DEF Chars
<1>2. \A c \in Chars : <<c>> \in Seq(Chars)
  OBVIOUS
<1>3. \A f \in Formats : f \in Seq(Chars \ {CloseBrace}) /\ f \in Seq(Chars) /\ Len(f) \in Nat
  <2> SUFFICES ASSUME NEW f \in Formats
               PROVE  f \in Seq(Chars \ {CloseBrace}) /\ f \in Seq(Chars) /\ Len(f) \in Nat
    OBVIOUS
  <2>1. f \in Seq(Chars \ {CloseBrace}) /\ Chars \ {CloseBrace} \subseteq Chars
    BY FormatterAssumption
  <2> QED
    BY <2>1, SeqMonotonic, LenProperties
<1>4. \A m \in ItemNames : m \in Seq(Letters) /\ m \in Seq(Chars) /\ Len(m) \in Nat \ {0}
  <2> SUFFICES ASSUME NEW m \in ItemNames
               PROVE  m \in Seq(Letters) /\ m \in Seq(Chars) /\ Len(m) \in Nat \ {0}
    OBVIOUS
  <2>1. m \in Seq(Letters) /\ m # <<>> /\ Letters \subseteq Chars
    BY FormatterAssumption DEF Chars
  <2> QED
    BY <2>1, SeqMonotonic, EmptySeq
<1>5. CASE tok \in [kind : {"char"}, name : {<<c>> : c \in Chars \ {Percent}}, fmt : {<<>>}]
  <2>1. tok.kind = "char" /\ tok.fmt = <<>>
    BY <1>5
  <2>2. PICK c \in Chars \ {Percent} : tok.name = <<c>>
    BY <1>5
  <2> QED
    BY <1>1, <1>2, <2>1, <2>2
<1>6. CASE tok \in [kind : {"percent"}, name : {<<Percent>>}, fmt : {<<>>}]
  <2>1. tok.kind = "percent" /\ tok.name = <<Percent>> /\ tok.fmt = <<>>
    BY <1>6
  <2> QED
    BY <1>1, <1>2, <2>1
<1>7. CASE tok \in [kind : {"name"}, name : ItemNames, fmt : {<<>>}]
  <2>1. tok.kind = "name" /\ tok.name \in ItemNames /\ tok.fmt = <<>>
    BY <1>7
  <2> QED
    BY <1>1, <1>4, <2>1
<1>8. CASE tok \in [kind : {"braced", "unclosed"}, name : ItemNames, fmt : Formats]
  <2>1. tok.kind \in {"braced", "unclosed"} /\ tok.name \in ItemNames /\ tok.fmt \in Formats
    BY <1>8
  <2> QED
    BY <1>3, <1>4, <2>1
<1> QED
  BY <1>5, <1>6, <1>7, <1>8 DEF Tokens

\* A directive up to its closing brace
Opening(name, fmt) == <<Percent>> \o name \o <<OpenBrace>> \o fmt

\* r is such a beginning, of a name of m characters and a format of l
Opened(r, name, m, fmt, l) ==
  /\ m \in Nat \ {0} /\ l \in Nat /\ r \in Seq(Chars) /\ Len(r) = m + l + 2
  /\ r[1] = Percent /\ r[m + 2] = OpenBrace
  /\ \A j \in 1 .. m : r[1 + j] = name[j]
  /\ \A j \in 1 .. l : r[m + 2 + j] = fmt[j]

\* Where the parts of the beginning of a directive are
LEMMA OpenFacts ==
  ASSUME NEW name \in Seq(Chars), NEW fmt \in Seq(Chars),
         NEW m \in Nat, m # 0, m = Len(name), NEW l \in Nat, l = Len(fmt),
         NEW r, r = Opening(name, fmt)
  PROVE  Opened(r, name, m, fmt, l)
<1>1. PICK v \in Seq(Chars) : v = <<Percent>> /\ Len(v) = 1 /\ v[1] = Percent
  BY Single, Marks
<1>2. PICK b \in Seq(Chars) : b = <<OpenBrace>> /\ Len(b) = 1 /\ b[1] = OpenBrace
  BY Single, Marks
<1>3. PICK o \in Nat : o = 1 /\ o = Len(v) /\ o = Len(b)
  BY <1>1, <1>2
<1>4. PICK s : s = v \o name
  OBVIOUS
<1>5. Joined(s, v, o, name, m)
  BY <1>3, <1>4, Join, Zenon
<1>6. PICK n \in Nat : n = 1 + m
  OBVIOUS
<1>7. s \in Seq(Chars) /\ n = Len(s)
  BY <1>3, <1>5, <1>6 DEF Joined
<1>8. PICK u : u = s \o b
  OBVIOUS
<1>9. Joined(u, s, n, b, o)
  BY <1>3, <1>7, <1>8, Join, Zenon
<1>10. PICK q \in Nat : q = n + 1
  OBVIOUS
<1>11. u \in Seq(Chars) /\ q = Len(u)
  BY <1>3, <1>9, <1>10 DEF Joined
<1>12. r = u \o fmt
  BY <1>1, <1>2, <1>4, <1>8, Zenon DEF Opening
<1>13. Joined(r, u, q, fmt, l)
  BY <1>11, <1>12, Join, Zenon
<1>14. 1 \in 1 .. o /\ 1 \in 1 .. n /\ 1 \in 1 .. q /\ n + 1 \in 1 .. q /\ m + 2 = n + 1
  BY <1>3, <1>6, <1>10
<1>15. r[1] = Percent
  <2>1. r[1] = u[1] /\ u[1] = s[1] /\ s[1] = v[1]
    BY <1>5, <1>9, <1>13, <1>14 DEF Joined
  <2> QED
    BY <1>1, <2>1
<1>16. r[m + 2] = OpenBrace
  <2>1. r[n + 1] = u[n + 1] /\ u[n + 1] = b[1]
    BY <1>3, <1>9, <1>13, <1>14 DEF Joined
  <2> QED
    BY <1>2, <1>14, <2>1
<1>17. ASSUME NEW j \in 1 .. m PROVE r[1 + j] = name[j]
  <2>1. 1 + j \in 1 .. n /\ 1 + j \in 1 .. q /\ 1 + j = o + j
    BY <1>3, <1>6, <1>10
  <2>2. r[1 + j] = u[1 + j] /\ u[1 + j] = s[1 + j] /\ s[o + j] = name[j]
    BY <1>5, <1>9, <1>13, <2>1 DEF Joined
  <2> QED
    BY <2>1, <2>2
<1>18. ASSUME NEW j \in 1 .. l PROVE r[m + 2 + j] = fmt[j]
  <2>1. m + 2 + j = q + j
    BY <1>6, <1>10
  <2>2. r[q + j] = fmt[j]
    BY <1>13 DEF Joined
  <2> QED
    BY <2>1, <2>2
<1>19. r \in Seq(Chars) /\ Len(r) = m + l + 2
  BY <1>6, <1>10, <1>13 DEF Joined
<1> QED
  BY <1>15, <1>16, <1>17, <1>18, <1>19 DEF Opened

\* A character is written as itself
LEMMA RenderChar ==
  ASSUME NEW tok \in Tokens, tok.kind = "char", NEW r, r = Render(tok)
  PROVE  r \in Seq(Chars) /\ Len(r) = 1 /\ r[1] # Percent /\ tok.name = <<r[1]>> /\ r[1] \in Chars
<1>1. PICK c \in Chars \ {Percent} : tok.name = <<c>>
  BY TokenFacts
<1>2. r = <<c>>
  BY <1>1 DEF Render
<1>3. r \in Seq(Chars) /\ Len(r) = 1 /\ r[1] = c
  BY <1>2
<1> QED
  BY <1>1, <1>3

\* r is the beginning u and a closing brace
Closed(r, name, m, fmt, l) ==
  /\ m \in Nat \ {0} /\ l \in Nat /\ r \in Seq(Chars) /\ Len(r) = m + l + 3
  /\ r[1] = Percent /\ r[m + 2] = OpenBrace /\ r[m + l + 3] = CloseBrace
  /\ \A j \in 1 .. m : r[1 + j] = name[j]
  /\ \A j \in 1 .. l : r[m + 2 + j] = fmt[j]

\* v is the text of the character c alone
OneChar(v, c) == v \in Seq(Chars) /\ Len(v) = 1 /\ v[1] = c

\* A closing brace behind such a beginning
LEMMA CloseFacts ==
  ASSUME NEW name, NEW m \in Nat, m # 0, NEW fmt, NEW l \in Nat, NEW u, Opened(u, name, m, fmt, l),
         NEW v, OneChar(v, CloseBrace), NEW r, r = u \o v
  PROVE  Closed(r, name, m, fmt, l)
<1>1. v \in Seq(Chars) /\ Len(v) = 1 /\ v[1] = CloseBrace
  BY DEF OneChar
<1>2. PICK o \in Nat : o = 1 /\ o = Len(v)
  BY <1>1
<1>3. u \in Seq(Chars) /\ Len(u) = m + l + 2
  BY DEF Opened
<1>4. PICK n : n = m + l + 2
  OBVIOUS
<1>5. n \in Nat /\ n + 1 = m + l + 3 /\ 1 \in 1 .. n /\ m + 2 \in 1 .. n /\ 1 \in 1 .. o
  BY <1>2, <1>4
<1>6. n = Len(u)
  BY <1>3, <1>4
<1>7. Joined(r, u, n, v, o)
  BY <1>1, <1>2, <1>3, <1>5, <1>6, Join, Zenon
<1>8. r[1] = Percent /\ r[m + 2] = OpenBrace
  BY <1>5, <1>7 DEF Joined, Opened
<1>9. ASSUME NEW j \in 1 .. m PROVE r[1 + j] = name[j]
  <2>1. 1 + j \in 1 .. n
    BY <1>4
  <2> QED
    BY <1>7, <2>1 DEF Joined, Opened
<1>10. ASSUME NEW j \in 1 .. l PROVE r[m + 2 + j] = fmt[j]
  <2>1. m + 2 + j \in 1 .. n
    BY <1>4
  <2> QED
    BY <1>7, <2>1 DEF Joined, Opened
<1>11. r \in Seq(Chars) /\ Len(r) = n + 1 /\ r[n + 1] = CloseBrace
  BY <1>1, <1>2, <1>5, <1>7 DEF Joined
<1> QED
  BY <1>3, <1>5, <1>8, <1>9, <1>10, <1>11 DEF Closed

\* r is a % and a name of m characters
Named(r, name, m) ==
  /\ m \in Nat \ {0} /\ r \in Seq(Chars) /\ Len(r) = 1 + m /\ r[1] = Percent
  /\ \A j \in 1 .. m : r[1 + j] = name[j]

\* %xxx
LEMMA RenderName ==
  ASSUME NEW tok \in Tokens, tok.kind = "name", NEW r, r = Render(tok),
         NEW name, name = tok.name, NEW m, m = Len(name)
  PROVE  Named(r, name, m)
<1>1. m \in Nat /\ m # 0 /\ name \in Seq(Chars)
  BY TokenFacts
<1>2. PICK v \in Seq(Chars) : v = <<Percent>> /\ Len(v) = 1 /\ v[1] = Percent
  BY Single, Marks
<1>3. r = v \o name
  BY <1>2 DEF Render
<1>4. PICK o \in Nat : o = 1 /\ o = Len(v)
  BY <1>2
<1>5. Joined(r, v, o, name, m)
  BY <1>1, <1>3, <1>4, Join, Zenon
<1>6. v[1] = Percent /\ o = 1
  BY <1>2, <1>4
<1>7. r \in Seq(Chars) /\ Len(r) = 1 + m /\ r[1] = v[1] /\ \A j \in 1 .. m : r[1 + j] = name[j]
  BY <1>5, <1>6 DEF Joined
<1> QED
  BY <1>1, <1>6, <1>7 DEF Named

\* %xxx{xxx without the closing brace
LEMMA RenderUnclosed ==
  ASSUME NEW tok \in Tokens, tok.kind = "unclosed", NEW r, r = Render(tok),
         NEW name, name = tok.name, NEW fmt, fmt = tok.fmt,
         NEW m, m = Len(name), NEW l, l = Len(fmt)
  PROVE  Opened(r, name, m, fmt, l)
<1>1. m \in Nat /\ m # 0 /\ l \in Nat /\ name \in Seq(Chars) /\ fmt \in Seq(Chars)
  BY TokenFacts
<1>2. r = Opening(name, fmt)
  BY DEF Render, Opening
<1> QED
  BY <1>1, <1>2, OpenFacts, Zenon

\* %xxx{xxx}
LEMMA RenderBraced ==
  ASSUME NEW tok \in Tokens, tok.kind = "braced", NEW r, r = Render(tok),
         NEW name, name = tok.name, NEW fmt, fmt = tok.fmt,
         NEW m, m = Len(name), NEW l, l = Len(fmt)
  PROVE  Closed(r, name, m, fmt, l)
<1>1. m \in Nat /\ m # 0 /\ l \in Nat /\ name \in Seq(Chars) /\ fmt \in Seq(Chars)
  BY TokenFacts
<1>2. PICK u : u = Opening(name, fmt)
  OBVIOUS
<1>3. Opened(u, name, m, fmt, l)
  BY <1>1, <1>2, OpenFacts, Zenon
<1>4. PICK v : v = <<CloseBrace>> /\ OneChar(v, CloseBrace)
  BY Single, Marks DEF OneChar
<1>5. r = u \o v
  BY <1>2, <1>4 DEF Render, Opening
<1> QED
  BY <1>1, <1>3, <1>4, <1>5, CloseFacts, Zenon

\* A token is written with at least one character, a % unless it is text
LEMMA RenderFirst ==
  ASSUME NEW tok \in Tokens, NEW r, r = Render(tok)
  PROVE  r \in Seq(Chars) /\ Len(r) \in Nat \ {0} /\ (tok.kind # "char" => r[1] = Percent)
<1>1. PICK name, m : name = tok.name /\ m = Len(name)
  OBVIOUS
<1>2. PICK fmt, l : fmt = tok.fmt /\ l = Len(fmt)
  OBVIOUS
<1>3. CASE tok.kind = "char"
  BY <1>3, RenderChar
<1>4. CASE tok.kind = "percent"
  <2>1. r = <<Percent, Percent>>
    BY <1>4 DEF Render
  <2>2. r \in Seq(Chars) /\ Len(r) = 2 /\ r[1] = Percent
    BY <2>1 DEF Chars
  <2> QED
    BY <2>2
<1>5. CASE tok.kind = "name"
  <2>1. Named(r, name, m)
    BY <1>1, <1>5, RenderName, Zenon
  <2> QED
    BY <2>1 DEF Named
<1>6. CASE tok.kind = "unclosed"
  <2>1. Opened(r, name, m, fmt, l)
    BY <1>1, <1>2, <1>6, RenderUnclosed, Zenon
  <2>2. m \in Nat /\ l \in Nat /\ r \in Seq(Chars) /\ r[1] = Percent
    BY <2>1 DEF Opened
  <2>3. Len(r) = m + l + 2
    BY <2>1 DEF Opened
  <2>4. m + l + 2 \in Nat \ {0}
    BY <2>2
  <2> QED
    BY <2>2, <2>3, <2>4, Zenon
<1>7. CASE tok.kind = "braced"
  <2>1. Closed(r, name, m, fmt, l)
    BY <1>1, <1>2, <1>7, RenderBraced, Zenon
  <2>2. m \in Nat /\ l \in Nat /\ r \in Seq(Chars) /\ r[1] = Percent
    BY <2>1 DEF Closed
  <2>3. Len(r) = m + l + 3
    BY <2>1 DEF Closed
  <2>4. m + l + 3 \in Nat \ {0}
    BY <2>2
  <2> QED
    BY <2>2, <2>3, <2>4, Zenon
<1> QED
  BY <1>3, <1>4, <1>5, <1>6, <1>7, TokenFacts

-----------------------------------------------------------------------------
(* Writing.                                                                 *)

\* An entry of text and one of a directive are different
LEMMA ItemFacts ==
  ASSUME NEW name \in Seq(Chars), NEW fmt \in Seq(Chars)
  PROVE  /\ Text(name) \in Items /\ ~Unknown(Text(name)) /\ Text(name).kind = "text"
         /\ Text(name).name = name
         /\ Directive(name, fmt) \in Items /\ Directive(name, fmt).kind # "text"
         /\ Unknown(Directive(name, fmt)) <=> name \notin Keys
<1>1. <<>> \in Seq(Chars)
  BY EmptySeq
<1> QED
  BY <1>1 DEF Items, Text, Directive, Unknown

\* An item behind the others
LEMMA UnknownBehind ==
  ASSUME NEW items \in Seq(Items), NEW e \in Items
  PROVE  AnyUnknown(Append(items, e)) <=> AnyUnknown(items) \/ Unknown(e)
<1>1. PICK n \in Nat : n = Len(items)
  BY LenProperties
<1>2. PICK r : r = Append(items, e)
  OBVIOUS
<1>3. Len(r) = n + 1 /\ r[n + 1] = e /\ \A x \in 1 .. n : r[x] = items[x]
  BY <1>1, <1>2, AppendEnds
<1>4. ASSUME NEW x \in 1 .. n + 1, Unknown(r[x])
      PROVE  (\E y \in 1 .. n : Unknown(items[y])) \/ Unknown(e)
  <2>1. CASE x = n + 1
    BY <1>3, <1>4, <2>1
  <2>2. CASE x # n + 1
    <3>1. x \in 1 .. n
      BY <2>2
    <3> QED
      BY <1>3, <1>4, <3>1
  <2> QED
    BY <2>1, <2>2
<1>5. ASSUME NEW x \in 1 .. n, Unknown(items[x]) PROVE \E y \in 1 .. n + 1 : Unknown(r[y])
  <2>1. x \in 1 .. n + 1 /\ Unknown(r[x])
    BY <1>3, <1>5
  <2> QED
    BY <2>1
<1>6. ASSUME Unknown(e) PROVE \E y \in 1 .. n + 1 : Unknown(r[y])
  <2>1. n + 1 \in 1 .. n + 1 /\ Unknown(r[n + 1])
    BY <1>3, <1>6
  <2> QED
    BY <2>1
<1> QED
  BY <1>1, <1>2, <1>3, <1>4, <1>5, <1>6 DEF AnyUnknown

\* The last item taken off, and put back
LEMMA LastOff ==
  ASSUME NEW items \in Seq(Items), items # <<>>
  PROVE  /\ Front(items) \in Seq(Items) /\ Last(items) \in Items
         /\ items = Append(Front(items), Last(items))
<1>1. PICK n \in Nat : n = Len(items) /\ n # 0
  BY EmptySeq
<1>2. n - 1 \in Nat /\ n - 1 <= Len(items) /\ n - 1 - 1 + 1 = n - 1 /\ n \in 1 .. n
  BY <1>1
<1>3. PICK f : f = Front(items)
  OBVIOUS
<1>4. f = SubSeq(items, 1, n - 1)
  BY <1>1, <1>3 DEF Front
<1>5. PICK m \in Nat : m = n - 1
  BY <1>2
<1>6. f \in Seq(Items) /\ Len(f) = m /\ \A x \in 1 .. m : f[x] = items[x]
  <2>1. m <= Len(items) /\ 1 <= m + 1
    BY <1>1, <1>5
  <2>2. /\ SubSeq(items, 1, m) \in Seq(Items) /\ Len(SubSeq(items, 1, m)) = m - 1 + 1
        /\ \A x \in 1 .. m - 1 + 1 : SubSeq(items, 1, m)[x] = items[1 + x - 1]
    BY <2>1, PartOf
  <2>3. m - 1 + 1 = m /\ \A x \in 1 .. m : 1 + x - 1 = x
    OBVIOUS
  <2> QED
    BY <1>4, <1>5, <2>2, <2>3
<1>7. Last(items) = items[n] /\ items[n] \in Items
  BY <1>1, <1>2, ElementOfSeq DEF Last
<1>8. PICK r : r = Append(f, items[n])
  OBVIOUS
<1>9. r \in Seq(Items) /\ Len(r) = m + 1 /\ r[m + 1] = items[n] /\ \A x \in 1 .. m : r[x] = f[x]
  BY <1>6, <1>7, <1>8, AppendEnds
<1>10. r = items
  <2>1. Len(r) = Len(items)
    BY <1>1, <1>5, <1>9
  <2>2. ASSUME NEW x \in 1 .. n PROVE r[x] = items[x]
    <3>1. CASE x = n
      BY <1>5, <1>9, <3>1
    <3>2. CASE x # n
      <4>1. x \in 1 .. m
        BY <1>5, <3>2
      <4> QED
        BY <1>6, <1>9, <4>1
    <3> QED
      BY <3>1, <3>2
  <2> QED
    BY <1>1, <1>9, <2>1, <2>2, SeqEqual
<1> QED
  BY <1>3, <1>6, <1>7, <1>8, <1>10

\* What is meant with a token more: items, and unknown names exactly when the
\* token or one before it has one
LEMMA AddFacts ==
  ASSUME NEW items \in Seq(Items), NEW tok \in Tokens
  PROVE  /\ Add(items, tok) \in Seq(Items)
         /\ AnyUnknown(Add(items, tok)) <=> AnyUnknown(items) \/ WrongName(tok)
<1>1. PICK name \in Seq(Chars) : name = tok.name
  BY TokenFacts
<1>2. PICK fmt \in Seq(Chars) : fmt = tok.fmt
  BY TokenFacts
<1>3. CASE tok.kind \in {"char", "percent"} /\ EndsInText(items)
  <2>1. items # <<>> /\ Last(items).kind = "text"
    BY <1>3 DEF EndsInText
  <2>2. PICK f \in Seq(Items), l \in Items : f = Front(items) /\ l = Last(items) /\ items = Append(f, l)
    BY <2>1, LastOff
  <2>3. l.name \o name \in Seq(Chars)
    BY ConcatProperties DEF Items
  <2>4. PICK t \in Items : t = Text(l.name \o name) /\ ~Unknown(t)
    BY <2>3, ItemFacts
  <2>5. Add(items, tok) = Append(f, t)
    BY <1>1, <1>3, <2>2, <2>4 DEF Add
  <2>6. Append(f, t) \in Seq(Items)
    BY AppendProperties
  <2>7. ~Unknown(l)
    BY <2>1, <2>2 DEF Unknown
  <2>8. AnyUnknown(Append(f, t)) <=> AnyUnknown(items)
    <3>1. AnyUnknown(Append(f, t)) <=> AnyUnknown(f)
      BY <2>4, UnknownBehind
    <3>2. AnyUnknown(Append(f, l)) <=> AnyUnknown(f)
      BY <2>7, UnknownBehind
    <3> QED
      BY <2>2, <3>1, <3>2
  <2>9. ~WrongName(tok)
    BY <1>3 DEF WrongName
  <2> QED
    BY <2>5, <2>6, <2>8, <2>9
<1>4. CASE tok.kind \in {"char", "percent"} /\ ~EndsInText(items)
  <2>1. PICK t \in Items : t = Text(name) /\ ~Unknown(t)
    BY ItemFacts
  <2>2. Add(items, tok) = Append(items, t)
    BY <1>1, <1>4, <2>1 DEF Add
  <2>3. ~WrongName(tok)
    BY <1>4 DEF WrongName
  <2> QED
    BY <2>1, <2>2, <2>3, UnknownBehind, AppendProperties
<1>5. CASE tok.kind \in {"name", "braced"}
  <2>1. PICK d \in Items : d = Directive(name, fmt) /\ (Unknown(d) <=> name \notin Keys)
    BY <1>2, ItemFacts
  <2>2. Add(items, tok) = Append(items, d)
    BY <1>1, <1>2, <1>5, <2>1 DEF Add
  <2>3. WrongName(tok) <=> Unknown(d)
    BY <1>1, <1>5, <2>1 DEF WrongName
  <2> QED
    BY <2>1, <2>2, <2>3, UnknownBehind, AppendProperties
<1>6. CASE tok.kind = "unclosed"
  <2>1. Add(items, tok) = items
    BY <1>6 DEF Add
  <2>2. ~WrongName(tok)
    BY <1>6 DEF WrongName
  <2> QED
    BY <2>1, <2>2
<1> QED
  BY <1>3, <1>4, <1>5, <1>6, TokenFacts

\* What stands in a pattern still stands when it grows
LEMMA StandsOn ==
  ASSUME NEW p, NEW n \in Nat, n = Len(p), NEW t, NEW l \in Nat, NEW q, Joined(q, p, n, t, l),
         NEW a \in Nat, NEW r \in Seq(Chars), Stands(p, a, r)
  PROVE  Stands(q, a, r)
<1>1. PICK m \in Nat : m = Len(r)
  BY LenProperties
<1>2. a + m <= n /\ Len(q) = n + l
  BY <1>1 DEF Stands, Joined
<1>3. ASSUME NEW j \in 1 .. m PROVE q[a + j] = r[j]
  <2>1. a + j \in 1 .. n
    BY <1>2
  <2>2. q[a + j] = p[a + j]
    BY <2>1 DEF Joined
  <2>3. p[a + j] = r[j]
    BY <1>1 DEF Stands
  <2> QED
    BY <2>2, <2>3
<1>4. a + m <= Len(q)
  BY <1>2
<1> QED
  BY <1>1, <1>3, <1>4 DEF Stands

\* What an entry holds
LEMMA EntryFacts ==
  ASSUME NEW w \in Seq(Entries), NEW k \in 1 .. Len(w)
  PROVE  w[k].tok \in Tokens /\ w[k].end \in Nat /\ w[k].items \in Seq(Items)
<1>1. w[k] \in Entries
  BY ElementOfSeq
<1> QED
  BY <1>1 DEF Entries

\* The entries before the first and behind the k-th
LEMMA UptoFacts ==
  ASSUME NEW w \in Seq(Entries), NEW k \in 0 .. Len(w)
  PROVE  EndOf(w, k) \in Nat /\ MeantOf(w, k) \in Seq(Items)
<1>1. CASE k = 0
  BY <1>1, EmptySeq DEF EndOf, MeantOf
<1>2. CASE k # 0
  <2>1. PICK n \in Nat : n = Len(w)
    BY LenProperties
  <2>2. k \in 1 .. n
    BY <1>2, <2>1
  <2> QED
    BY <1>2, <2>1, <2>2, EntryFacts DEF EndOf, MeantOf
<1> QED
  BY <1>1, <1>2

\* A token more, written behind the others
LEMMA WriteKeeps ==
  ASSUME NEW p, NEW w, WriteOK(p, w), NEW tok \in Tokens,
         w # <<>> => Separate(Last(w).tok, tok),
         NEW q, q = p \o Render(tok),
         NEW items, items = Add(IF w = <<>> THEN <<>> ELSE Last(w).items, tok),
         NEW e, e = [tok |-> tok, end |-> Len(q), items |-> items],
         NEW v, v = Append(w, e)
  PROVE  WriteOK(q, v) /\ e \in Entries
<1>1. p \in Seq(Chars) /\ w \in Seq(Entries)
  BY DEF WriteOK
<1>2. PICK n \in Nat : n = Len(w)
  BY <1>1, LenProperties
<1>3. PICK s \in Nat : s = Len(p)
  BY <1>1, LenProperties
<1>4. PICK r \in Seq(Chars) : r = Render(tok)
  BY RenderFirst
<1>5. PICK l \in Nat : l = Len(r)
  BY LenProperties
<1>6. Joined(q, p, s, r, l)
  BY <1>1, <1>3, <1>4, <1>5, Join, Zenon
<1>7. q \in Seq(Chars) /\ Len(q) = s + l
  BY <1>6 DEF Joined
<1>8. n = 0 <=> w = <<>>
  BY <1>1, <1>2, EmptySeq
<1>9. Last(w) = w[n]
  BY <1>2 DEF Last
<1>10. items = Add(MeantOf(w, n), tok)
  BY <1>8, <1>9 DEF MeantOf
<1>11. MeantOf(w, n) \in Seq(Items) /\ s = EndOf(w, n)
  <2>1. n \in 0 .. n
    OBVIOUS
  <2> QED
    BY <1>1, <1>2, <1>3, <2>1, UptoFacts DEF WriteOK
<1>12. items \in Seq(Items) /\ (AnyUnknown(items) <=> AnyUnknown(MeantOf(w, n)) \/ WrongName(tok))
  BY <1>10, <1>11, AddFacts
<1>13. e \in Entries /\ e.tok = tok /\ e.end = s + l /\ e.items = items
  BY <1>7, <1>12 DEF Entries
<1>14. /\ v \in Seq(Entries) /\ Len(v) = n + 1 /\ v[n + 1] = e
       /\ \A k \in 1 .. n : v[k] = w[k]
  BY <1>1, <1>2, <1>13, AppendEnds
<1>15. \A k \in 0 .. n : EndOf(v, k) = EndOf(w, k) /\ MeantOf(v, k) = MeantOf(w, k)
  BY <1>14 DEF EndOf, MeantOf
<1>16. EndOf(v, n + 1) = s + l /\ MeantOf(v, n + 1) = items
  BY <1>13, <1>14 DEF EndOf, MeantOf
<1>17. n \in 0 .. n /\ (n + 1) - 1 = n /\ EndOf(v, n) = s
  BY <1>11, <1>15
<1>18. Placed(q, v, n + 1)
  <2>1. \A j \in 1 .. l : q[s + j] = r[j]
    BY <1>6 DEF Joined
  <2>2. Stands(q, s, r)
    BY <1>5, <1>7, <2>1 DEF Stands
  <2> QED
    BY <1>4, <1>5, <1>13, <1>14, <1>16, <1>17, <2>2 DEF Placed
<1>19. ASSUME NEW k \in 1 .. n PROVE Placed(q, v, k)
  <2>1. k \in 0 .. n /\ k - 1 \in 0 .. n
    OBVIOUS
  <2>2. Placed(p, w, k)
    BY <1>2 DEF WriteOK
  <2>3. PICK u \in Seq(Chars) : u = Render(w[k].tok)
    BY <1>1, <1>2, EntryFacts, RenderFirst
  <2>4. EndOf(w, k - 1) \in Nat
    BY <1>1, <1>2, <2>1, UptoFacts
  <2>5. Stands(q, EndOf(w, k - 1), u)
    <3>1. Stands(p, EndOf(w, k - 1), u)
      BY <2>2, <2>3 DEF Placed
    <3> QED
      BY <1>3, <1>6, <2>4, <3>1, StandsOn
  <2> QED
    BY <1>14, <1>15, <2>1, <2>2, <2>3, <2>5 DEF Placed
<1>20. ASSUME NEW k \in 1 .. n PROVE Recorded(v, k)
  <2>1. k \in 0 .. n /\ k - 1 \in 0 .. n /\ \A j \in 1 .. k : j \in 1 .. n
    OBVIOUS
  <2>2. Recorded(w, k)
    BY <1>2 DEF WriteOK
  <2> QED
    BY <1>14, <1>15, <2>1, <2>2 DEF Recorded
<1>21. Recorded(v, n + 1)
  <2>1. MeantOf(v, n + 1) = Add(MeantOf(v, n), v[n + 1].tok)
    BY <1>10, <1>13, <1>14, <1>15, <1>16, <1>17
  <2>2. AnyUnknown(MeantOf(w, n)) <=> \E j \in 1 .. n : WrongName(w[j].tok)
    <3>1. CASE n = 0
      <4>1. MeantOf(w, n) = <<>> /\ Len(<<>>) = 0
        BY <3>1, EmptySeq DEF MeantOf
      <4> QED
        BY <3>1, <4>1 DEF AnyUnknown
    <3>2. CASE n # 0
      <4>1. n \in 1 .. n
        BY <3>2
      <4> QED
        BY <1>2, <4>1 DEF WriteOK, Recorded
    <3> QED
      BY <3>1, <3>2
  <2>3. (\E j \in 1 .. n + 1 : WrongName(v[j].tok)) <=>
          (\E j \in 1 .. n : WrongName(w[j].tok)) \/ WrongName(tok)
    <3>1. ASSUME NEW j \in 1 .. n + 1, WrongName(v[j].tok)
          PROVE  (\E i \in 1 .. n : WrongName(w[i].tok)) \/ WrongName(tok)
      <4>1. CASE j = n + 1
        BY <1>13, <1>14, <3>1, <4>1
      <4>2. CASE j # n + 1
        <5>1. j \in 1 .. n
          BY <4>2
        <5> QED
          BY <1>14, <3>1, <5>1
      <4> QED
        BY <4>1, <4>2
    <3>2. \A j \in 1 .. n : j \in 1 .. n + 1 /\ v[j].tok = w[j].tok
      BY <1>14
    <3>3. n + 1 \in 1 .. n + 1 /\ v[n + 1].tok = tok
      BY <1>13, <1>14
    <3> QED
      BY <3>1, <3>2, <3>3
  <2> QED
    BY <1>12, <1>16, <1>17, <2>1, <2>2, <2>3 DEF Recorded
<1>22. ASSUME NEW k \in 1 .. n + 1, k < n + 1 PROVE Separate(v[k].tok, v[k + 1].tok)
  <2>1. CASE k = n
    BY <1>8, <1>9, <1>13, <1>14, <2>1
  <2>2. CASE k # n
    <3>1. k \in 1 .. n /\ k + 1 \in 1 .. n /\ k < n
      BY <1>22, <2>2
    <3> QED
      BY <1>2, <1>14, <3>1 DEF WriteOK
  <2> QED
    BY <2>1, <2>2
<1>23. ASSUME NEW k \in 1 .. n + 1 PROVE Placed(q, v, k) /\ Recorded(v, k)
  <2>1. CASE k = n + 1
    BY <1>18, <1>21, <2>1
  <2>2. CASE k # n + 1
    <3>1. k \in 1 .. n
      BY <2>2
    <3> QED
      BY <1>19, <1>20, <3>1
  <2> QED
    BY <2>1, <2>2
<1> QED
  BY <1>7, <1>14, <1>16, <1>22, <1>23 DEF WriteOK

-----------------------------------------------------------------------------
(* Scanning.                                                                *)

\* FirstFrom() is the only position that is first
LEMMA FirstIs ==
  ASSUME NEW n \in Nat, NEW len \in Nat, len = Len(m_pattern), NEW S, NEW k \in n .. len + 1,
         k <= len => m_pattern[k] \in S, \A j \in n .. k - 1 : m_pattern[j] \notin S
  PROVE  FirstFrom(n, S) = k
<1> DEFINE P(x) == /\ x <= len => m_pattern[x] \in S
                   /\ \A j \in n .. x - 1 : m_pattern[j] \notin S
<1>1. P(k)
  OBVIOUS
<1>2. ASSUME NEW x \in n .. len + 1, P(x) PROVE x = k
  <2>1. CASE x < k
    <3>1. x \in n .. k - 1 /\ x <= len
      BY <2>1
    <3> QED
      BY <1>2, <3>1
  <2>2. CASE k < x
    <3>1. k \in n .. x - 1 /\ k <= len
      BY <2>2
    <3> QED
      BY <1>2, <3>1
  <2> QED
    BY <2>1, <2>2
<1>3. FirstFrom(n, S) = CHOOSE x \in n .. len + 1 : P(x)
  BY DEF FirstFrom
<1> HIDE DEF P
<1> QED
  BY <1>1, <1>2, <1>3

\* The token behind the k-th
LEMMA TokenAt ==
  ASSUME WriteOK(m_pattern, written), NEW n \in Nat, n = Len(written),
         NEW k \in 0 .. n, k < n, NEW tok, tok = written[k + 1].tok,
         NEW a, a = EndOf(written, k), NEW r, r = Render(tok)
  PROVE  /\ tok \in Tokens /\ a \in Nat /\ r \in Seq(Chars)
         /\ EndOf(written, k + 1) = a + Len(r) /\ Stands(m_pattern, a, r)
         /\ MeantOf(written, k + 1) = Add(MeantOf(written, k), tok)
         /\ MeantOf(written, k) \in Seq(Items)
<1>1. written \in Seq(Entries)
  BY DEF WriteOK
<1>2. k + 1 \in 1 .. n /\ (k + 1) - 1 = k
  OBVIOUS
<1>3. tok \in Tokens
  BY <1>1, <1>2, EntryFacts
<1>4. r \in Seq(Chars)
  BY <1>3, RenderFirst
<1>5. a \in Nat /\ MeantOf(written, k) \in Seq(Items)
  BY <1>1, UptoFacts
<1>6. Placed(m_pattern, written, k + 1) /\ Recorded(written, k + 1)
  BY <1>2 DEF WriteOK
<1> QED
  BY <1>2, <1>3, <1>4, <1>5, <1>6 DEF Placed, Recorded

\* Behind a name comes no letter and no brace
LEMMA BehindName ==
  ASSUME WriteOK(m_pattern, written), NEW n \in Nat, n = Len(written),
         NEW k \in 1 .. n, written[k].tok.kind = "name",
         NEW b \in Nat, b = EndOf(written, k), b < Len(m_pattern)
  PROVE  m_pattern[b + 1] \in Others \cup {Percent}
<1>1. k # n
  BY DEF WriteOK
<1>2. k \in 0 .. n /\ k < n /\ k \in 1 .. n
  BY <1>1
<1>3. PICK tok : tok = written[k + 1].tok
  OBVIOUS
<1>4. PICK r : r = Render(tok)
  OBVIOUS
<1>5. tok \in Tokens /\ r \in Seq(Chars) /\ Stands(m_pattern, b, r)
  BY <1>2, <1>3, <1>4, TokenAt
<1>6. PICK l \in Nat \ {0} : l = Len(r)
  BY <1>4, <1>5, RenderFirst
<1>7. m_pattern[b + 1] = r[1]
  <2>1. 1 \in 1 .. l
    BY <1>6
  <2> QED
    BY <1>5, <1>6, <2>1 DEF Stands
<1>8. CASE tok.kind = "char"
  <2>1. tok.name = <<r[1]>>
    BY <1>4, <1>5, <1>8, RenderChar
  <2>2. Separate(written[k].tok, tok)
    BY <1>2, <1>3 DEF WriteOK
  <2>3. tok.name[1] \in Others
    BY <1>8, <2>2 DEF Separate
  <2>4. tok.name[1] = r[1]
    BY <2>1
  <2> QED
    BY <1>7, <2>3, <2>4
<1>9. CASE tok.kind # "char"
  BY <1>4, <1>5, <1>7, <1>9, RenderFirst
<1> QED
  BY <1>8, <1>9

\* The pattern has m letters behind position a + 1, and then something else
NameAt(len, a, name, m) ==
  /\ a + 1 + m <= len /\ \A j \in 1 .. m : m_pattern[a + 1 + j] = name[j]
  /\ a + m + 2 <= len => m_pattern[a + m + 2] \in Others \cup {Percent, OpenBrace}

\* What is read then
NameIs(a, name, m) == NameEnd = a + m + 2 /\ Name = name /\ ~At(pos + 1, Percent)

\* Such letters are the name
LEMMA NameRead ==
  ASSUME NEW len \in Nat, len = Len(m_pattern), m_pattern \in Seq(Chars),
         NEW a \in Nat, pos = a + 1, NEW name \in Seq(Letters), NEW m \in Nat \ {0}, m = Len(name),
         NameAt(len, a, name, m)
  PROVE  NameIs(a, name, m)
<1>0. /\ a + 1 + m <= len /\ \A j \in 1 .. m : m_pattern[a + 1 + j] = name[j]
      /\ a + m + 2 <= len => m_pattern[a + m + 2] \in Others \cup {Percent, OpenBrace}
  BY DEF NameAt
<1>1. Letters \cap (Others \cup {Percent, OpenBrace}) = {}
  BY FormatterAssumption
<1>2. \A j \in 1 .. m : name[j] \in Letters
  BY ElementOfSeq
<1>3. PICK e \in Nat : e = a + m + 2
  OBVIOUS
<1>4. PICK c \in Nat : c = a + 2 /\ c = pos + 1
  OBVIOUS
<1>5. ASSUME NEW j \in c .. e - 1 PROVE m_pattern[j] \notin Others \cup {Percent, OpenBrace}
  <2>1. j - (a + 1) \in 1 .. m /\ a + 1 + (j - (a + 1)) = j
    BY <1>3, <1>4
  <2>2. m_pattern[j] \in Letters
    BY <1>0, <1>2, <2>1
  <2> QED
    BY <1>1, <2>2
<1>6. e \in c .. len + 1 /\ (e <= len => m_pattern[e] \in Others \cup {Percent, OpenBrace})
  BY <1>0, <1>3, <1>4
<1>7. FirstFrom(c, Others \cup {Percent, OpenBrace}) = e
  BY <1>5, <1>6, FirstIs
<1>8. NameEnd = e
  BY <1>4, <1>7 DEF NameEnd
<1>9. Name = name
  <2>1. PICK d \in Nat : d = a + 1 + m /\ d = e - 1
    BY <1>3
  <2>2. PICK g : g = SubSeq(m_pattern, c, d)
    OBVIOUS
  <2>3. PICK o \in Nat : o = a + 1
    OBVIOUS
  <2>4. o + m <= len /\ c = o + 1 /\ d = o + m
    BY <1>0, <1>4, <2>1, <2>3
  <2>5. g \in Seq(Chars) /\ Len(g) = m /\ \A x \in 1 .. m : g[x] = m_pattern[o + x]
    <3>1. m \in Nat /\ o + m <= Len(m_pattern)
      BY <2>4
    <3> QED
      BY <2>2, <2>4, <3>1, SubSeqIs
  <2>6. \A x \in 1 .. m : g[x] = name[x]
    BY <1>0, <2>3, <2>5
  <2>7. name \in Seq(Chars)
    BY SeqMonotonic DEF Chars
  <2>8. g = name
    BY <2>5, <2>6, <2>7, SeqEqual
  <2>9. Name = SubSeq(m_pattern, c, d)
    BY <1>4, <1>8, <2>1 DEF Name
  <2> QED
    BY <2>2, <2>8, <2>9
<1>10. ~At(pos + 1, Percent)
  <2>1. c \in c .. e - 1
    BY <1>3, <1>4
  <2> QED
    BY <1>4, <1>5, <2>1 DEF At
<1> QED
  BY <1>3, <1>8, <1>9, <1>10 DEF NameIs

\* At a character that stands for itself
LEMMA CharRead ==
  ASSUME NEW len \in Nat, len = Len(m_pattern), NEW tok \in Tokens, tok.kind = "char",
         NEW r, r = Render(tok), NEW a \in Nat, pos = a + 1, Stands(m_pattern, a, r)
  PROVE  pos <= len /\ ~At(pos, Percent) /\ tok.name = <<m_pattern[pos]>> /\ m_pattern[pos] \in Chars
         /\ Len(r) = 1
<1>1. Len(r) = 1 /\ r[1] # Percent /\ tok.name = <<r[1]>> /\ r[1] \in Chars
  BY RenderChar
<1>2. a + 1 <= len /\ m_pattern[a + 1] = r[1]
  <2>1. 1 \in 1 .. 1
    OBVIOUS
  <2> QED
    BY <1>1, <2>1 DEF Stands
<1> QED
  BY <1>1, <1>2 DEF At

\* At %xxx
LEMMA PlainRead ==
  ASSUME WriteOK(m_pattern, written), NEW n \in Nat, n = Len(written),
         NEW k \in 0 .. n, k < n, NEW tok, tok = written[k + 1].tok, tok.kind = "name",
         NEW a \in Nat, a = EndOf(written, k), pos = a + 1
  PROVE  /\ pos <= Len(m_pattern) /\ At(pos, Percent) /\ ~At(pos + 1, Percent)
         /\ Name = tok.name /\ ~Braced /\ NameEnd = EndOf(written, k + 1) + 1
<1>1. PICK r : r = Render(tok)
  OBVIOUS
<1>2. /\ tok \in Tokens /\ r \in Seq(Chars) /\ EndOf(written, k + 1) = a + Len(r)
      /\ Stands(m_pattern, a, r)
  BY <1>1, TokenAt
<1>3. PICK name \in Seq(Letters) : name = tok.name
  BY <1>2, TokenFacts
<1>4. PICK m : m = Len(name)
  OBVIOUS
<1>5. Named(r, name, m)
  BY <1>1, <1>2, <1>3, <1>4, RenderName, Zenon
<1>6. m \in Nat \ {0} /\ Len(r) = 1 + m /\ r[1] = Percent /\ \A j \in 1 .. m : r[1 + j] = name[j]
  BY <1>5 DEF Named
<1>7. PICK len \in Nat : len = Len(m_pattern)
  BY LenProperties DEF WriteOK
<1>8. a + (1 + m) <= len /\ \A j \in 1 .. 1 + m : m_pattern[a + j] = r[j]
  BY <1>2, <1>6, <1>7 DEF Stands
<1>9. m_pattern[a + 1] = Percent
  <2>1. 1 \in 1 .. 1 + m
    BY <1>6
  <2> QED
    BY <1>6, <1>8, <2>1
<1>10. ASSUME NEW j \in 1 .. m PROVE m_pattern[a + 1 + j] = name[j]
  <2>1. 1 + j \in 1 .. 1 + m /\ a + (1 + j) = a + 1 + j
    BY <1>6
  <2> QED
    BY <1>6, <1>8, <2>1
<1>11. PICK b \in Nat : b = a + 1 + m /\ b + 1 = a + m + 2
  <2>1. m \in Nat
    BY <1>6
  <2>2. a + 1 + m \in Nat /\ (a + 1 + m) + 1 = a + m + 2
    BY <2>1
  <2> QED
    BY <2>2
<1>12. b = EndOf(written, k + 1)
  BY <1>2, <1>6, <1>11
<1>13. a + m + 2 <= len => m_pattern[a + m + 2] \in Others \cup {Percent}
  <2> SUFFICES ASSUME a + m + 2 <= len PROVE m_pattern[a + m + 2] \in Others \cup {Percent}
    OBVIOUS
  <2>1. b < len /\ b + 1 = a + m + 2
    BY <1>11
  <2>2. b < Len(m_pattern) /\ k + 1 \in 1 .. n
    BY <1>7, <2>1
  <2>3. m_pattern[b + 1] \in Others \cup {Percent}
    BY <1>12, <2>2, BehindName
  <2> QED
    BY <2>1, <2>3
<1>14. m_pattern \in Seq(Chars)
  BY DEF WriteOK
<1>15. a + 1 + m <= len
  BY <1>6, <1>8
<1>16. NameEnd = a + m + 2 /\ Name = name /\ ~At(pos + 1, Percent)
  <2>1. NameAt(len, a, name, m)
    BY <1>10, <1>13, <1>15 DEF NameAt
  <2>2. NameIs(a, name, m)
    BY <1>4, <1>6, <1>7, <1>14, <2>1, NameRead, Zenon
  <2> QED
    BY <2>2 DEF NameIs
<1>17. OpenBrace \notin Others \cup {Percent}
  BY FormatterAssumption, Marks
<1>18. ~Braced
  BY <1>7, <1>13, <1>16, <1>17 DEF Braced, At
<1>19. pos <= Len(m_pattern) /\ At(pos, Percent)
  BY <1>6, <1>7, <1>9, <1>15 DEF At
<1>20. a + m + 2 = EndOf(written, k + 1) + 1
  BY <1>6, <1>11, <1>12
<1> QED
  BY <1>3, <1>16, <1>18, <1>19, <1>20

\* The pattern has %, a name of m letters, { and a format of l characters
\* behind position a, and then } if anything
OpenAt(len, a, name, m, fmt, l) ==
  /\ a + m + l + 2 <= len /\ m_pattern[a + 1] = Percent /\ m_pattern[a + m + 2] = OpenBrace
  /\ \A j \in 1 .. m : m_pattern[a + 1 + j] = name[j]
  /\ \A j \in 1 .. l : m_pattern[a + m + 2 + j] = fmt[j]
  /\ a + m + l + 3 <= len => m_pattern[a + m + l + 3] = CloseBrace

\* What is read then
OpenIs(len, a, name, m, fmt, l) ==
  /\ pos <= len /\ At(pos, Percent) /\ ~At(pos + 1, Percent) /\ Name = name /\ Braced
  /\ NameEnd = a + m + 2 /\ Close = a + m + l + 3
  /\ a + m + l + 3 <= len => SubSeq(m_pattern, NameEnd + 1, Close - 1) = fmt

\* At %xxx{xxx, closed or not: the name ends at the brace, and the format holds
\* no other end
LEMMA OpenRead ==
  ASSUME NEW len \in Nat, len = Len(m_pattern), m_pattern \in Seq(Chars),
         NEW a \in Nat, pos = a + 1,
         NEW name \in Seq(Letters), NEW m \in Nat \ {0}, m = Len(name),
         NEW fmt \in Seq(Chars \ {CloseBrace}), NEW l \in Nat, l = Len(fmt),
         OpenAt(len, a, name, m, fmt, l)
  PROVE  OpenIs(len, a, name, m, fmt, l)
<1>0. a + m + l + 2 <= len
  BY DEF OpenAt
<1>1. a + 1 + m <= len /\ a + m + 2 <= len /\ a + 1 <= len
  BY <1>0
<1>2. NameEnd = a + m + 2 /\ Name = name /\ ~At(pos + 1, Percent)
  <2>1. NameAt(len, a, name, m)
    BY <1>1 DEF OpenAt, NameAt
  <2>2. NameIs(a, name, m)
    BY <2>1, NameRead, Zenon
  <2> QED
    BY <2>2 DEF NameIs
<1>3. Braced
  BY <1>1, <1>2 DEF OpenAt, Braced, At
<1>4. PICK b \in Nat : b = a + m + 2
  OBVIOUS
<1>5. PICK c \in Nat : c = b + 1
  OBVIOUS
<1>6. PICK e \in Nat : e = a + m + l + 3
  OBVIOUS
<1>7. \A j \in 1 .. l : fmt[j] # CloseBrace
  <2> SUFFICES ASSUME NEW j \in 1 .. l PROVE fmt[j] # CloseBrace
    OBVIOUS
  <2>1. fmt[j] \in Chars \ {CloseBrace}
    BY ElementOfSeq
  <2> QED
    BY <2>1
<1>8. ASSUME NEW j \in c .. e - 1 PROVE m_pattern[j] \notin {CloseBrace}
  <2>1. j - b \in 1 .. l /\ a + m + 2 + (j - b) = j
    BY <1>4, <1>5, <1>6
  <2>2. m_pattern[j] = fmt[j - b]
    BY <2>1 DEF OpenAt
  <2> QED
    BY <1>7, <2>1, <2>2
<1>9. e \in c .. len + 1 /\ (e <= len => m_pattern[e] \in {CloseBrace})
  <2>1. e \in c .. len + 1
    BY <1>0, <1>4, <1>5, <1>6
  <2>2. e <= len => m_pattern[e] = CloseBrace
    BY <1>6 DEF OpenAt
  <2> QED
    BY <2>1, <2>2
<1>10. FirstFrom(c, {CloseBrace}) = e
  BY <1>8, <1>9, FirstIs
<1>11. NameEnd + 1 = c
  BY <1>2, <1>4, <1>5
<1>12. Close = e
  BY <1>10, <1>11 DEF Close
<1>13. ASSUME e <= len PROVE SubSeq(m_pattern, NameEnd + 1, Close - 1) = fmt
  <2>1. PICK d \in Nat : d = b + l /\ d = e - 1
    BY <1>4, <1>6
  <2>2. PICK g : g = SubSeq(m_pattern, c, d)
    OBVIOUS
  <2>3. b + l <= len
    BY <1>0, <1>4
  <2>4. g \in Seq(Chars) /\ Len(g) = l /\ \A x \in 1 .. l : g[x] = m_pattern[b + x]
    BY <1>5, <2>1, <2>2, <2>3, SubSeqIs
  <2>5. ASSUME NEW x \in 1 .. l PROVE g[x] = fmt[x]
    <3>1. m_pattern[b + x] = fmt[x]
      BY <1>4 DEF OpenAt
    <3> QED
      BY <2>4, <3>1
  <2>6. fmt \in Seq(Chars)
    BY SeqMonotonic
  <2>7. g = fmt
    BY <2>4, <2>5, <2>6, SeqEqual
  <2> QED
    BY <1>11, <1>12, <2>1, <2>2, <2>7
<1>14. pos <= len /\ At(pos, Percent)
  BY <1>1 DEF OpenAt, At
<1> QED
  BY <1>2, <1>3, <1>6, <1>12, <1>13, <1>14 DEF OpenIs

\* Where the parts of %xxx{xxx are: a name of m characters, a format of l, z
\* characters up to the brace or, one less, up to the format
Sums(a, m, l, z) ==
  /\ 1 \in 1 .. z /\ m + 2 \in 1 .. z /\ z \in 1 .. z /\ a + (m + 2) = a + m + 2
  /\ \A j \in 1 .. m : 1 + j \in 1 .. z /\ a + (1 + j) = a + 1 + j
  /\ \A j \in 1 .. l : m + 2 + j \in 1 .. z /\ a + (m + 2 + j) = a + m + 2 + j
  /\ a + m + l + 2 \in Nat /\ a + m + l + 3 = a + m + l + 2 + 1
  /\ z = m + l + 2 => a + m + l + 2 = a + z
  /\ z = m + l + 3 => a + m + l + 3 = a + z

LEMMA SumsHold ==
  ASSUME NEW a \in Nat, NEW m \in Nat, NEW l \in Nat, NEW z, z = m + l + 2 \/ z = m + l + 3
  PROVE  Sums(a, m, l, z)
<1>1. z \in Nat /\ m + 2 <= z /\ m + 2 + l <= z
  OBVIOUS
<1>2. 1 \in 1 .. z /\ m + 2 \in 1 .. z /\ z \in 1 .. z /\ a + (m + 2) = a + m + 2
  BY <1>1
<1>3. \A j \in 1 .. m : 1 + j \in 1 .. z /\ a + (1 + j) = a + 1 + j
  BY <1>1
<1>4. \A j \in 1 .. l : m + 2 + j \in 1 .. z /\ a + (m + 2 + j) = a + m + 2 + j
  BY <1>1
<1>5. a + m + l + 2 \in Nat /\ a + m + l + 3 = a + m + l + 2 + 1
  OBVIOUS
<1>6. z = m + l + 2 => a + m + l + 2 = a + z
  OBVIOUS
<1>7. z = m + l + 3 => a + m + l + 3 = a + z
  OBVIOUS
<1> QED
  BY <1>2, <1>3, <1>4, <1>5, <1>6, <1>7 DEF Sums

\* At %xxx{xxx}
LEMMA BracedRead ==
  ASSUME WriteOK(m_pattern, written), NEW n \in Nat, n = Len(written),
         NEW k \in 0 .. n, k < n, NEW tok, tok = written[k + 1].tok, tok.kind = "braced",
         NEW a \in Nat, a = EndOf(written, k), pos = a + 1
  PROVE  /\ pos <= Len(m_pattern) /\ At(pos, Percent) /\ ~At(pos + 1, Percent)
         /\ Name = tok.name /\ Braced /\ Close <= Len(m_pattern)
         /\ SubSeq(m_pattern, NameEnd + 1, Close - 1) = tok.fmt
         /\ Close = EndOf(written, k + 1)
<1>1. PICK r : r = Render(tok)
  OBVIOUS
<1>2. /\ tok \in Tokens /\ r \in Seq(Chars) /\ EndOf(written, k + 1) = a + Len(r)
      /\ Stands(m_pattern, a, r)
  BY <1>1, TokenAt
<1>3. PICK name \in Seq(Letters), fmt \in Seq(Chars \ {CloseBrace}) : name = tok.name /\ fmt = tok.fmt
  BY <1>2, TokenFacts
<1>4. PICK m, l : m = Len(name) /\ l = Len(fmt)
  OBVIOUS
<1>5. Closed(r, name, m, fmt, l)
  BY <1>1, <1>2, <1>3, <1>4, RenderBraced, Zenon
<1>6. m \in Nat \ {0} /\ l \in Nat
  BY <1>5 DEF Closed
<1>7. PICK z \in Nat : z = m + l + 3
  BY <1>6
<1>7a. Sums(a, m, l, z)
  <2>1. m \in Nat /\ l \in Nat /\ (z = m + l + 2 \/ z = m + l + 3)
    BY <1>6, <1>7
  <2> QED
    BY <2>1, SumsHold, Zenon
<1>8. /\ Len(r) = z /\ r[1] = Percent /\ r[m + 2] = OpenBrace /\ r[z] = CloseBrace
      /\ \A j \in 1 .. m : r[1 + j] = name[j]
      /\ \A j \in 1 .. l : r[m + 2 + j] = fmt[j]
  BY <1>5, <1>7 DEF Closed
<1>9. PICK len \in Nat : len = Len(m_pattern)
  BY LenProperties DEF WriteOK
<1>10. a + z <= len /\ \A j \in 1 .. z : m_pattern[a + j] = r[j]
  BY <1>2, <1>8, <1>9 DEF Stands
<1>11. /\ m_pattern[a + 1] = Percent /\ m_pattern[a + m + 2] = OpenBrace
       /\ m_pattern[a + m + l + 3] = CloseBrace
  <2>1. /\ 1 \in 1 .. z /\ m + 2 \in 1 .. z /\ z \in 1 .. z
        /\ a + (m + 2) = a + m + 2 /\ a + z = a + m + l + 3
    BY <1>7, <1>7a DEF Sums
  <2>2. /\ m_pattern[a + 1] = Percent /\ m_pattern[a + (m + 2)] = OpenBrace
        /\ m_pattern[a + z] = CloseBrace
    BY <1>8, <1>10, <2>1
  <2> QED
    BY <2>1, <2>2
<1>12. ASSUME NEW j \in 1 .. m PROVE m_pattern[a + 1 + j] = name[j]
  <2>1. 1 + j \in 1 .. z /\ a + (1 + j) = a + 1 + j
    BY <1>7a DEF Sums
  <2> QED
    BY <1>8, <1>10, <2>1
<1>13. ASSUME NEW j \in 1 .. l PROVE m_pattern[a + m + 2 + j] = fmt[j]
  <2>1. m + 2 + j \in 1 .. z /\ a + (m + 2 + j) = a + m + 2 + j
    BY <1>7a DEF Sums
  <2> QED
    BY <1>8, <1>10, <2>1
<1>14. a + m + l + 2 <= len /\ a + m + l + 3 <= len /\ a + z = a + m + l + 3
  <2>1. a + m + l + 2 \in Nat /\ a + z = a + m + l + 3 /\ a + z = a + m + l + 2 + 1
    BY <1>7, <1>7a DEF Sums
  <2>2. PICK y : y = a + m + l + 2
    OBVIOUS
  <2>3. y \in Nat
    BY <2>1, <2>2
  <2>4. y + 1 <= len
    BY <1>10, <2>1, <2>2
  <2>5. y <= len
    BY <2>3, <2>4
  <2> QED
    BY <1>10, <2>1, <2>2, <2>5
<1>15. m_pattern \in Seq(Chars)
  BY DEF WriteOK
<1>16. /\ pos <= len /\ At(pos, Percent) /\ ~At(pos + 1, Percent) /\ Name = name /\ Braced
       /\ NameEnd = a + m + 2 /\ Close = a + m + l + 3
       /\ SubSeq(m_pattern, NameEnd + 1, Close - 1) = fmt
  <2>1. OpenAt(len, a, name, m, fmt, l)
    BY <1>11, <1>12, <1>13, <1>14 DEF OpenAt
  <2>2. OpenIs(len, a, name, m, fmt, l)
    BY <1>4, <1>6, <1>9, <1>15, <2>1, OpenRead, Zenon
  <2> QED
    BY <1>14, <2>2 DEF OpenIs
<1>17. EndOf(written, k + 1) = a + z
  BY <1>2, <1>8
<1> QED
  BY <1>3, <1>9, <1>14, <1>16, <1>17

\* At %xxx{xxx without the closing brace, at the end of the pattern
LEMMA UnclosedRead ==
  ASSUME WriteOK(m_pattern, written), NEW n \in Nat, n = Len(written),
         NEW k \in 0 .. n, k < n, NEW tok, tok = written[k + 1].tok, tok.kind = "unclosed",
         NEW a \in Nat, a = EndOf(written, k), pos = a + 1
  PROVE  /\ pos <= Len(m_pattern) /\ At(pos, Percent) /\ ~At(pos + 1, Percent)
         /\ Braced /\ ~(Close <= Len(m_pattern))
<1>1. PICK r : r = Render(tok)
  OBVIOUS
<1>2. /\ tok \in Tokens /\ r \in Seq(Chars) /\ EndOf(written, k + 1) = a + Len(r)
      /\ Stands(m_pattern, a, r)
  BY <1>1, TokenAt
<1>3. PICK name \in Seq(Letters), fmt \in Seq(Chars \ {CloseBrace}) : name = tok.name /\ fmt = tok.fmt
  BY <1>2, TokenFacts
<1>4. PICK m, l : m = Len(name) /\ l = Len(fmt)
  OBVIOUS
<1>5. Opened(r, name, m, fmt, l)
  BY <1>1, <1>2, <1>3, <1>4, RenderUnclosed, Zenon
<1>6. m \in Nat \ {0} /\ l \in Nat
  BY <1>5 DEF Opened
<1>7. PICK z \in Nat : z = m + l + 2
  BY <1>6
<1>7a. Sums(a, m, l, z)
  <2>1. m \in Nat /\ l \in Nat /\ (z = m + l + 2 \/ z = m + l + 3)
    BY <1>6, <1>7
  <2> QED
    BY <2>1, SumsHold, Zenon
<1>8. /\ Len(r) = z /\ r[1] = Percent /\ r[m + 2] = OpenBrace
      /\ \A j \in 1 .. m : r[1 + j] = name[j]
      /\ \A j \in 1 .. l : r[m + 2 + j] = fmt[j]
  BY <1>5, <1>7 DEF Opened
<1>9. PICK len \in Nat : len = Len(m_pattern)
  BY LenProperties DEF WriteOK
<1>10. \A j \in 1 .. z : m_pattern[a + j] = r[j]
  BY <1>2, <1>8 DEF Stands
<1>11. k + 1 = n
  <2>1. CASE k + 1 < n
    <3>1. k + 1 \in 1 .. n
      OBVIOUS
    <3> QED
      BY <2>1, <3>1 DEF WriteOK, Separate
  <2> QED
    BY <2>1
<1>12. len = a + z
  BY <1>2, <1>8, <1>9, <1>11 DEF WriteOK
<1>13. m_pattern[a + 1] = Percent /\ m_pattern[a + m + 2] = OpenBrace
  <2>1. 1 \in 1 .. z /\ m + 2 \in 1 .. z /\ a + (m + 2) = a + m + 2
    BY <1>7a DEF Sums
  <2>2. m_pattern[a + 1] = Percent /\ m_pattern[a + (m + 2)] = OpenBrace
    BY <1>8, <1>10, <2>1
  <2> QED
    BY <2>1, <2>2
<1>14. ASSUME NEW j \in 1 .. m PROVE m_pattern[a + 1 + j] = name[j]
  <2>1. 1 + j \in 1 .. z /\ a + (1 + j) = a + 1 + j
    BY <1>7a DEF Sums
  <2> QED
    BY <1>8, <1>10, <2>1
<1>15. ASSUME NEW j \in 1 .. l PROVE m_pattern[a + m + 2 + j] = fmt[j]
  <2>1. m + 2 + j \in 1 .. z /\ a + (m + 2 + j) = a + m + 2 + j
    BY <1>7a DEF Sums
  <2> QED
    BY <1>8, <1>10, <2>1
<1>16. a + m + l + 2 <= len /\ ~(a + m + l + 3 <= len) /\ a + m + l + 3 > len
  <2>1. a + m + l + 2 = a + z /\ a + m + l + 3 = a + z + 1
    BY <1>7, <1>7a DEF Sums
  <2>2. a + m + l + 2 = len /\ a + m + l + 3 = len + 1
    BY <1>12, <2>1
  <2> QED
    BY <2>2
<1>17. m_pattern \in Seq(Chars)
  BY DEF WriteOK
<1>18. /\ pos <= len /\ At(pos, Percent) /\ ~At(pos + 1, Percent) /\ Braced
       /\ Close = a + m + l + 3
  <2>1. OpenAt(len, a, name, m, fmt, l)
    BY <1>13, <1>14, <1>15, <1>16 DEF OpenAt
  <2>2. OpenIs(len, a, name, m, fmt, l)
    BY <1>4, <1>6, <1>9, <1>17, <2>1, OpenRead, Zenon
  <2> QED
    BY <2>2 DEF OpenIs
<1> QED
  BY <1>9, <1>16, <1>18

\* A character behind a sequence, as a concatenation
LEMMA BehindIs ==
  ASSUME NEW s \in Seq(Chars), NEW c \in Chars
  PROVE  s \o <<c>> = Append(s, c)
<1>1. PICK t \in Seq(Chars) : t = <<c>> /\ Len(t) = 1 /\ t[1] = c
  BY Single
<1>2. PICK n \in Nat : n = Len(s)
  BY LenProperties
<1>3. PICK o \in Nat : o = 1 /\ o = Len(t)
  BY <1>1
<1>4. PICK r : r = s \o t
  OBVIOUS
<1>5. Joined(r, s, n, t, o)
  BY <1>2, <1>3, <1>4, Join, Zenon
<1>6. PICK q : q = Append(s, c)
  OBVIOUS
<1>7. q \in Seq(Chars) /\ Len(q) = n + 1 /\ q[n + 1] = c /\ \A x \in 1 .. n : q[x] = s[x]
  BY <1>2, <1>6, AppendEnds
<1>8. r \in Seq(Chars) /\ Len(r) = n + 1 /\ r[n + 1] = c /\ \A x \in 1 .. n : r[x] = s[x]
  BY <1>1, <1>3, <1>5 DEF Joined
<1>9. ASSUME NEW x \in 1 .. n + 1 PROVE r[x] = q[x]
  <2>1. CASE x = n + 1
    BY <1>7, <1>8, <2>1
  <2>2. CASE x # n + 1
    <3>1. x \in 1 .. n
      BY <2>2
    <3> QED
      BY <1>7, <1>8, <3>1
  <2> QED
    BY <2>1, <2>2
<1>10. r = q
  BY <1>7, <1>8, <1>9, SeqEqual
<1> QED
  BY <1>1, <1>4, <1>6, <1>10

\* The items v and behind them the text t are what was meant with tok behind old
Gathered(v, t, old, tok) == t \in Seq(Chars) /\ t # <<>> /\ Append(v, Text(t)) = Add(old, tok)

\* A character goes to the text that has been gathered, as it was meant to
LEMMA TextMore ==
  ASSUME NEW v \in Seq(Items), ~EndsInText(v), NEW s \in Seq(Chars), NEW c \in Chars,
         NEW tok \in Tokens, tok.kind = "char", tok.name = <<c>>,
         NEW old, old = IF s = <<>> THEN v ELSE Append(v, Text(s)),
         NEW t, t = Append(s, c)
  PROVE  Gathered(v, t, old, tok)
<1>1. t \in Seq(Chars) /\ t # <<>>
  BY AppendEnds
<1>2. CASE s = <<>>
  <2>1. old = v
    BY <1>2
  <2>2. <<>> \o <<c>> = Append(<<>>, c) /\ <<>> \o <<c>> = <<c>>
    <3>1. <<c>> \in Seq(Chars)
      BY Single
    <3> QED
      BY <1>2, <3>1, BehindIs, ConcatEmptySeq
  <2>3. t = tok.name
    BY <1>2, <2>2
  <2> QED
    BY <1>1, <2>1, <2>3 DEF Add, Gathered
<1>3. CASE s # <<>>
  <2>1. PICK e \in Items : e = Text(s) /\ e.kind = "text" /\ e.name = s
    BY EmptySeq, ItemFacts
  <2>2. old = Append(v, e)
    BY <1>3, <2>1
  <2>3. old \in Seq(Items) /\ old # <<>> /\ Last(old) = e /\ Front(old) = v
    <3>1. EndsAs(old, Items, v, e)
      BY <2>1, <2>2, AppendItem, Zenon
    <3> QED
      BY <3>1 DEF EndsAs
  <2>4. EndsInText(old)
    BY <2>1, <2>3 DEF EndsInText
  <2>5. Last(old).name \o tok.name = t
    BY <2>1, <2>3, BehindIs
  <2> QED
    BY <1>1, <2>3, <2>4, <2>5 DEF Add, Gathered
<1> QED
  BY <1>2, <1>3

\* An action of the loop is one for the token at hand, and deals with it
LEMMA ScanKeeps ==
  ASSUME WriteOK(m_pattern, written), built = FALSE, m_error = FALSE,
         NEW n \in Nat, n = Len(written), NEW k \in 0 .. n, k < n, Scanned(k), ~Has("percent"),
         ScanText \/ ScanDirective \/ ScanUnclosed \/ BuildItems
  PROVE  ScanInv'
<1>1. PICK tok : tok = written[k + 1].tok
  OBVIOUS
<1>2. PICK a : a = EndOf(written, k)
  OBVIOUS
<1>3. PICK r : r = Render(tok)
  OBVIOUS
<1>4. /\ tok \in Tokens /\ a \in Nat /\ r \in Seq(Chars) /\ EndOf(written, k + 1) = a + Len(r)
      /\ Stands(m_pattern, a, r) /\ MeantOf(written, k + 1) = Add(MeantOf(written, k), tok)
      /\ MeantOf(written, k) \in Seq(Items)
  BY <1>1, <1>2, <1>3, TokenAt
<1>5. pos = a + 1 /\ Flush = MeantOf(written, k) /\ ~EndsInText(vec)
      /\ nstr \in Seq(Chars) /\ vec \in Seq(Items)
  BY <1>2 DEF Scanned
<1>6. written' = written /\ m_pattern' = m_pattern
  BY DEF ScanText, ScanDirective, ScanUnclosed, BuildItems
<1>7. PICK len \in Nat : len = Len(m_pattern)
  BY LenProperties DEF WriteOK
<1>8. pos \in Nat /\ pos # 0 /\ k + 1 \in 0 .. n
  BY <1>4, <1>5
<1>9. tok.kind # "percent"
  <2>1. k + 1 \in 1 .. Len(written)
    OBVIOUS
  <2> QED
    BY <1>1, <2>1 DEF Has
<1>16. /\ ScanText => AtText \/ AtEscape
       /\ AtText => ~At(pos, Percent)
       /\ AtEscape => At(pos, Percent) /\ At(pos + 1, Percent)
  BY DEF ScanText, AtText, AtEscape
<1>17. /\ ScanDirective => AtDirective /\ (Braced => Close <= Len(m_pattern))
       /\ ScanUnclosed => AtDirective /\ Braced /\ Close > Len(m_pattern)
       /\ AtDirective => At(pos, Percent)
  <2>1. ScanDirective => AtDirective /\ (Braced => Close <= Len(m_pattern))
    BY DEF ScanDirective
  <2>2. ScanUnclosed => AtDirective /\ Braced /\ Close > Len(m_pattern)
    BY DEF ScanUnclosed
  <2> QED
    BY <2>1, <2>2 DEF AtDirective
<1>18. pos <= len => ~BuildItems
  <2>1. BuildItems => pos > Len(m_pattern)
    BY DEF BuildItems
  <2> QED
    BY <1>7, <1>8, <2>1
<1> DEFINE Done == /\ nstr' \in Seq(Chars) /\ vec' \in Seq(Items)
                   /\ pos' = EndOf(written, k + 1) + 1
                   /\ Flush' = MeantOf(written, k + 1) /\ ~EndsInText(vec')
                   /\ built' = FALSE /\ m_error' = FALSE
<1>10. ASSUME Done, tok.kind # "unclosed" PROVE ScanInv'
  <2>1. EndOf(written', k + 1) = EndOf(written, k + 1) /\ MeantOf(written', k + 1) = MeantOf(written, k + 1)
    BY <1>6
  <2>2. Scanned(k + 1)'
    BY <1>1, <1>6, <1>10, <2>1 DEF Scanned
  <2>3. \E x \in 0 .. Len(written') : Scanned(x)'
    BY <1>6, <1>8, <2>2
  <2> QED
    BY <1>10, <2>3 DEF ScanInv
<1>11. CASE tok.kind = "char"
  <2>1. /\ pos <= len /\ ~At(pos, Percent) /\ tok.name = <<m_pattern[pos]>>
        /\ m_pattern[pos] \in Chars /\ Len(r) = 1
    BY <1>3, <1>4, <1>5, <1>7, <1>11, CharRead
  <2>2. AtText
    BY <1>7, <1>8, <2>1 DEF AtText, Scanning
  <2>3. ~ScanDirective /\ ~ScanUnclosed /\ ~BuildItems
    BY <1>17, <1>18, <2>1
  <2>4. /\ nstr' = Append(nstr, m_pattern[pos]) /\ pos' = pos + 1 /\ vec' = vec
        /\ built' = FALSE /\ m_error' = FALSE
    BY <2>2, <2>3 DEF ScanText
  <2>5. /\ nstr' \in Seq(Chars) /\ nstr' # <<>>
        /\ Append(vec, Text(nstr')) = Add(Flush, tok)
    <3>1. PICK old : old = Flush
      OBVIOUS
    <3>2. PICK c \in Chars : c = m_pattern[pos]
      BY <2>1
    <3>3. PICK t : t = nstr'
      OBVIOUS
    <3>4. old = (IF nstr = <<>> THEN vec ELSE Append(vec, Text(nstr))) /\ t = Append(nstr, c)
      BY <2>4, <3>1, <3>2, <3>3 DEF Flush
    <3>5. tok.name = <<c>>
      BY <2>1, <3>2
    <3>6. Gathered(vec, t, old, tok)
      BY <1>4, <1>5, <1>11, <3>4, <3>5, TextMore, Zenon
    <3> QED
      BY <3>1, <3>3, <3>6 DEF Gathered
  <2>6. Flush' = MeantOf(written, k + 1)
    BY <1>4, <1>5, <2>4, <2>5 DEF Flush
  <2>7. pos' = EndOf(written, k + 1) + 1
    BY <1>4, <1>5, <2>1, <2>4
  <2> QED
    BY <1>5, <1>10, <1>11, <2>4, <2>5, <2>6, <2>7
<1>12. ASSUME tok.kind \in {"name", "braced"}, ScanDirective, built' = FALSE, m_error' = FALSE,
              vec' = Append(Flush, Directive(tok.name, tok.fmt)),
              pos' = EndOf(written, k + 1) + 1
       PROVE  ScanInv'
  <2>1. tok.name \in Seq(Chars) /\ tok.fmt \in Seq(Chars)
    BY <1>4, TokenFacts
  <2>2. PICK d \in Items : d = Directive(tok.name, tok.fmt) /\ d.kind # "text"
    BY <2>1, ItemFacts
  <2>3. vec' \in Seq(Items) /\ vec' # <<>> /\ Last(vec') = d
    <3>1. PICK w : w = vec'
      OBVIOUS
    <3>2. Flush \in Seq(Items) /\ w = Append(Flush, d)
      BY <1>4, <1>5, <1>12, <2>2, <3>1
    <3>3. EndsAs(w, Items, Flush, d)
      BY <3>2, AppendItem, Zenon
    <3> QED
      BY <3>1, <3>3 DEF EndsAs
  <2>4. ~EndsInText(vec')
    BY <2>2, <2>3 DEF EndsInText
  <2>5. nstr' = <<>> /\ nstr' \in Seq(Chars)
    BY <1>12, EmptySeq DEF ScanDirective
  <2>6. Flush' = vec'
    BY <2>5 DEF Flush
  <2>7. vec' = MeantOf(written, k + 1)
    BY <1>4, <1>5, <1>12 DEF Add
  <2> QED
    BY <1>10, <1>12, <2>3, <2>4, <2>5, <2>6, <2>7
<1>13. CASE tok.kind = "name"
  <2>1. /\ pos <= len /\ At(pos, Percent) /\ ~At(pos + 1, Percent)
        /\ Name = tok.name /\ ~Braced /\ NameEnd = EndOf(written, k + 1) + 1
    BY <1>1, <1>2, <1>4, <1>5, <1>7, <1>13, PlainRead
  <2>2. ~ScanText /\ ~ScanUnclosed /\ ~BuildItems
    BY <1>16, <1>17, <1>18, <2>1
  <2>3. ScanDirective
    BY <2>2
  <2>4. tok.fmt = <<>>
    BY <1>4, <1>13, TokenFacts
  <2>5. vec' = Append(Flush, Directive(tok.name, tok.fmt))
    BY <2>1, <2>3, <2>4 DEF ScanDirective
  <2>6. pos' = EndOf(written, k + 1) + 1 /\ built' = FALSE /\ m_error' = FALSE
    BY <2>1, <2>3 DEF ScanDirective
  <2> QED
    BY <1>12, <1>13, <2>3, <2>5, <2>6
<1>14. CASE tok.kind = "braced"
  <2>1. /\ pos <= len /\ At(pos, Percent) /\ ~At(pos + 1, Percent)
        /\ Name = tok.name /\ Braced /\ Close <= len
        /\ SubSeq(m_pattern, NameEnd + 1, Close - 1) = tok.fmt
        /\ Close = EndOf(written, k + 1)
    BY <1>1, <1>2, <1>4, <1>5, <1>7, <1>14, BracedRead
  <2>2. EndOf(written, k + 1) \in Nat
    BY <1>4, LenProperties
  <2>3. ~(Close > Len(m_pattern))
    <3>1. Close \in Int
      BY <1>4, <1>14, <1>1, <1>2, <1>3, <1>5, <2>1, <2>2
    <3> QED
      BY <1>7, <2>1, <3>1
  <2>4. ~ScanText /\ ~ScanUnclosed /\ ~BuildItems
    BY <1>16, <1>17, <1>18, <2>1, <2>3
  <2>5. ScanDirective
    BY <2>4
  <2>6. vec' = Append(Flush, Directive(tok.name, tok.fmt))
    BY <2>1, <2>5 DEF ScanDirective
  <2>7. pos' = EndOf(written, k + 1) + 1 /\ built' = FALSE /\ m_error' = FALSE
    BY <2>1, <2>5 DEF ScanDirective
  <2> QED
    BY <1>12, <1>14, <2>5, <2>6, <2>7
<1>15. CASE tok.kind = "unclosed"
  <2>1. /\ pos <= len /\ At(pos, Percent) /\ ~At(pos + 1, Percent)
        /\ Braced /\ ~(Close <= len)
    BY <1>1, <1>2, <1>4, <1>5, <1>7, <1>15, UnclosedRead
  <2>2. ~ScanText /\ ~ScanDirective /\ ~BuildItems
    BY <1>7, <1>16, <1>17, <1>18, <2>1
  <2>3. m_error' = TRUE
    BY <2>2 DEF ScanUnclosed
  <2>4. Has("unclosed")'
    <3>1. k + 1 \in 1 .. Len(written')
      BY <1>6
    <3> QED
      BY <1>1, <1>6, <1>15, <3>1 DEF Has
  <2> QED
    BY <2>3, <2>4 DEF ScanInv
<1> QED
  BY <1>4, <1>9, <1>11, <1>13, <1>14, <1>15, TokenFacts

\* At the end of the pattern init() returns with the items that were meant
LEMMA BuildKeeps ==
  ASSUME WriteOK(m_pattern, written), built = FALSE, m_error = FALSE,
         NEW n \in Nat, n = Len(written), Scanned(n),
         ScanText \/ ScanDirective \/ ScanUnclosed \/ BuildItems
  PROVE  ScanInv'
<1>1. PICK len \in Nat : len = Len(m_pattern)
  BY LenProperties DEF WriteOK
<1>2. pos = len + 1
  BY <1>1 DEF Scanned, WriteOK
<1>3. ~Scanning
  BY <1>1, <1>2 DEF Scanning
<1>4. ~ScanText /\ ~ScanDirective /\ ~ScanUnclosed
  BY <1>3 DEF ScanText, ScanDirective, ScanUnclosed, AtText, AtEscape, AtDirective
<1>5. BuildItems
  BY <1>4
<1>6. PICK fl : fl = Flush
  OBVIOUS
<1>7. /\ vec' = fl /\ built' = TRUE /\ pos' = pos /\ written' = written
      /\ m_error' = (m_error \/ AnyUnknown(fl))
  BY <1>5, <1>6 DEF BuildItems, AnyUnknown
<1>8. fl = MeantOf(written, n)
  BY <1>6 DEF Scanned
<1>9. fl = Meant
  <2>1. written = <<>> <=> n = 0
    BY EmptySeq DEF WriteOK
  <2> QED
    BY <1>8, <2>1 DEF MeantOf, Meant, Last
<1>10. ~Has("unclosed")
  <2> SUFFICES ASSUME NEW k \in 1 .. n PROVE written[k].tok.kind # "unclosed"
    BY DEF Has
  <2>1. CASE k < n
    BY <2>1 DEF WriteOK, Separate
  <2>2. CASE k = n
    BY <2>2 DEF Scanned
  <2> QED
    BY <2>1, <2>2
<1>11. ~Has("unclosed")' /\ Meant' = Meant
  BY <1>7, <1>10 DEF Has, Meant
<1>12. m_error' <=> AnyUnknown(fl)
  BY <1>7
<1>13. m_error' <=> AnyUnknown(vec')
  BY <1>7, <1>12
<1>14. pos' # 0
  BY <1>1, <1>2, <1>7
<1> QED
  BY <1>7, <1>9, <1>11, <1>13, <1>14 DEF ScanInv

\* A token that is written adds its entry, and the pattern goes on
LEMMA WrittenEntry ==
  ASSUME ParserInv, NEW tok \in Tokens, WriteToken(tok)
  PROVE  WriteOK(m_pattern', written') /\ \E e \in Entries : written' = Append(written, e)
<1>1. PICK q : q = m_pattern'
  OBVIOUS
<1>2. PICK v : v = written'
  OBVIOUS
<1>3. PICK items : items = Add(Meant, tok)
  OBVIOUS
<1>4. PICK e : e = [tok |-> tok, end |-> Len(q), items |-> items]
  OBVIOUS
<1>5. /\ q = m_pattern \o Render(tok) /\ v = Append(written, e)
      /\ (written # <<>> => Separate(Last(written).tok, tok))
  BY <1>1, <1>2, <1>3, <1>4 DEF WriteToken
<1>6. items = Add(IF written = <<>> THEN <<>> ELSE Last(written).items, tok)
  BY <1>3 DEF Meant
<1>7. WriteOK(q, v) /\ e \in Entries
  <2>1. WriteOK(m_pattern, written)
    BY DEF ParserInv
  <2> QED
    BY <1>4, <1>5, <1>6, <2>1, WriteKeeps, Zenon
<1> QED
  BY <1>1, <1>2, <1>5, <1>7

\* What the loop does not touch
LEMMA PatternKept ==
  ASSUME ParserInv, [FormatterNext]_formatterVars
  PROVE  WriteOK(m_pattern', written')
<1>1. (\E tok \in Tokens : WriteToken(tok)) \/ (m_pattern' = m_pattern /\ written' = written)
  BY DEF FormatterNext, formatterVars, Construct, ScanText, ScanDirective, ScanUnclosed, BuildItems
<1>2. ASSUME NEW tok \in Tokens, WriteToken(tok) PROVE WriteOK(m_pattern', written')
  BY <1>2, WrittenEntry
<1>3. CASE m_pattern' = m_pattern /\ written' = written
  <2>1. WriteOK(m_pattern, written)
    BY DEF ParserInv
  <2> QED
    BY <1>3, <2>1
<1> QED
  BY <1>1, <1>2, <1>3

\* What the pattern holds it goes on holding
LEMMA HasStays ==
  ASSUME ParserInv, [FormatterNext]_formatterVars, NEW kind, Has(kind)
  PROVE  Has(kind)'
<1>1. CASE written' = written
  BY <1>1 DEF Has
<1>2. ASSUME NEW tok \in Tokens, WriteToken(tok) PROVE Has(kind)'
  <2>1. PICK e \in Entries : written' = Append(written, e)
    BY <1>2, WrittenEntry
  <2>2. written \in Seq(Entries)
    BY DEF ParserInv, WriteOK
  <2>3. PICK w : w = written'
    OBVIOUS
  <2>4. EndsAs(w, Entries, written, e)
    BY <2>1, <2>2, <2>3, AppendItem, Zenon
  <2>5. PICK k \in 1 .. Len(written) : written[k].tok.kind = kind
    BY DEF Has
  <2>6. k \in 1 .. Len(w) /\ w[k] = written[k]
    BY <2>4, <2>5 DEF EndsAs
  <2> QED
    BY <2>3, <2>5, <2>6 DEF Has
<1>3. \/ \E tok \in Tokens : WriteToken(tok)
      \/ written' = written
  BY DEF FormatterNext, formatterVars, Construct, ScanText, ScanDirective, ScanUnclosed, BuildItems
<1> QED
  BY <1>1, <1>2, <1>3

\* Every step keeps the invariant
LEMMA StepKeeps == ParserInv /\ [FormatterNext]_formatterVars => ParserInv'
<1> SUFFICES ASSUME ParserInv, [FormatterNext]_formatterVars PROVE ParserInv'
  OBVIOUS
<1>1. WriteOK(m_pattern, written)
  BY DEF ParserInv
<1>2. CASE Has("percent")
  <2>1. Has("percent")'
    BY <1>2, HasStays
  <2> QED
    BY <1>1, <2>1, PatternKept DEF ParserInv, ScanInv
<1>3. CASE m_error = TRUE /\ Has("unclosed")
  <2>1. Has("unclosed")'
    BY <1>3, HasStays
  <2>2. m_error' = TRUE
    BY <1>3 DEF FormatterNext, formatterVars, WriteToken, Construct, ScanText, ScanDirective,
                ScanUnclosed, BuildItems
  <2> QED
    BY <2>1, <2>2, PatternKept DEF ParserInv, ScanInv
<1>4. ASSUME pos # 0, built = TRUE, ~Has("unclosed"), vec = Meant, m_error <=> AnyUnknown(vec)
      PROVE  ScanInv'
  <2>1. UNCHANGED formatterVars
    BY <1>4 DEF FormatterNext, WriteToken, Construct, ScanText, ScanDirective, ScanUnclosed,
                BuildItems, AtText, AtEscape, AtDirective, Scanning
  <2>2. UNCHANGED <<written, pos, vec, m_error, built>>
    BY <2>1 DEF formatterVars
  <2>3. Meant' = Meant /\ (Has("unclosed")' <=> Has("unclosed"))
    BY <2>2 DEF Meant, Has
  <2> QED
    BY <1>4, <2>2, <2>3 DEF ScanInv
<1>5. ASSUME pos = 0, nstr = <<>>, vec = <<>>, m_error = FALSE, built = FALSE PROVE ScanInv'
  <2>1. CASE \E tok \in Tokens : WriteToken(tok)
    BY <1>5, <2>1 DEF WriteToken, ScanInv
  <2>2. CASE Construct
    <3>1. EndOf(written', 0) = 0 /\ MeantOf(written', 0) = <<>>
      BY DEF EndOf, MeantOf
    <3>2. pos' = 1 /\ nstr' = <<>> /\ vec' = <<>> /\ m_error' = FALSE /\ built' = FALSE
      BY <1>5, <2>2 DEF Construct
    <3>3. nstr' \in Seq(Chars) /\ vec' \in Seq(Items)
      BY <3>2, EmptySeq
    <3>4. Flush' = <<>> /\ ~EndsInText(vec')
      BY <3>2 DEF Flush, EndsInText
    <3>5. Scanned(0)'
      BY <3>1, <3>2, <3>3, <3>4 DEF Scanned
    <3>6. 0 \in 0 .. Len(written')
      <4>1. written' = written /\ Len(written) \in Nat
        BY <1>1, <2>2, LenProperties DEF Construct, WriteOK
      <4> QED
        BY <4>1
    <3>7. \E x \in 0 .. Len(written') : Scanned(x)'
      BY <3>5, <3>6
    <3> QED
      BY <3>2, <3>7 DEF ScanInv
  <2>3. CASE ScanText \/ ScanDirective \/ ScanUnclosed
    BY <1>5, <2>3 DEF ScanText, ScanDirective, ScanUnclosed, AtText, AtEscape, AtDirective, Scanning
  <2>4. CASE BuildItems
    BY <1>5, <2>4 DEF BuildItems
  <2>5. CASE UNCHANGED formatterVars
    BY <1>5, <2>5 DEF formatterVars, ScanInv
  <2> QED
    BY <2>1, <2>2, <2>3, <2>4, <2>5 DEF FormatterNext
<1>6. ASSUME m_error = FALSE, built = FALSE, NEW k \in 0 .. Len(written), Scanned(k), ~Has("percent")
      PROVE  ScanInv'
  <2>1. PICK n \in Nat : n = Len(written)
    BY <1>1, LenProperties DEF WriteOK
  <2>2. pos # 0
    <3>1. EndOf(written, k) \in Nat
      BY <1>1, <1>6, <2>1, UptoFacts DEF WriteOK
    <3> QED
      BY <1>6, <3>1 DEF Scanned
  <2>3. CASE ScanText \/ ScanDirective \/ ScanUnclosed \/ BuildItems
    <3>1. CASE k < n
      BY <1>1, <1>6, <2>1, <2>3, <3>1, ScanKeeps
    <3>2. CASE k = n
      BY <1>1, <1>6, <2>1, <2>3, <3>2, BuildKeeps
    <3> QED
      BY <1>6, <2>1, <3>1, <3>2
  <2>4. CASE UNCHANGED formatterVars
    <3>1. UNCHANGED <<written, pos, nstr, vec, m_error, built>>
      BY <2>4 DEF formatterVars
    <3>2. Scanned(k)'
      BY <1>6, <3>1 DEF Scanned, Flush, EndsInText, EndOf, MeantOf
    <3>3. \E x \in 0 .. Len(written') : Scanned(x)'
      BY <1>6, <3>1, <3>2
    <3> QED
      BY <1>6, <3>1, <3>3 DEF ScanInv
  <2>5. ~Construct /\ ~(\E tok \in Tokens : WriteToken(tok))
    BY <2>2 DEF Construct, WriteToken
  <2> QED
    BY <2>3, <2>4, <2>5 DEF FormatterNext
<1>7. ScanInv'
  <2>1. CASE pos = 0 /\ nstr = <<>> /\ vec = <<>> /\ m_error = FALSE /\ built = FALSE
    BY <1>5, <2>1
  <2>2. ASSUME m_error = FALSE, built = FALSE, NEW k \in 0 .. Len(written), Scanned(k)
        PROVE  ScanInv'
    BY <1>2, <1>6, <2>2 DEF ParserInv
  <2> QED
    BY <1>2, <1>3, <1>4, <2>1, <2>2 DEF ParserInv, ScanInv
<1> QED
  BY <1>7, PatternKept DEF ParserInv

\* An empty pattern, before the call
LEMMA FormatterInitInv == FormatterInit => ParserInv
<1> SUFFICES ASSUME FormatterInit PROVE ParserInv
  OBVIOUS
<1>1. /\ m_pattern = <<>> /\ written = <<>> /\ pos = 0 /\ nstr = <<>> /\ vec = <<>>
      /\ m_error = FALSE /\ built = FALSE
  BY DEF FormatterInit
<1>2. m_pattern \in Seq(Chars) /\ written \in Seq(Entries) /\ Len(m_pattern) = 0 /\ Len(written) = 0
  BY <1>1, EmptySeq
<1>3. WriteOK(m_pattern, written)
  BY <1>2 DEF WriteOK, EndOf
<1> QED
  BY <1>1, <1>3 DEF ParserInv, ScanInv

\* The mistake that is reported is one of the tokens', and the items are theirs
LEMMA ParserInvParsed == ParserInv => ParsedAsWritten
<1> SUFFICES ASSUME ParserInv, built, ~Has("percent")
             PROVE  /\ m_error <=> \E k \in 1 .. Len(written) : Mistaken(written[k].tok)
                    /\ ~Has("unclosed") => vec = Meant
  BY DEF ParsedAsWritten
<1>1. WriteOK(m_pattern, written) /\ ScanInv
  BY DEF ParserInv
<1>2. PICK n \in Nat : n = Len(written)
  BY <1>1, LenProperties DEF WriteOK
<1>3. \A k \in 1 .. n : Mistaken(written[k].tok) <=>
        written[k].tok.kind = "unclosed" \/ WrongName(written[k].tok)
  BY DEF Mistaken, WrongName
<1>4. CASE m_error = TRUE /\ Has("unclosed")
  BY <1>2, <1>3, <1>4 DEF Has
<1>5. CASE vec = Meant /\ ~Has("unclosed") /\ (m_error <=> AnyUnknown(vec))
  <2>1. AnyUnknown(vec) <=> \E k \in 1 .. n : WrongName(written[k].tok)
    <3>1. CASE n = 0
      <4>1. written = <<>> /\ Len(<<>>) = 0
        BY <1>1, <1>2, <3>1, EmptySeq DEF WriteOK
      <4>2. vec = <<>>
        BY <1>5, <4>1 DEF Meant
      <4> QED
        BY <3>1, <4>1, <4>2 DEF AnyUnknown
    <3>2. CASE n # 0
      <4>1. written # <<>> /\ n \in 1 .. n
        BY <1>2, <3>2, EmptySeq
      <4>2. vec = MeantOf(written, n)
        BY <1>2, <1>5, <3>2, <4>1 DEF Meant, MeantOf, Last
      <4>3. Recorded(written, n)
        BY <1>1, <1>2, <4>1 DEF WriteOK
      <4> QED
        BY <4>2, <4>3 DEF Recorded
    <3> QED
      BY <3>1, <3>2
  <2>2. \A k \in 1 .. n : written[k].tok.kind # "unclosed"
    BY <1>2, <1>5 DEF Has
  <2>3. AnyUnknown(vec) <=> \E k \in 1 .. n : Mistaken(written[k].tok)
    BY <1>3, <2>1, <2>2
  <2> QED
    BY <1>2, <1>5, <2>3
<1> QED
  BY <1>1, <1>4, <1>5 DEF ScanInv

\* Of every pattern made of the tokens, with any names and formats and of any
\* length, init() makes the items it was written from, and isError() tells
\* whether a name is unknown or a brace is open (a pattern with %% left aside)
THEOREM ParserInverts == FormatterSpec => []ParsedAsWritten
<1>1. FormatterSpec => []ParserInv
  BY FormatterInitInv, StepKeeps, PTL DEF FormatterSpec
<1> QED
  BY <1>1, ParserInvParsed, PTL
=============================================================================
