-------------------------------- MODULE Log --------------------------------
(***************************************************************************)
(* hps_Logger and its appenders (log.h, log.cpp) under concurrent use: who *)
(* holds which spinlock while events are written, formatters are set and   *)
(* appenders are attached, and when a file appender opens its file again.  *)
(*                                                                         *)
(* Every operation of a logger holds the logger's lock to its end.  The    *)
(* lock of an appender is held for one access at a time, so operations     *)
(* that touch appenders are cut between two accesses.  Levels are plain    *)
(* fields that setLevel() changes without a lock at any time: an event may *)
(* pass or fail each comparison.                                           *)
(***************************************************************************)
EXTENDS Integers, Sequences, SequencesExt

CONSTANTS
  Threads,
  Loggers, Root,  \* Root is m_root of every other logger and has none itself
  Files,          \* appenders of type hps_FileLogAppender
  Consoles,       \* appenders of type hps_StdoutLogAppender
  Default,        \* the formatter a logger is born with (getFormatter() shares it)
  Formatters,     \* others
  Null,           \* an empty pointer, and no thread
  ClearInUse,     \* whether users take the formatter away from an appender in use
  MaxTime,        \* bound: the clock, in seconds, goes from 1 to here
  MaxAttached     \* bound: addAppender() is called while fewer are attached

Appenders == Files \cup Consoles

ASSUME LogAssumption ==
  /\ Root \in Loggers /\ Files \cap Consoles = {} /\ Consoles # {}
  /\ Default \notin Formatters /\ Null \notin Formatters \cup {Default} \cup Threads
  /\ ClearInUse \in BOOLEAN
  /\ MaxTime \in Nat \ {0} /\ MaxAttached \in Nat \ {0}

VARIABLES
  now,             \* time(0)
  m_loggers,       \* of hps_LoggerManager
  holder,          \* of a logger's m_mutex
  m_formatter,     \* of a logger
  m_appenders,     \* of a logger
  formatter,       \* hps_LogAppender::m_formatter
  m_hasFormatter,
  own,             \* history: the formatter last given to an appender itself,
  overtaken,       \* and the appenders that got it while addAppender() was
                   \* about to give them its logger's
  since,           \* when a file appender's m_filestream was last opened
  m_latsTime,
  pc, log, todo,   \* of a thread: its logger, the appenders still to visit
  read,            \* of a thread in hps_FileLogAppender::log(): its local now
  fault            \* "format": m_formatter -> format() through an empty pointer

vars == <<now, m_loggers, holder, m_formatter, m_appenders, formatter, m_hasFormatter,
          own, overtaken, since, m_latsTime, pc, log, todo, read, fault>>

loggerVars   == <<m_formatter, m_appenders>>
appenderVars == <<formatter, m_hasFormatter, own, overtaken>>
fileVars     == <<since, m_latsTime>>

\* The one type invariant of the module.
TypeOK ==
  /\ now \in 1 .. MaxTime /\ Root \in m_loggers /\ m_loggers \subseteq Loggers
  /\ holder \in [Loggers -> Threads \cup {Null}]
  /\ m_formatter \in [Loggers -> Formatters \cup {Default}]
  /\ m_appenders \in [Loggers -> Seq(Appenders)]
  /\ formatter \in [Appenders -> Formatters \cup {Default, Null}]
  /\ own \in [Appenders -> Formatters \cup {Null}] /\ overtaken \subseteq Appenders
  /\ m_hasFormatter \in [Appenders -> BOOLEAN]
  /\ since \in [Files -> 1 .. MaxTime] /\ m_latsTime \in [Files -> 0 .. MaxTime]
  /\ pc \in [Threads -> {"out", "event", "append", "reopen", "stamp", "write",
                         "spread", "give", "push"}]
  /\ log \in [Threads -> Loggers] /\ todo \in [Threads -> Seq(Appenders)]
  /\ read \in [Threads -> 0 .. MaxTime]
  /\ fault \in {"none", "format"}

\* hps_LoggerManager(): the root logger has a console appender
Init ==
  /\ now = 1 /\ m_loggers = {Root}
  /\ holder = [l \in Loggers |-> Null]
  /\ m_formatter = [l \in Loggers |-> Default]
  /\ \E c \in Consoles :
       /\ m_appenders = [l \in Loggers |-> IF l = Root THEN <<c>> ELSE <<>>]
       /\ formatter = [a \in Appenders |-> IF a = c THEN Default ELSE Null]
  /\ m_hasFormatter = [a \in Appenders |-> FALSE]
  /\ own = [a \in Appenders |-> Null] /\ overtaken = {}
  /\ since = [a \in Files |-> 1] /\ m_latsTime = [a \in Files |-> 0]
  /\ pc = [t \in Threads |-> "out"] /\ log = [t \in Threads |-> Root]
  /\ todo = [t \in Threads |-> <<>>] /\ read = [t \in Threads |-> 0]
  /\ fault = "none"

-----------------------------------------------------------------------------
Running == fault = "none"

Goto(t, where) == pc' = [pc EXCEPT ![t] = where]

\* The locks t holds are released: its logger's, and root's if it went there
Release(t) == holder' = [l \in Loggers |-> IF holder[l] = t THEN Null ELSE holder[l]]

\* The call returns; log[t] says no more
Leave(t) == Goto(t, "out") /\ Release(t) /\ log' = [log EXCEPT ![t] = Root]

\* The appender t visits
Visited(t) == Head(todo[t])

\* Leave the appender: on to the next, or out
NextAppender(t, where) ==
  /\ todo' = [todo EXCEPT ![t] = Tail(@)]
  /\ IF Len(todo[t]) = 1 THEN Leave(t)
                         ELSE Goto(t, where) /\ UNCHANGED <<holder, log>>

\* Enter the loop over the appenders of l, holding its lock
Visit(t, l, where) ==
  /\ holder[l] = Null
  /\ todo' = [todo EXCEPT ![t] = m_appenders[l]]
  /\ IF m_appenders[l] = <<>>
       THEN Leave(t)
       ELSE /\ Goto(t, where)
            /\ holder' = [holder EXCEPT ![l] = t] /\ log' = [log EXCEPT ![t] = l]

\* getLogger(): a logger is made when its name is first asked for, under the
\* manager's lock
GetLogger(l) ==
  /\ Running /\ l \notin m_loggers
  /\ m_loggers' = m_loggers \cup {l}
  /\ UNCHANGED <<now, holder, loggerVars, appenderVars, fileVars, pc, log, todo, read, fault>>

\* A thread is about to enter log() of l: ~hps_LogEventWarp calls it once the
\* logger's level has let the event pass, or a logger without appenders hands
\* the event to root ("event", with that logger's lock held)
Enters(t, l) ==
  /\ Running /\ l \in m_loggers
  /\ pc[t] = "out" \/ (pc[t] = "event" /\ l = Root)

\* Logger::log() of root: its level keeps the event out.  Of another logger
\* this changes nothing.
EventDropped(t) ==
  /\ Running /\ pc[t] = "event"
  /\ Leave(t)
  /\ UNCHANGED <<now, m_loggers, loggerVars, appenderVars, fileVars, todo, read, fault>>

\* Logger::log() with appenders, or of root
LogHere(t, l) ==
  /\ Enters(t, l) /\ (l = Root \/ m_appenders[l] # <<>>)
  /\ Visit(t, l, "append")
  /\ UNCHANGED <<now, m_loggers, loggerVars, appenderVars, fileVars, read, fault>>

\* Logger::log() without: the event goes to root's log(), this logger's lock
\* stays held
LogToRoot(t, l) ==
  /\ Enters(t, l) /\ l # Root /\ m_appenders[l] = <<>> /\ holder[l] = Null
  /\ holder' = [holder EXCEPT ![l] = t]
  /\ Goto(t, "event")
  /\ UNCHANGED <<now, m_loggers, loggerVars, appenderVars, fileVars, log, todo, read, fault>>

\* An appender's level keeps the event out
AppendNot(t) ==
  /\ Running /\ pc[t] = "append"
  /\ NextAppender(t, "append")
  /\ UNCHANGED <<now, m_loggers, loggerVars, appenderVars, fileVars, read, fault>>

\* StdoutLogAppender::log() and FileLogAppender::log() up to the next lock:
\* a file is opened again once per second
AppendLine(t) ==
  /\ Running /\ pc[t] = "append"
  /\ IF Visited(t) \in Files /\ now # m_latsTime[Visited(t)]
       THEN Goto(t, "reopen") ELSE Goto(t, "write")
  /\ read' = [read EXCEPT ![t] = now]
  /\ UNCHANGED <<now, m_loggers, holder, loggerVars, appenderVars, fileVars, log, todo, fault>>

\* Mutant of Reopen: the file stays as it is
ReopenNot(t) ==
  /\ Running /\ pc[t] = "reopen"
  /\ Goto(t, "stamp")
  /\ UNCHANGED <<now, m_loggers, holder, loggerVars, appenderVars, fileVars, log, todo, read, fault>>

\* reopen(), under the appender's lock
Reopen(t) ==
  /\ Running /\ pc[t] = "reopen"
  /\ since' = [since EXCEPT ![Visited(t)] = now]
  /\ Goto(t, "stamp")
  /\ UNCHANGED <<now, m_loggers, holder, loggerVars, appenderVars, m_latsTime, log, todo, read, fault>>

\* Mutant of Stamp: the next second is noted
StampNext(t) ==
  /\ Running /\ pc[t] = "stamp"
  /\ m_latsTime' = [m_latsTime EXCEPT ![Visited(t)] = read[t] + 1]
  /\ Goto(t, "write")
  /\ UNCHANGED <<now, m_loggers, holder, loggerVars, appenderVars, since, log, todo, read, fault>>

\* m_latsTime = now, after it and without the lock
Stamp(t) ==
  /\ Running /\ pc[t] = "stamp"
  /\ m_latsTime' = [m_latsTime EXCEPT ![Visited(t)] = read[t]]
  /\ Goto(t, "write")
  /\ UNCHANGED <<now, m_loggers, holder, loggerVars, appenderVars, since, log, todo, read, fault>>

\* The line is formatted and written under the appender's lock
Write(t) ==
  /\ Running /\ pc[t] = "write"
  /\ IF formatter[Visited(t)] = Null
       THEN fault' = "format" /\ UNCHANGED <<holder, pc, log, todo>>
       ELSE fault' = fault /\ NextAppender(t, "append")
  /\ read' = [read EXCEPT ![t] = 0]
  /\ UNCHANGED <<now, m_loggers, loggerVars, appenderVars, fileVars>>

-----------------------------------------------------------------------------
\* Logger::setFormatter(): the logger's own, then, one by one, that of the
\* appenders that have none of their own
SetFormatter(t, l, f) ==
  /\ Running /\ pc[t] = "out"
  /\ Visit(t, l, "spread")
  /\ m_formatter' = [m_formatter EXCEPT ![l] = f]
  /\ UNCHANGED <<now, m_loggers, m_appenders, appenderVars, fileVars, read, fault>>

\* Mutant of Inherits: also those that have
InheritsAlways(a) == TRUE

Inherits(a) == ~m_hasFormatter[a]

Spread(t) ==
  /\ Running /\ pc[t] = "spread"
  /\ formatter' = IF Inherits(Visited(t))
                    THEN [formatter EXCEPT ![Visited(t)] = m_formatter[log[t]]]
                    ELSE formatter
  /\ NextAppender(t, "spread")
  /\ UNCHANGED <<now, m_loggers, loggerVars, m_hasFormatter, own, overtaken, fileVars, read, fault>>

\* Mutant of NeedsFormatter: an appender keeps what it has
NeedsFormatterNot(a) == FALSE

NeedsFormatter(a) == formatter[a] = Null

\* How many appenders the loggers have, those of several counted again
Attached == FoldFunction(LAMBDA s, n : Len(s) + n, 0, m_appenders)

\* Logger::addAppender() asks for the appender's formatter ...
AddAppender(t, l, a) ==
  /\ Running /\ pc[t] = "out" /\ holder[l] = Null
  /\ Attached < MaxAttached
  /\ holder' = [holder EXCEPT ![l] = t]
  /\ log' = [log EXCEPT ![t] = l] /\ todo' = [todo EXCEPT ![t] = <<a>>]
  /\ Goto(t, IF NeedsFormatter(a) THEN "give" ELSE "push")
  /\ UNCHANGED <<now, m_loggers, loggerVars, appenderVars, fileVars, read, fault>>

\* ... gives it the logger's if there was none ...
Give(t) ==
  /\ Running /\ pc[t] = "give"
  /\ formatter' = [formatter EXCEPT ![Visited(t)] = m_formatter[log[t]]]
  /\ Goto(t, "push")
  /\ UNCHANGED <<now, m_loggers, holder, loggerVars, m_hasFormatter, own, overtaken, fileVars,
                 log, todo, read, fault>>

\* ... and appends it to the list
Push(t) ==
  /\ Running /\ pc[t] = "push"
  /\ m_appenders' = [m_appenders EXCEPT ![log[t]] = Append(@, Visited(t))]
  /\ NextAppender(t, "out")
  /\ UNCHANGED <<now, m_loggers, m_formatter, appenderVars, fileVars, read, fault>>

\* Mutant of DelAppender: the lock is not taken
DelAppenderAnyway(t, l, a) ==
  /\ Running /\ pc[t] = "out"
  /\ Contains(m_appenders[l], a)
  /\ m_appenders' = [m_appenders EXCEPT ![l] = RemoveFirst(@, a)]
  /\ UNCHANGED <<now, m_loggers, holder, m_formatter, appenderVars, fileVars, pc, log, todo,
                 read, fault>>

\* Logger::delAppender(): the first occurrence
DelAppender(t, l, a) ==
  /\ Running /\ pc[t] = "out" /\ holder[l] = Null
  /\ Contains(m_appenders[l], a)
  /\ m_appenders' = [m_appenders EXCEPT ![l] = RemoveFirst(@, a)]
  /\ UNCHANGED <<now, m_loggers, holder, m_formatter, appenderVars, fileVars, pc, log, todo,
                 read, fault>>

\* Logger::clearAppenders()
ClearAppenders(t, l) ==
  /\ Running /\ pc[t] = "out" /\ holder[l] = Null
  /\ m_appenders[l] # <<>>
  /\ m_appenders' = [m_appenders EXCEPT ![l] = <<>>]
  /\ UNCHANGED <<now, m_loggers, holder, m_formatter, appenderVars, fileVars, pc, log, todo,
                 read, fault>>

\* Some logger has the appender, or is about to
InUse(a) ==
  \/ \E l \in Loggers : Contains(m_appenders[l], a)
  \/ \E t \in Threads : pc[t] # "out" /\ Contains(todo[t], a)

\* addAppender() has found it without a formatter
Awaited(a) == \E t \in Threads : pc[t] = "give" /\ Visited(t) = a

\* LogAppender::setFormatter(), at any time
SetOwnFormatter(t, a, f) ==
  /\ Running /\ pc[t] = "out"
  /\ f = Null /\ InUse(a) => ClearInUse
  /\ formatter' = [formatter EXCEPT ![a] = f]
  /\ m_hasFormatter' = [m_hasFormatter EXCEPT ![a] = (f # Null)]
  /\ own' = [own EXCEPT ![a] = f]
  /\ overtaken' = IF Awaited(a) THEN overtaken \cup {a} ELSE overtaken \ {a}
  /\ UNCHANGED <<now, m_loggers, holder, loggerVars, fileVars, pc, log, todo, read, fault>>

Tick ==
  /\ Running /\ now < MaxTime
  /\ now' = now + 1
  /\ UNCHANGED <<m_loggers, holder, loggerVars, appenderVars, fileVars, pc, log, todo, read, fault>>

-----------------------------------------------------------------------------
LogStep(t) ==
  \/ \E l \in Loggers : LogHere(t, l) \/ LogToRoot(t, l)
  \/ EventDropped(t)
  \/ AppendNot(t) \/ AppendLine(t) \/ Reopen(t) \/ Stamp(t) \/ Write(t)

SetupStep(t) ==
  \/ \E l \in m_loggers, f \in Formatters \cup {Default} : SetFormatter(t, l, f)
  \/ \E l \in m_loggers, a \in Appenders : AddAppender(t, l, a) \/ DelAppender(t, l, a)
  \/ Spread(t) \/ Give(t) \/ Push(t)
  \/ \E l \in m_loggers : ClearAppenders(t, l)
  \/ \E a \in Appenders, f \in Formatters \cup {Null} : SetOwnFormatter(t, a, f)

Next == (\E t \in Threads : LogStep(t) \/ SetupStep(t)) \/ (\E l \in Loggers : GetLogger(l)) \/ Tick

Spec == Init /\ [][Next]_vars

-----------------------------------------------------------------------------
(* Properties.                                                              *)

\* log() never formats through an empty pointer: addAppender() leaves no
\* appender without a formatter, whatever other loggers do with it meanwhile.
NeverUnformatted == fault = "none"

\* A line goes to a file that was opened no earlier than the second in which
\* log() read the clock, also when several loggers share the appender: a log
\* file that is moved away is left within a second.
FreshFile ==
  \A t \in Threads :
    pc[t] = "write" /\ Visited(t) \in Files => since[Visited(t)] >= read[t]

\* No logger replaces a formatter that was given to the appender itself, by
\* setFormatter() or by addAppender(), but in one window: addAppender() asks
\* for the formatter and gives its logger's under two separate locks, and one
\* that the appender gets in between is lost.
OwnFormatterKept ==
  \A a \in Appenders \ overtaken : own[a] # Null => formatter[a] = own[a]

\* r is what a loop over s has left
RestOf(r, s) ==
  Len(r) <= Len(s) /\ \A i \in 1 .. Len(r) : r[i] = s[Len(s) - Len(r) + i]

\* The list of appenders a thread loops over is not changed under it: nobody
\* invalidates the iterator of log() and setFormatter(), also when the loop is
\* root's and was reached from another logger.
LoopsUndisturbed ==
  \A t \in Threads :
    pc[t] \in {"append", "reopen", "stamp", "write", "spread"} =>
      RestOf(todo[t], m_appenders[log[t]])
=============================================================================
