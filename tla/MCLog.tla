------------------------------- MODULE MCLog -------------------------------
(***************************************************************************)
(* Log, LogFormatter, LogDefines and Config for TLC.  The four keep their  *)
(* state apart: a formatter and the definitions are read by one thread in  *)
(* objects of its own, the configuration reaches the loggers only through  *)
(* a listener that is never called.  So each is explored by itself, with   *)
(* the others in their first state.                                        *)
(***************************************************************************)
EXTENDS Log, LogFormatter, LogDefines, MCConfig

VARIABLE part  \* the one that is explored

\* The threads are interchangeable
ThreadSymmetry == Permutations(Threads)

\* A known and an unknown name, one of them longer; a format with everything
\* but its end
MCKeys      == {<<"d">>}
MCItemNames == {<<"d">>, <<"q", "d">>}
MCFormats   == {<<>>, <<"%", "d", "{">>}

\* Some of the keys, each with one of its values
Maps(records) == {Keep(p[1], p[2]) : p \in UNION {{r} \X SUBSET DOMAIN r : r \in records}}

AppenderMaps ==
  Maps([type : {"hps_FileLogAppender", "hps_StdoutLogAppender", "hps_FileAppender"},
        file : {"f"}, formatter : {"%m"}, level : {"info"}])

\* One definition with two appenders, or several with at most one
OneDefine  == {<<n>> : n \in Maps([name : {"a"}, level : {"info", "loud"}, formatter : {"%m"},
                                   appenders : AppenderMaps \X AppenderMaps])}
TwoDefines == LET ns == Maps([name : {"a", "b"}, level : {"WARN", "loud"},
                              appenders : {<<>>} \cup
                                {<<[type |-> "hps_FileLogAppender", file |-> f]>> : f \in {"f", "g"}}])
              IN ns \X ns

MCLists == OneDefine \cup TwoDefines

LogInit ==
  /\ part \in {"log", "formatter", "defines", "config"}
  /\ yaml \in IF part = "defines" THEN Lists ELSE {<<[name |-> "a"]>>}
  /\ Init /\ FormatterInit /\ DefinesInit /\ ConfigInit

LogNext ==
  /\ UNCHANGED part
  /\ \/ part = "log" /\ Next /\ UNCHANGED <<formatterVars, definesVars, configVars>>
     \/ part = "formatter" /\ FormatterNext /\ UNCHANGED <<vars, definesVars, configVars>>
     \/ part = "defines" /\ DefinesNext /\ UNCHANGED <<vars, formatterVars, configVars>>
     \/ part = "config" /\ ConfigNext /\ UNCHANGED <<vars, formatterVars, definesVars>>
     \/ /\ built \/ stage = "printed"
        /\ UNCHANGED <<vars, formatterVars, definesVars, configVars>>

LogSpec == LogInit /\ [][LogNext]_<<part, vars, formatterVars, definesVars, configVars>>
=============================================================================
