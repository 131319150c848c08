----------------------------- MODULE LogDefines -----------------------------
(***************************************************************************)
(* The value of the configuration variable "logs" (log.cpp): how a YAML    *)
(* list of logger definitions becomes a set of hps_LogDefine, and how that *)
(* set is printed.  A YAML map is a function whose domain is the keys that *)
(* are there; the text of a node is read back by yaml-cpp as that node.    *)
(***************************************************************************)
EXTENDS Integers, Sequences, SequencesExt

CONSTANTS
  Lists   \* YAML lists of logger definitions to start from

IsList(list) == list \in Seq({list[x] : x \in DOMAIN list})

\* A list of maps; what "appenders" stands for is a list
ASSUME ListsAssumption ==
  \A list \in Lists :
    /\ IsList(list)
    /\ \A k \in DOMAIN list :
         "appenders" \in DOMAIN list[k] => IsList(list[k]["appenders"])

\* FromString(): a word in one case or the other; "" and "loud" are none.
\* ToString() gives the upper case.
FromString(str) ==
  CASE str \in {"info", "INFO"} -> "INFO"
    [] str \in {"warn", "WARN"} -> "WARN"
    [] OTHER                    -> "UNKNOW"

Get(map, key) == IF key \in DOMAIN map THEN map[key] ELSE ""

\* A map of the keys in S
Keep(map, S) == [key \in S |-> map[key]]
-----------------------------------------------------------------------------
(* From a node to a value.                                                  *)

\* type, and file of a file, must be there
Usable(a) ==
  \/ Get(a, "type") = "hps_FileLogAppender" /\ "file" \in DOMAIN a
  \/ Get(a, "type") = "hps_StdoutLogAppender"

\* The level of an appender is not read, nor is the formatter of a console
ReadAppender(a) ==
  IF a["type"] = "hps_FileLogAppender"
    THEN [type |-> 1, level |-> "UNKNOW", formatter |-> Get(a, "formatter"), file |-> a["file"]]
    ELSE [type |-> 2, level |-> "UNKNOW", formatter |-> "", file |-> ""]

\* The appenders after each turn of the loop over them
ReadAll(as) ==
  LET read[x \in 0 .. Len(as)] ==
        IF x = 0 THEN <<>>
        ELSE IF Usable(as[x]) THEN Append(read[x - 1], ReadAppender(as[x])) ELSE read[x - 1]
  IN read[Len(as)]

ReadDefine(n) ==
  [name |-> n["name"], level |-> FromString(Get(n, "level")), formatter |-> Get(n, "formatter"),
   appenders |-> IF "appenders" \in DOMAIN n THEN ReadAll(n["appenders"]) ELSE <<>>]

\* std::set::insert, ordered by name
Insert(vec, ld) == IF \E e \in vec : e.name = ld.name THEN vec ELSE vec \cup {ld}

\* The set after each turn of the loop over the definitions
FromNode(node) ==
  LET read[k \in 0 .. Len(node)] ==
        IF k = 0 THEN {}
        ELSE IF "name" \in DOMAIN node[k] THEN Insert(read[k - 1], ReadDefine(node[k]))
        ELSE read[k - 1]
  IN read[Len(node)]
-----------------------------------------------------------------------------
(* From a value to a node.                                                  *)

\* Mutant of PrintsFile: the key is left out
PrintsFileNot(lad) == {"type"}

PrintsFile(lad) == IF lad.type = 1 THEN {"type", "file"} ELSE {"type"}

\* Keys that are left out when there is nothing to say
Optional(d) == (IF d.level # "UNKNOW" THEN {"level"} ELSE {}) \cup
               (IF d.formatter # "" THEN {"formatter"} ELSE {})

PrintAppender(lad) ==
  Keep([type |-> IF lad.type = 1 THEN "hps_FileLogAppender" ELSE "hps_StdoutLogAppender",
        file |-> lad.file, level |-> lad.level, formatter |-> lad.formatter],
       PrintsFile(lad) \cup Optional(lad))

PrintDefine(ld) ==
  Keep([name |-> ld.name, level |-> ld.level, formatter |-> ld.formatter,
        appenders |-> [x \in DOMAIN ld.appenders |-> PrintAppender(ld.appenders[x])]],
       {"name"} \cup Optional(ld) \cup (IF ld.appenders = <<>> THEN {} ELSE {"appenders"}))

\* In the order of the names, which is left open here
ToNodes(vec) == {[k \in DOMAIN order |-> PrintDefine(order[k])] : order \in SetToSeqs(vec)}
-----------------------------------------------------------------------------
VARIABLES
  yaml,     \* the node in hand
  defines,  \* the value of "logs"
  stage     \* "text", "value" or "printed"

definesVars == <<yaml, defines, stage>>

DefinesInit == yaml \in Lists /\ defines = {} /\ stage = "text"

\* fromString() of a file's text
ReadText ==
  /\ stage = "text"
  /\ defines' = FromNode(yaml)
  /\ stage' = "value" /\ UNCHANGED yaml

\* toString()
PrintValue ==
  /\ stage = "value"
  /\ yaml' \in ToNodes(defines)
  /\ stage' = "printed" /\ UNCHANGED defines

DefinesNext == ReadText \/ PrintValue

DefinesSpec == DefinesInit /\ [][DefinesNext]_definesVars
-----------------------------------------------------------------------------
(* Properties.                                                              *)

\* A printed value is read back as the same value: loading a dump of the
\* configuration changes no logger and, through the comparison in setValue(),
\* announces nothing.
ReloadKeeps == stage = "printed" => FromNode(yaml) = defines
=============================================================================
