------------------------------- MODULE Config -------------------------------
(***************************************************************************)
(* The configuration: hps_Config, the registry of variables, and           *)
(* hps_ConfigVar, a typed value with listeners (config.h, config.cpp).     *)
(* Lookups are one critical section of the registry's lock; setValue()     *)
(* compares and notifies under the read lock of the variable and assigns   *)
(* under the write lock, and LoadFromYaml() does so for one key after the  *)
(* other, so both are cut there.                                           *)
(*                                                                         *)
(* A name is the sequence of its parts between dots.  A YAML document is   *)
(* the list of its nodes in document order, each with the keys that lead   *)
(* to it; a key may itself contain dots.  A node is a number, a word or a  *)
(* tree.  boost::lexical_cast and yaml-cpp turn a number into a value of   *)
(* either type; a word and the text of a tree only into a string.          *)
(***************************************************************************)
EXTENDS Integers, FiniteSets, Sequences, SequencesExt

CONSTANTS
  Clients,       \* threads that use the configuration
  Loaders,       \* bound: those that load files
  Names,         \* names the program looks up
  BadParts,      \* parts with a character outside a-z . _ 0-8
  Documents,     \* files the program loads
  MaxListeners   \* bound: addListener() calls

ASSUME ConfigAssumption ==
  /\ MaxListeners \in Nat /\ Loaders \subseteq Clients
  /\ \A doc \in Documents : doc \in Seq([path : Seq(Seq(STRING)), node : {"num", "word", "tree"}])

Types == {"int", "str"}

\* Values by what they came from: the default, the program, or a node
ValuesOf(type) == {"default", "given", "num"} \cup
                  (IF type = "str" THEN {"word", "tree"} ELSE {})

\* Mutant of Converts: what does not convert is not noticed
ConvertsAny(type, node) == TRUE

\* FromStr() throws otherwise
Converts(type, node) == node \in ValuesOf(type)

VARIABLES
  m_type,    \* of each name in s_datas, "none" when it is not there
  m_val, m_cbs,
  s_fun_id,
  at,        \* where a client is: "out", "key", "compare", "assign"
  queue,     \* of a client in LoadFromYaml(): the nodes still to come
  arg,       \* of a client in setValue(): the name and the value
  called,    \* of a client in setValue(): the listeners it called
  asked,     \* history: listeners added and not removed
  loading,   \* history: the document, or <<>>
  before,    \* history: s_datas and values when the load began
  touched    \* history: names others assigned since

configVars == <<m_type, m_val, m_cbs, s_fun_id, at, queue, arg, called, asked,
                loading, before, touched>>
history    == <<loading, before, touched>>

Registered == {n \in Names : m_type[n] # "none"}

\* The type invariant of the module: no variable holds a value of another type.
ConfigTypeOK ==
  /\ m_type \in [Names -> Types \cup {"none"}]
  /\ \A n \in Names : IF n \in Registered THEN m_val[n] \in ValuesOf(m_type[n])
                                          ELSE m_val[n] = "default" /\ m_cbs[n] = {}
  /\ \A n \in Names : m_cbs[n] \subseteq 1 .. s_fun_id
  /\ s_fun_id \in 0 .. MaxListeners
  /\ at \in [Clients -> {"out", "key", "compare", "assign"}]
  /\ \A c \in Clients : at[c] \in {"compare", "assign"} => arg[c][1] \in Registered

ConfigInit ==
  /\ m_type = [n \in Names |-> "none"]
  /\ m_val = [n \in Names |-> "default"]
  /\ m_cbs = [n \in Names |-> {}] /\ s_fun_id = 0
  /\ at = [c \in Clients |-> "out"] /\ queue = [c \in Clients |-> <<>>]
  /\ arg = [c \in Clients |-> <<>>] /\ called = [c \in Clients |-> {}]
  /\ asked = [n \in Names |-> {}]
  /\ loading = [c \in Clients |-> <<>>]
  /\ before = [c \in Clients |-> <<>>]
  /\ touched = [c \in Clients |-> {}]
-----------------------------------------------------------------------------
ValidKey(key) == \A k \in DOMAIN key : key[k] \notin BadParts

\* Lookup(name, default): makes the variable, or finds one.  For one of the
\* other type it returns NULL, for a name it does not allow it throws.
Lookup(n, type) ==
  /\ m_type[n] = "none" /\ ValidKey(n)
  /\ m_type' = [m_type EXCEPT ![n] = type]
  /\ UNCHANGED <<m_val, m_cbs, s_fun_id, at, queue, arg, called, asked, history>>

\* addListener(): the line that stores the callback is commented out
AddListener(n) ==
  /\ n \in Registered /\ s_fun_id < MaxListeners
  /\ s_fun_id' = s_fun_id + 1
  /\ m_cbs' = m_cbs
  /\ asked' = [asked EXCEPT ![n] = @ \cup {s_fun_id + 1}]
  /\ UNCHANGED <<m_type, m_val, at, queue, arg, called, history>>

\* delListener(), of one, and clearListener(), of all
DropListeners(n) ==
  /\ \E S \in ({{id} : id \in asked[n]} \cup {asked[n]}) \ {{}} :
       /\ m_cbs' = [m_cbs EXCEPT ![n] = @ \ S]
       /\ asked' = [asked EXCEPT ![n] = @ \ S]
  /\ UNCHANGED <<m_type, m_val, s_fun_id, at, queue, arg, called, history>>
-----------------------------------------------------------------------------
Goes(c, where) == at' = [at EXCEPT ![c] = where]

\* setValue() by the program, through a handle of the variable
SetValue(c, n) ==
  /\ at[c] = "out" /\ n \in Registered
  /\ Goes(c, "compare")
  /\ arg' = [arg EXCEPT ![c] = <<n, "given">>]
  /\ UNCHANGED <<m_type, m_val, m_cbs, s_fun_id, queue, called, asked, history>>

\* setValue() is done: back to LoadFromYaml() or out
Back(c) == IF loading[c] = <<>> THEN "out" ELSE "key"

\* Mutant of Same: the test is the wrong way round
SameNot(n, v) == m_val[n] # v

Same(n, v) == m_val[n] = v

\* Under the read lock: compare, and call the listeners
Compare(c) ==
  /\ at[c] = "compare"
  /\ IF Same(arg[c][1], arg[c][2])
       THEN Goes(c, Back(c)) /\ arg' = [arg EXCEPT ![c] = <<>>] /\ UNCHANGED called
       ELSE /\ Goes(c, "assign")
            /\ called' = [called EXCEPT ![c] = m_cbs[arg[c][1]]]
            /\ UNCHANGED arg
  /\ UNCHANGED <<m_type, m_val, m_cbs, s_fun_id, queue, asked, history>>

\* Under the write lock
Assign(c) ==
  /\ at[c] = "assign"
  /\ m_val' = [m_val EXCEPT ![arg[c][1]] = arg[c][2]]
  /\ touched' = [d \in Clients |-> IF d # c /\ loading[d] # <<>>
                                     THEN touched[d] \cup {arg[c][1]} ELSE touched[d]]
  /\ Goes(c, Back(c))
  /\ called' = [called EXCEPT ![c] = {}] /\ arg' = [arg EXCEPT ![c] = <<>>]
  /\ UNCHANGED <<m_type, m_cbs, s_fun_id, queue, asked, loading, before>>

\* ListAllMember() lists a node with its name unless some key on the way to it
\* has a character that is not allowed
Allowed(e) == \A k \in DOMAIN e.path : ValidKey(e.path[k])

NameOf(e) == FlattenSeq(e.path)

LoadFromYaml(c, doc) ==
  /\ at[c] = "out" /\ c \in Loaders
  /\ Goes(c, "key")
  /\ queue' = [queue EXCEPT ![c] = doc]
  /\ loading' = [loading EXCEPT ![c] = doc]
  /\ before' = [before EXCEPT ![c] = [n \in Registered |-> m_val[n]]]
  /\ touched' = [touched EXCEPT ![c] = {}]
  /\ UNCHANGED <<m_type, m_val, m_cbs, s_fun_id, arg, called, asked>>

\* Mutant of Skips: a conversion that fails ends the load
SkipsRest(c, e) ==
  IF Allowed(e) /\ NameOf(e) \in Registered /\ ~Converts(m_type[NameOf(e)], e.node)
    THEN <<>> ELSE Tail(queue[c])

\* fromString() catches what FromStr() throws: the load goes on
Skips(c, e) == Tail(queue[c])

\* One key: LookupBase(), and fromString() up to setValue().  The document
\* itself has an empty name, and a node that is not listed is passed over.
LoadKey(c) ==
  /\ at[c] = "key" /\ queue[c] # <<>>
  /\ LET e == Head(queue[c]) IN
       /\ IF Allowed(e) /\ NameOf(e) \in Registered /\ Converts(m_type[NameOf(e)], e.node)
            THEN /\ Goes(c, "compare")
                 /\ arg' = [arg EXCEPT ![c] = <<NameOf(e), e.node>>]
            ELSE UNCHANGED <<at, arg>>
       /\ queue' = [queue EXCEPT ![c] = Skips(c, e)]
  /\ UNCHANGED <<m_type, m_val, m_cbs, s_fun_id, called, asked, history>>

LoadEnds(c) ==
  /\ at[c] = "key" /\ queue[c] = <<>>
  /\ Goes(c, "out")
  /\ loading' = [loading EXCEPT ![c] = <<>>]
  /\ before' = [before EXCEPT ![c] = <<>>]
  /\ touched' = [touched EXCEPT ![c] = {}]
  /\ UNCHANGED <<m_type, m_val, m_cbs, s_fun_id, queue, arg, called, asked>>

ConfigNext ==
  \/ \E n \in Names : \/ \E type \in Types : Lookup(n, type)
                      \/ AddListener(n) \/ DropListeners(n)
  \/ \E c \in Clients :
       \/ \E n \in Names : SetValue(c, n)
       \/ \E doc \in Documents : LoadFromYaml(c, doc)
       \/ Compare(c) \/ Assign(c) \/ LoadKey(c) \/ LoadEnds(c)

ConfigSpec == ConfigInit /\ [][ConfigNext]_configVars
-----------------------------------------------------------------------------
(* Properties.                                                              *)

\* What a load makes of variable n: the last node of that name with allowed
\* keys that converts, or the value it had
Loaded(doc, n, old) ==
  LET hits == {k \in DOMAIN doc : /\ Allowed(doc[k]) /\ NameOf(doc[k]) = n
                                  /\ Converts(m_type[n], doc[k].node)}
  IN IF hits = {} THEN old ELSE doc[Max(hits)].node

\* At the end of LoadFromYaml() every variable that was registered when it
\* began and that nobody else assigned meanwhile has the file's value, or its
\* own where the file has none or one that does not convert: a bad value or a
\* bad key takes nothing else with it.
LoadApplied ==
  \A c \in Clients :
    loading[c] # <<>> /\ at[c] = "key" /\ queue[c] = <<>> =>
      \A n \in DOMAIN before[c] \ touched[c] :
        m_val[n] = Loaded(loading[c], n, before[c][n])

\* A setValue() that goes on to assign has called every listener that was
\* added and not removed.
ListenersCalled ==
  [][\A c \in Clients : at[c] = "compare" /\ at'[c] = "assign" =>
       called'[c] = asked[arg[c][1]]]_configVars
=============================================================================
