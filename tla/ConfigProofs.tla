---------------------------- MODULE ConfigProofs ----------------------------
(***************************************************************************)
(* The configuration, for any names, documents and clients: values keep    *)
(* their types, and a load applies its file node by node however the       *)
(* assignments of other threads come in between.  And the value of "logs", *)
(* for any list of definitions: what is printed is read back.              *)
(***************************************************************************)
EXTENDS Config, LogDefines, SequenceTheorems, FiniteSetTheorems, FunctionTheorems,
        WellFoundedInduction, NaturalsInduction, TLAPS

-----------------------------------------------------------------------------
(* The inductive invariant.                                                 *)

Values == {"default", "given", "num", "word", "tree"}
Nodes  == [path : Seq(Seq(STRING)), node : {"num", "word", "tree"}]

\* What every variable is a function of
Shape ==
  /\ m_val \in [Names -> Values] /\ m_cbs \in [Names -> SUBSET Nat]
  /\ asked \in [Names -> SUBSET Nat]
  /\ arg \in [Clients -> {<<>>} \cup (Names \X Values)]
  /\ called \in [Clients -> SUBSET Nat]
  /\ queue \in [Clients -> Seq(Nodes)] /\ loading \in [Clients -> Seq(Nodes)]
  /\ touched \in [Clients -> SUBSET Names]
  /\ before = [c \in Clients |-> before[c]]

InSet(c) == at[c] \in {"compare", "assign"}

\* A value on its way into a variable has the variable's type
ArgInv ==
  \A c \in Clients : InSet(c) =>
    \E n \in Registered : \E v \in ValuesOf(m_type[n]) : arg[c] = <<n, v>>

\* Node e is for the variable n of the given type
Hit(e, n, type) == Allowed(e) /\ NameOf(e) = n /\ Converts(type, e.node)

\* After m nodes of doc a variable that had the value old has the value v
Upto(doc, m, n, type, old, v) ==
  \/ v = old /\ \A k \in 1 .. m : ~Hit(doc[k], n, type)
  \/ \E k \in 1 .. m : /\ Hit(doc[k], n, type) /\ v = doc[k].node
                       /\ \A l \in 1 .. m : Hit(doc[l], n, type) => l <= k

\* The value n has once c's setValue() is done
Settling(c, n) == IF InSet(c) /\ arg[c][1] = n THEN arg[c][2] ELSE m_val[n]

\* c has dealt with m nodes of its document, and with no other
Progress(c, m) ==
  /\ m \in 0 .. Len(loading[c])
  /\ Len(queue[c]) = Len(loading[c]) - m
  /\ \A i \in 1 .. Len(queue[c]) : queue[c][i] = loading[c][i + m]
  /\ DOMAIN before[c] \subseteq Registered
  /\ \A n \in DOMAIN before[c] \ touched[c] :
       Upto(loading[c], m, n, m_type[n], before[c][n], Settling(c, n))

LoadInv ==
  \A c \in Clients : loading[c] # <<>> => at[c] # "out" /\ \E m \in Nat : Progress(c, m)

CInv == ConfigTypeOK /\ Shape /\ ArgInv /\ LoadInv

-----------------------------------------------------------------------------
(* Nodes and values.                                                        *)

\* Every value some type allows
LEMMA ValuesFacts ==
  /\ \A type \in Types : ValuesOf(type) \subseteq Values
  /\ \A type \in Types : "default" \in ValuesOf(type) /\ "given" \in ValuesOf(type)
BY DEF ValuesOf, Values, Types

\* A node that is not for a variable leaves it as it was
LEMMA UptoSkips ==
  ASSUME NEW doc, NEW m \in Nat, NEW n, NEW type, NEW old, NEW v,
         Upto(doc, m, n, type, old, v), ~Hit(doc[m + 1], n, type)
  PROVE  Upto(doc, m + 1, n, type, old, v)
<1>1. \A k \in 1 .. m + 1 : k \in 1 .. m \/ k = m + 1
  OBVIOUS
<1>2. \A k \in 1 .. m : k \in 1 .. m + 1
  OBVIOUS
<1> QED
  BY <1>1, <1>2 DEF Upto

\* A node that is for a variable gives it its value
LEMMA UptoTakes ==
  ASSUME NEW doc, NEW m \in Nat, NEW n, NEW type, NEW old, Hit(doc[m + 1], n, type)
  PROVE  Upto(doc, m + 1, n, type, old, doc[m + 1].node)
<1>1. m + 1 \in 1 .. m + 1 /\ \A l \in 1 .. m + 1 : l <= m + 1
  OBVIOUS
<1> QED
  BY <1>1 DEF Upto

\* A step that takes nothing from c's queue leaves its progress as it was, if
\* the variables it may have changed count as touched
LEMMA ProgressKept ==
  ASSUME NEW c \in Clients, NEW m, Progress(c, m),
         loading'[c] = loading[c], queue'[c] = queue[c], before'[c] = before[c],
         touched[c] \subseteq touched'[c],
         \A n \in Registered : n \in Registered' /\ m_type'[n] = m_type[n],
         \A n \in DOMAIN before[c] \ touched'[c] : Settling(c, n)' = Settling(c, n)
  PROVE  Progress(c, m)'
<1>1. DOMAIN before[c] \subseteq Registered
  BY DEF Progress
<1>2. ASSUME NEW n \in DOMAIN before[c] \ touched'[c]
      PROVE  Upto(loading[c], m, n, m_type'[n], before[c][n], Settling(c, n)')
  <2>1. m_type'[n] = m_type[n] /\ n \in DOMAIN before[c] \ touched[c]
    BY <1>1
  <2>2. Upto(loading[c], m, n, m_type[n], before[c][n], Settling(c, n))
    BY <2>1 DEF Progress
  <2> QED
    BY <2>1, <2>2
<1> HIDE DEF Settling, Upto
<1> QED
  BY <1>1, <1>2 DEF Progress

-----------------------------------------------------------------------------
(* Every step keeps the invariant.                                          *)

\* The variables a client that does not act keeps
LEMMA OtherClient ==
  ASSUME CInv, NEW c \in Clients,
         loading'[c] = loading[c], queue'[c] = queue[c], before'[c] = before[c],
         at'[c] = at[c], arg'[c] = arg[c], touched[c] \subseteq touched'[c],
         \A n \in Registered : n \in Registered' /\ m_type'[n] = m_type[n],
         loading[c] # <<>> => \A n \in Names \ touched'[c] : m_val'[n] = m_val[n]
  PROVE  loading'[c] # <<>> => at'[c] # "out" /\ \E m \in Nat : Progress(c, m)'
<1> SUFFICES ASSUME loading[c] # <<>>
             PROVE  at[c] # "out" /\ \E m \in Nat : Progress(c, m)'
  OBVIOUS
<1>1. at[c] # "out"
  BY DEF CInv, LoadInv
<1>2. PICK m \in Nat : Progress(c, m)
  BY DEF CInv, LoadInv
<1>3. DOMAIN before[c] \subseteq Names
  BY <1>2 DEF Progress, Registered
<1>4. \A n \in DOMAIN before[c] \ touched'[c] : Settling(c, n)' = Settling(c, n)
  BY <1>3 DEF Settling, InSet
<1>5. Progress(c, m)'
  BY <1>2, <1>4, ProgressKept
<1> QED
  BY <1>1, <1>5

\* Values keep their types, as long as types stay what they are
LEMMA ArgKept ==
  ASSUME CInv, NEW c \in Clients, at'[c] = at[c], arg'[c] = arg[c],
         \A n \in Registered : n \in Registered' /\ m_type'[n] = m_type[n]
  PROVE  InSet(c)' => \E n \in Registered' : \E v \in ValuesOf(m_type'[n]) : arg'[c] = <<n, v>>
BY DEF CInv, ArgInv, InSet

\* The argument of a setValue() under way
LEMMA ArgFacts ==
  ASSUME CInv, NEW c \in Clients, InSet(c)
  PROVE  /\ arg[c][1] \in Registered /\ arg[c][1] \in Names
         /\ arg[c][2] \in ValuesOf(m_type[arg[c][1]]) /\ arg[c][2] \in Values
         /\ arg[c] = <<arg[c][1], arg[c][2]>>
<1>0. PICK n \in Registered : \E v \in ValuesOf(m_type[n]) : arg[c] = <<n, v>>
  BY DEF CInv, ArgInv
<1>1. PICK v \in ValuesOf(m_type[n]) : arg[c] = <<n, v>>
  BY <1>0
<1>2. m_type[n] \in Types /\ n \in Names
  BY DEF Registered, CInv, ConfigTypeOK
<1>3. v \in Values
  BY <1>2, ValuesFacts
<1> QED
  BY <1>1, <1>2, <1>3

LEMMA LookupKeeps ==
  ASSUME CInv, NEW n \in Names, NEW type \in Types, Lookup(n, type)
  PROVE  CInv'
<1> USE DEF Lookup, history
<1>1. /\ m_type' \in [Names -> Types \cup {"none"}]
      /\ \A k \in Names : k # n => m_type'[k] = m_type[k]
      /\ m_type'[n] = type /\ n \notin Registered
  BY DEF CInv, ConfigTypeOK, Registered
<1>2. Registered' = Registered \cup {n}
  BY <1>1 DEF Registered, Types
<1>3. \A k \in Registered : k \in Registered' /\ m_type'[k] = m_type[k]
  BY <1>1, <1>2 DEF Registered
<1>4. ConfigTypeOK'
  BY <1>1, <1>2, <1>3, ValuesFacts DEF CInv, ConfigTypeOK
<1>5. Shape'
  BY DEF CInv, Shape
<1>6. ArgInv'
  BY <1>3, ArgKept DEF ArgInv
<1>7. LoadInv'
  BY <1>3, OtherClient DEF LoadInv
<1> QED
  BY <1>4, <1>5, <1>6, <1>7 DEF CInv

LEMMA ListenersKeep ==
  ASSUME CInv, NEW n \in Names, AddListener(n) \/ DropListeners(n)
  PROVE  CInv'
<1> USE DEF history
<1>1. /\ UNCHANGED <<m_type, m_val, at, queue, arg, called, loading, before, touched>>
      /\ Registered' = Registered
  BY DEF AddListener, DropListeners, Registered
<1>2. s_fun_id \in Nat /\ MaxListeners \in Nat
  BY ConfigAssumption DEF CInv, ConfigTypeOK
<1>3. /\ s_fun_id' \in 0 .. MaxListeners /\ s_fun_id <= s_fun_id'
      /\ \A k \in Names : m_cbs'[k] \subseteq m_cbs[k]
      /\ m_cbs' \in [Names -> SUBSET Nat] /\ asked' \in [Names -> SUBSET Nat]
  <2>1. CASE AddListener(n)
    BY <1>2, <2>1 DEF AddListener, CInv, Shape, ConfigTypeOK
  <2>2. CASE DropListeners(n)
    BY <1>2, <2>2 DEF DropListeners, CInv, Shape, ConfigTypeOK
  <2> QED
    BY <2>1, <2>2
<1>4. 1 .. s_fun_id \subseteq 1 .. s_fun_id'
  BY <1>2, <1>3
<1>5. ConfigTypeOK'
  BY <1>1, <1>3, <1>4 DEF CInv, ConfigTypeOK
<1>6. Shape'
  BY <1>1, <1>3 DEF CInv, Shape
<1>7. \A k \in Registered : k \in Registered' /\ m_type'[k] = m_type[k]
  BY <1>1
<1>8. ArgInv'
  BY <1>1, <1>7, ArgKept DEF ArgInv
<1>9. LoadInv'
  BY <1>1, <1>7, OtherClient DEF LoadInv
<1> QED
  BY <1>5, <1>6, <1>8, <1>9 DEF CInv

\* What a step of client c leaves alone of the others
Others(c) ==
  /\ UNCHANGED <<m_type, m_cbs, s_fun_id, asked>>
  /\ \A d \in Clients \ {c} :
       /\ loading'[d] = loading[d] /\ queue'[d] = queue[d] /\ before'[d] = before[d]
       /\ at'[d] = at[d] /\ arg'[d] = arg[d] /\ touched[d] \subseteq touched'[d]
       /\ loading[d] # <<>> => \A n \in Names \ touched'[d] : m_val'[n] = m_val[n]

\* A step of a client keeps the invariant if it does so for the client itself
LEMMA ClientKeeps ==
  ASSUME CInv, NEW c \in Clients, Others(c), Shape',
         at' \in [Clients -> {"out", "key", "compare", "assign"}],
         \A n \in Names : m_val'[n] = m_val[n] \/ (n \in Registered /\ m_val'[n] \in ValuesOf(m_type[n])),
         InSet(c)' => \E n \in Registered : \E v \in ValuesOf(m_type[n]) : arg'[c] = <<n, v>>,
         loading'[c] # <<>> => at'[c] # "out" /\ \E m \in Nat : Progress(c, m)'
  PROVE  CInv'
<1>1. m_type' = m_type /\ Registered' = Registered /\ m_cbs' = m_cbs /\ s_fun_id' = s_fun_id
  BY DEF Others, Registered
<1>2. \A k \in Registered : k \in Registered' /\ m_type'[k] = m_type[k]
  BY <1>1
<1>3. ArgInv'
  <2> SUFFICES ASSUME NEW d \in Clients, InSet(d)'
               PROVE  \E n \in Registered : \E v \in ValuesOf(m_type[n]) : arg'[d] = <<n, v>>
    BY <1>1 DEF ArgInv
  <2>1. CASE d # c
    <3>1. at'[d] = at[d] /\ arg'[d] = arg[d]
      BY <2>1 DEF Others
    <3> QED
      BY <1>1, <1>2, <3>1, ArgKept
  <2> QED
    BY <2>1
<1>4. LoadInv'
  <2> SUFFICES ASSUME NEW d \in Clients
               PROVE  loading'[d] # <<>> => at'[d] # "out" /\ \E m \in Nat : Progress(d, m)'
    BY DEF LoadInv
  <2>1. CASE d # c
    BY <1>2, <2>1, OtherClient DEF Others
  <2> QED
    BY <2>1
<1>5. \A d \in Clients : at'[d] \in {"compare", "assign"} => arg'[d][1] \in Registered
  BY <1>1, <1>3 DEF ArgInv, InSet
<1>6. \A n \in Names : IF n \in Registered THEN m_val'[n] \in ValuesOf(m_type[n])
                                           ELSE m_val'[n] = "default" /\ m_cbs[n] = {}
  BY DEF CInv, ConfigTypeOK
<1>7. ConfigTypeOK'
  BY <1>1, <1>5, <1>6 DEF CInv, ConfigTypeOK
<1> QED
  BY <1>3, <1>4, <1>7 DEF CInv

LEMMA SetValueKeeps ==
  ASSUME CInv, NEW c \in Clients, NEW n \in Names, SetValue(c, n)
  PROVE  CInv'
<1> USE DEF history
<1>1. /\ n \in Registered /\ at[c] = "out" /\ at' = [at EXCEPT ![c] = "compare"]
      /\ arg' = [arg EXCEPT ![c] = <<n, "given">>]
      /\ UNCHANGED <<m_type, m_val, m_cbs, s_fun_id, queue, called, asked, loading, before, touched>>
  BY DEF SetValue, Goes
<1>2. m_type[n] \in Types /\ "given" \in ValuesOf(m_type[n]) /\ "given" \in Values
  BY <1>1, ValuesFacts DEF CInv, ConfigTypeOK, Registered, Values
<1>3. arg'[c] = <<n, "given">> /\ \A d \in Clients \ {c} : arg'[d] = arg[d] /\ at'[d] = at[d]
  BY <1>1 DEF CInv, Shape, ConfigTypeOK
<1>4. Shape'
  <2>1. <<n, "given">> \in Names \X Values
    BY <1>2
  <2> QED
    BY <1>1, <2>1 DEF CInv, Shape
<1>5. Others(c)
  BY <1>1, <1>3 DEF Others
<1>6. at' \in [Clients -> {"out", "key", "compare", "assign"}]
  BY <1>1 DEF CInv, ConfigTypeOK
<1>7. loading'[c] = <<>>
  BY <1>1 DEF CInv, LoadInv
<1> QED
  BY <1>1, <1>2, <1>3, <1>4, <1>5, <1>6, <1>7, ClientKeeps

\* setValue() returns to where it was called from
LEMMA BackFacts ==
  ASSUME NEW c, loading[c] # <<>>
  PROVE  Back(c) = "key"
BY DEF Back

LEMMA CompareKeeps ==
  ASSUME CInv, NEW c \in Clients, Compare(c)
  PROVE  CInv'
<1> USE DEF history
<1>1. /\ at[c] = "compare" /\ InSet(c)
      /\ UNCHANGED <<m_type, m_val, m_cbs, s_fun_id, queue, asked, loading, before, touched>>
  BY DEF Compare, InSet
<1>2. /\ arg[c][1] \in Registered /\ arg[c][1] \in Names
      /\ arg[c][2] \in ValuesOf(m_type[arg[c][1]])
      /\ arg[c] = <<arg[c][1], arg[c][2]>>
  BY <1>1, ArgFacts
<1>3. CASE Same(arg[c][1], arg[c][2])
  <2>1. /\ at' = [at EXCEPT ![c] = Back(c)] /\ arg' = [arg EXCEPT ![c] = <<>>]
        /\ called' = called
    BY <1>3 DEF Compare, Goes
  <2>2. Back(c) \in {"out", "key"}
    BY DEF Back
  <2>3. /\ at'[c] = Back(c)
        /\ \A d \in Clients \ {c} : arg'[d] = arg[d] /\ at'[d] = at[d]
        /\ at' \in [Clients -> {"out", "key", "compare", "assign"}]
    BY <2>1, <2>2 DEF CInv, Shape, ConfigTypeOK
  <2>4. Shape'
    BY <1>1, <2>1 DEF CInv, Shape
  <2>5. Others(c)
    BY <1>1, <2>3 DEF Others
  <2>6. ~InSet(c)'
    BY <2>2, <2>3 DEF InSet
  <2>7. ASSUME loading[c] # <<>>
        PROVE  at'[c] # "out" /\ \E m \in Nat : Progress(c, m)'
    <3>1. PICK m \in Nat : Progress(c, m)
      BY <2>7 DEF CInv, LoadInv
    <3>2. \A n \in DOMAIN before[c] \ touched'[c] : Settling(c, n)' = Settling(c, n)
      BY <1>1, <1>3, <2>6 DEF Settling, Same
    <3>3. Progress(c, m)'
      BY <1>1, <3>1, <3>2, ProgressKept DEF Registered
    <3>4. at'[c] = "key"
      BY <2>3, <2>7, BackFacts
    <3> QED
      BY <3>3, <3>4
  <2> QED
    BY <1>1, <2>3, <2>4, <2>5, <2>6, <2>7, ClientKeeps
<1>4. CASE ~Same(arg[c][1], arg[c][2])
  <2>1. /\ at' = [at EXCEPT ![c] = "assign"] /\ arg' = arg
        /\ called' = [called EXCEPT ![c] = m_cbs[arg[c][1]]]
    BY <1>4 DEF Compare, Goes
  <2>2. /\ at'[c] = "assign"
        /\ \A d \in Clients \ {c} : at'[d] = at[d]
        /\ at' \in [Clients -> {"out", "key", "compare", "assign"}]
    BY <2>1 DEF CInv, ConfigTypeOK
  <2>3. Shape'
    BY <1>1, <1>2, <2>1 DEF CInv, Shape
  <2>4. Others(c)
    BY <1>1, <2>1, <2>2 DEF Others
  <2>5. InSet(c)'
    BY <2>2 DEF InSet
  <2>6. ASSUME loading[c] # <<>>
        PROVE  \E m \in Nat : Progress(c, m)'
    <3>1. PICK m \in Nat : Progress(c, m)
      BY <2>6 DEF CInv, LoadInv
    <3>2. \A n \in DOMAIN before[c] \ touched'[c] : Settling(c, n)' = Settling(c, n)
      BY <1>1, <2>1, <2>5 DEF Settling
    <3> QED
      BY <1>1, <3>1, <3>2, ProgressKept DEF Registered
  <2> QED
    BY <1>1, <1>2, <2>1, <2>2, <2>3, <2>4, <2>6, ClientKeeps
<1> QED
  BY <1>3, <1>4

LEMMA AssignKeeps ==
  ASSUME CInv, NEW c \in Clients, Assign(c)
  PROVE  CInv'
<1> DEFINE n == arg[c][1]
           v == arg[c][2]
<1>1. /\ at[c] = "assign" /\ InSet(c)
      /\ m_val' = [m_val EXCEPT ![n] = v]
      /\ touched' = [d \in Clients |-> IF d # c /\ loading[d] # <<>>
                                         THEN touched[d] \cup {n} ELSE touched[d]]
      /\ at' = [at EXCEPT ![c] = Back(c)]
      /\ called' = [called EXCEPT ![c] = {}] /\ arg' = [arg EXCEPT ![c] = <<>>]
      /\ UNCHANGED <<m_type, m_cbs, s_fun_id, queue, asked, loading, before>>
  BY DEF Assign, InSet, Goes
<1>2. n \in Registered /\ n \in Names /\ v \in ValuesOf(m_type[n]) /\ v \in Values
  BY <1>1, ArgFacts
<1>3. Back(c) \in {"out", "key"}
  BY DEF Back
<1>4. /\ at'[c] = Back(c)
      /\ \A d \in Clients \ {c} : arg'[d] = arg[d] /\ at'[d] = at[d]
      /\ at' \in [Clients -> {"out", "key", "compare", "assign"}]
  BY <1>1, <1>3 DEF CInv, Shape, ConfigTypeOK
<1>5. m_val'[n] = v /\ \A k \in Names : k # n => m_val'[k] = m_val[k]
  BY <1>1, <1>2 DEF CInv, Shape
<1> HIDE DEF n, v
<1>6. Shape'
  BY <1>1, <1>2 DEF CInv, Shape
<1>7. Others(c)
  BY <1>1, <1>4, <1>5 DEF Others
<1>8. ~InSet(c)'
  BY <1>3, <1>4 DEF InSet
<1>9. ASSUME loading[c] # <<>>
      PROVE  at'[c] # "out" /\ \E m \in Nat : Progress(c, m)'
  <2>1. PICK m \in Nat : Progress(c, m)
    BY <1>9 DEF CInv, LoadInv
  <2>2. DOMAIN before[c] \subseteq Names
    BY <2>1 DEF Progress, Registered
  <2>3. \A k \in DOMAIN before[c] \ touched'[c] : Settling(c, k)' = Settling(c, k)
    BY <1>1, <1>5, <1>8, <2>2 DEF Settling, n, v
  <2>4. touched'[c] = touched[c]
    BY <1>1
  <2>5. Progress(c, m)'
    BY <1>1, <2>1, <2>3, <2>4, ProgressKept DEF Registered
  <2>6. at'[c] = "key"
    BY <1>4, <1>9, BackFacts
  <2> QED
    BY <2>5, <2>6
<1>10. \A k \in Names : m_val'[k] = m_val[k] \/ (k \in Registered /\ m_val'[k] \in ValuesOf(m_type[k]))
  BY <1>2, <1>5
<1> QED
  BY <1>1, <1>4, <1>6, <1>7, <1>8, <1>9, <1>10, ClientKeeps

LEMMA LoadFromYamlKeeps ==
  ASSUME CInv, NEW c \in Clients, NEW doc \in Documents, LoadFromYaml(c, doc)
  PROVE  CInv'
<1>1. /\ at' = [at EXCEPT ![c] = "key"] /\ queue' = [queue EXCEPT ![c] = doc]
      /\ loading' = [loading EXCEPT ![c] = doc]
      /\ before' = [before EXCEPT ![c] = [n \in Registered |-> m_val[n]]]
      /\ touched' = [touched EXCEPT ![c] = {}]
      /\ UNCHANGED <<m_type, m_val, m_cbs, s_fun_id, arg, called, asked>>
  BY DEF LoadFromYaml, Goes
<1>2. doc \in Seq(Nodes)
  BY ConfigAssumption DEF Nodes
<1>3. /\ at'[c] = "key" /\ loading'[c] = doc /\ queue'[c] = doc /\ touched'[c] = {}
      /\ before'[c] = [n \in Registered |-> m_val[n]]
      /\ at' \in [Clients -> {"out", "key", "compare", "assign"}]
      /\ \A d \in Clients \ {c} :
           /\ at'[d] = at[d] /\ loading'[d] = loading[d] /\ queue'[d] = queue[d]
           /\ touched'[d] = touched[d] /\ before'[d] = before[d]
  BY <1>1 DEF CInv, Shape, ConfigTypeOK
<1>4. Shape'
  BY <1>1, <1>2 DEF CInv, Shape
<1>5. Others(c)
  BY <1>1, <1>3 DEF Others
<1>6. ~InSet(c)'
  BY <1>3 DEF InSet
<1>7. Progress(c, 0)'
  <2>1. Len(doc) \in Nat /\ Len(doc) = Len(doc) - 0 /\ \A i \in 1 .. Len(doc) : i + 0 = i
    BY <1>2
  <2>2. 1 .. 0 = {}
    OBVIOUS
  <2>3. Registered' = Registered
    BY <1>1 DEF Registered
  <2>4. \A n \in Registered : Settling(c, n)' = before'[c][n]
    BY <1>1, <1>3, <1>6 DEF Settling
  <2>5. \A n \in Registered : Upto(doc, 0, n, m_type'[n], before'[c][n], Settling(c, n)')
    BY <2>2, <2>4 DEF Upto
  <2>6. 0 \in 0 .. Len(doc) /\ \A i \in 1 .. Len(doc) : doc[i] = doc[i + 0]
    BY <2>1
  <2>7. DOMAIN before'[c] = Registered
    BY <1>3
  <2> QED
    BY <1>3, <2>1, <2>3, <2>5, <2>6, <2>7 DEF Progress
<1>8. 0 \in Nat
  OBVIOUS
<1> QED
  BY <1>1, <1>3, <1>4, <1>5, <1>6, <1>7, <1>8, ClientKeeps

LEMMA LoadKeyKeeps ==
  ASSUME CInv, NEW c \in Clients, LoadKey(c)
  PROVE  CInv'
<1> USE DEF history
<1>1. PICK e : e = Head(queue[c])
  OBVIOUS
<1>2. PICK good \in BOOLEAN :
        good <=> Allowed(e) /\ NameOf(e) \in Registered /\ Converts(m_type[NameOf(e)], e.node)
  <2>1. (Allowed(e) /\ NameOf(e) \in Registered /\ Converts(m_type[NameOf(e)], e.node)) \in BOOLEAN
    OBVIOUS
  <2> QED
    BY <2>1
<1>3. /\ at[c] = "key" /\ queue[c] # <<>>
      /\ good => at' = [at EXCEPT ![c] = "compare"] /\ arg' = [arg EXCEPT ![c] = <<NameOf(e), e.node>>]
      /\ ~good => UNCHANGED <<at, arg>>
      /\ queue' = [queue EXCEPT ![c] = Tail(queue[c])]
      /\ UNCHANGED <<m_type, m_val, m_cbs, s_fun_id, called, asked, loading, before, touched>>
  BY <1>1, <1>2 DEF LoadKey, Goes, Skips
<1>4. queue[c] \in Seq(Nodes) /\ loading[c] \in Seq(Nodes)
  BY DEF CInv, Shape
<1>5. /\ Tail(queue[c]) \in Seq(Nodes) /\ Len(queue[c]) \in Nat \ {0}
      /\ Len(Tail(queue[c])) = Len(queue[c]) - 1 /\ e = queue[c][1] /\ e \in Nodes
      /\ \A i \in 1 .. Len(queue[c]) - 1 : Tail(queue[c])[i] = queue[c][i + 1]
  <2>1. Len(queue[c]) \in Nat \ {0}
    BY <1>3, <1>4, EmptySeq
  <2>2. Tail(queue[c]) \in Seq(Nodes) /\ Len(Tail(queue[c])) = Len(queue[c]) - 1
    BY <1>3, <1>4, HeadTailProperties
  <2>3. e = queue[c][1] /\ e \in Nodes
    BY <1>1, <1>4, <2>1
  <2> QED
    BY <1>4, <2>1, <2>2, <2>3
<1>6. good => /\ NameOf(e) \in Registered /\ NameOf(e) \in Names
              /\ e.node \in ValuesOf(m_type[NameOf(e)]) /\ e.node \in Values
  BY <1>2, <1>5 DEF Registered, Converts, Nodes, Values
<1>7. /\ queue'[c] = Tail(queue[c])
      /\ \A d \in Clients \ {c} : queue'[d] = queue[d] /\ at'[d] = at[d] /\ arg'[d] = arg[d]
      /\ good => at'[c] = "compare" /\ arg'[c] = <<NameOf(e), e.node>>
      /\ ~good => at'[c] = "key"
      /\ at' \in [Clients -> {"out", "key", "compare", "assign"}]
  <2>1. queue'[c] = Tail(queue[c]) /\ \A d \in Clients \ {c} : queue'[d] = queue[d]
    BY <1>3 DEF CInv, Shape
  <2>2. CASE good
    <3>1. at' = [at EXCEPT ![c] = "compare"]
      BY <1>3, <2>2
    <3>2. PICK a : a = <<NameOf(e), e.node>> /\ arg' = [arg EXCEPT ![c] = a]
      BY <1>3, <2>2
    <3>3. arg'[c] = a /\ \A d \in Clients \ {c} : arg'[d] = arg[d]
      BY <3>2 DEF CInv, Shape
    <3>4. /\ at'[c] = "compare" /\ \A d \in Clients \ {c} : at'[d] = at[d]
          /\ at' \in [Clients -> {"out", "key", "compare", "assign"}]
      BY <3>1 DEF CInv, ConfigTypeOK
    <3> QED
      BY <2>1, <2>2, <3>2, <3>3, <3>4
  <2>3. CASE ~good
    BY <1>3, <2>1, <2>3 DEF CInv, ConfigTypeOK
  <2> QED
    BY <2>2, <2>3
<1>8. Shape'
  <2>1. queue' \in [Clients -> Seq(Nodes)]
    BY <1>3, <1>5 DEF CInv, Shape
  <2>2. arg' \in [Clients -> {<<>>} \cup (Names \X Values)]
    <3>1. good => <<NameOf(e), e.node>> \in Names \X Values
      BY <1>6
    <3> QED
      BY <1>3, <3>1 DEF CInv, Shape
  <2> QED
    BY <1>3, <2>1, <2>2 DEF CInv, Shape
<1>9. Others(c)
  BY <1>3, <1>7 DEF Others
<1>10. InSet(c)' => \E n \in Registered : \E v \in ValuesOf(m_type[n]) : arg'[c] = <<n, v>>
  BY <1>6, <1>7 DEF InSet
<1>11. ASSUME loading[c] # <<>>
       PROVE  at'[c] # "out" /\ \E m \in Nat : Progress(c, m)'
  <2>1. PICK m \in Nat : Progress(c, m)
    BY <1>11 DEF CInv, LoadInv
  <2>2. PICK doc \in Seq(Nodes) : doc = loading[c] /\ doc = loading'[c]
    BY <1>3, <1>4
  <2>3. PICK q \in Seq(Nodes) : q = queue[c]
    BY <1>4
  <2>4. PICK r \in Seq(Nodes) : r = queue'[c] /\ r = Tail(q)
    BY <1>5, <1>7, <2>3
  <2>5. /\ m \in 0 .. Len(doc) /\ Len(q) = Len(doc) - m
        /\ \A i \in 1 .. Len(q) : q[i] = doc[i + m]
        /\ DOMAIN before[c] \subseteq Registered
        /\ \A n \in DOMAIN before[c] \ touched[c] :
             Upto(doc, m, n, m_type[n], before[c][n], Settling(c, n))
    BY <2>1, <2>2, <2>3 DEF Progress
  <2>6. e = doc[m + 1]
    <3>1. 1 \in 1 .. Len(q) /\ 1 + m = m + 1
      BY <1>5, <2>3
    <3> QED
      BY <1>5, <2>3, <2>5, <3>1
  <2>7. m + 1 \in 0 .. Len(doc) /\ Len(r) = Len(doc) - (m + 1)
    BY <1>5, <2>3, <2>4, <2>5
  <2>8. \A i \in 1 .. Len(r) : r[i] = doc[i + (m + 1)]
    <3> SUFFICES ASSUME NEW i \in 1 .. Len(r) PROVE r[i] = doc[i + (m + 1)]
      OBVIOUS
    <3>1. i \in 1 .. Len(q) - 1 /\ i + 1 \in 1 .. Len(q) /\ (i + 1) + m = i + (m + 1)
      BY <1>5, <2>3, <2>4, SMTT(30)
    <3>2. r[i] = q[i + 1]
      BY <1>5, <2>3, <2>4, <3>1
    <3> QED
      BY <2>5, <3>1, <3>2
  <2>9. ~InSet(c)
    BY <1>3 DEF InSet
  <2>10. ASSUME NEW n \in DOMAIN before[c] \ touched[c]
         PROVE  Upto(doc, m + 1, n, m_type[n], before[c][n], Settling(c, n)')
    <3>1. n \in Registered /\ Settling(c, n) = m_val[n]
      BY <2>5, <2>9 DEF Settling
    <3>2. CASE good /\ NameOf(e) = n
      <4>1. Settling(c, n)' = e.node
        BY <1>7, <3>2 DEF Settling, InSet
      <4>2. Hit(doc[m + 1], n, m_type[n])
        BY <1>2, <2>6, <3>2 DEF Hit
      <4> QED
        BY <2>6, <4>1, <4>2, UptoTakes
    <3>3. CASE ~(good /\ NameOf(e) = n)
      <4>1. Settling(c, n)' = m_val[n]
        BY <1>3, <1>7, <3>3 DEF Settling, InSet
      <4>2. ~Hit(doc[m + 1], n, m_type[n])
        BY <1>2, <2>6, <3>1, <3>3 DEF Hit
      <4> QED
        BY <2>5, <3>1, <4>1, <4>2, UptoSkips
    <3> QED
      BY <3>2, <3>3
  <2>11. Progress(c, m + 1)'
    BY <1>3, <2>2, <2>4, <2>5, <2>7, <2>8, <2>10 DEF Progress, Registered
  <2>12. at'[c] # "out" /\ m + 1 \in Nat
    BY <1>7
  <2> QED
    BY <2>11, <2>12
<1> QED
  BY <1>3, <1>7, <1>8, <1>9, <1>10, <1>11, ClientKeeps

LEMMA LoadEndsKeeps ==
  ASSUME CInv, NEW c \in Clients, LoadEnds(c)
  PROVE  CInv'
<1>1. /\ at' = [at EXCEPT ![c] = "out"] /\ loading' = [loading EXCEPT ![c] = <<>>]
      /\ before' = [before EXCEPT ![c] = <<>>] /\ touched' = [touched EXCEPT ![c] = {}]
      /\ UNCHANGED <<m_type, m_val, m_cbs, s_fun_id, queue, arg, called, asked>>
  BY DEF LoadEnds, Goes
<1>2. /\ at'[c] = "out" /\ loading'[c] = <<>>
      /\ at' \in [Clients -> {"out", "key", "compare", "assign"}]
      /\ \A d \in Clients \ {c} :
           /\ at'[d] = at[d] /\ loading'[d] = loading[d] /\ touched'[d] = touched[d]
           /\ before'[d] = before[d]
  BY <1>1 DEF CInv, Shape, ConfigTypeOK
<1>3. Shape'
  <2>1. loading' \in [Clients -> Seq(Nodes)]
    BY <1>1, EmptySeq DEF CInv, Shape
  <2> QED
    BY <1>1, <2>1 DEF CInv, Shape
<1>4. Others(c)
  BY <1>1, <1>2 DEF Others
<1>5. ~InSet(c)'
  BY <1>2 DEF InSet
<1> QED
  BY <1>1, <1>2, <1>3, <1>4, <1>5, ClientKeeps

LEMMA ConfigStarts == ASSUME ConfigInit PROVE CInv
<1> USE DEF ConfigInit
<1>1. Registered = {}
  BY DEF Registered
<1>2. ConfigTypeOK
  BY <1>1, ConfigAssumption DEF ConfigTypeOK
<1>3. Shape
  <2>1. <<>> \in Seq(Nodes)
    BY EmptySeq
  <2> QED
    BY <2>1 DEF Shape, Values
<1>4. ArgInv /\ LoadInv
  BY DEF ArgInv, LoadInv, InSet
<1> QED
  BY <1>2, <1>3, <1>4 DEF CInv

LEMMA ConfigStep == ASSUME CInv, [ConfigNext]_configVars PROVE CInv'
<1>1. CASE UNCHANGED configVars
  <2>1. UNCHANGED <<m_type, m_val, m_cbs, s_fun_id, at, queue, arg, called, asked, loading,
                    before, touched>> /\ Registered' = Registered
    BY <1>1 DEF configVars, Registered
  <2>2. \A n \in Registered : n \in Registered' /\ m_type'[n] = m_type[n]
    BY <2>1
  <2>3. ConfigTypeOK' /\ Shape'
    BY <2>1 DEF CInv, ConfigTypeOK, Shape
  <2>4. ArgInv'
    BY <2>1, <2>2, ArgKept DEF ArgInv
  <2>5. LoadInv'
    BY <2>1, <2>2, OtherClient DEF LoadInv
  <2> QED
    BY <2>3, <2>4, <2>5 DEF CInv
<1>2. CASE ConfigNext
  BY <1>2, LookupKeeps, ListenersKeep, SetValueKeeps, CompareKeeps, AssignKeeps,
     LoadFromYamlKeeps, LoadKeyKeeps, LoadEndsKeeps DEF ConfigNext
<1> QED
  BY <1>1, <1>2

-----------------------------------------------------------------------------
(* The theorems.                                                            *)

\* The inductive invariant holds in every state of the configuration.
THEOREM ConfigInvariance == ConfigSpec => []CInv
  BY ConfigStarts, ConfigStep, PTL DEF ConfigSpec

\* No variable ever holds a value of another type, and nothing is set that is
\* not registered.
THEOREM ConfigTypeCorrect == ConfigSpec => []ConfigTypeOK
<1>1. CInv => ConfigTypeOK
  BY DEF CInv
<1> QED
  BY <1>1, ConfigInvariance, PTL

\* A load that has come to its end has applied its file: every variable that
\* was there at the beginning and that no other thread assigned has the value
\* of the last node for it, for any document and any interleaving.
THEOREM LoadIsApplied == ConfigSpec => []LoadApplied
<1>1. ASSUME CInv PROVE LoadApplied
  <2> SUFFICES ASSUME NEW c \in Clients, loading[c] # <<>>, at[c] = "key", queue[c] = <<>>,
                      NEW n \in DOMAIN before[c] \ touched[c]
               PROVE  m_val[n] = Loaded(loading[c], n, before[c][n])
    BY DEF LoadApplied
  <2>1. PICK m \in Nat : Progress(c, m)
    BY <1>1 DEF CInv, LoadInv
  <2>2. loading[c] \in Seq(Nodes) /\ DOMAIN loading[c] = 1 .. Len(loading[c])
    BY <1>1 DEF CInv, Shape
  <2>3. m = Len(loading[c])
    BY <2>1, <2>2 DEF Progress
  <2>4. Settling(c, n) = m_val[n]
    BY DEF Settling, InSet
  <2>5. Upto(loading[c], m, n, m_type[n], before[c][n], m_val[n])
    BY <2>1, <2>4 DEF Progress
  <2> DEFINE hits == {k \in DOMAIN loading[c] :
                        /\ Allowed(loading[c][k]) /\ NameOf(loading[c][k]) = n
                        /\ Converts(m_type[n], loading[c][k].node)}
  <2>6. Loaded(loading[c], n, before[c][n]) =
          IF hits = {} THEN before[c][n] ELSE loading[c][Max(hits)].node
    BY DEF Loaded
  <2>7. \A k : k \in hits <=> k \in 1 .. m /\ Hit(loading[c][k], n, m_type[n])
    BY <2>2, <2>3 DEF Hit
  <2> HIDE DEF hits
  <2>8. CASE m_val[n] = before[c][n] /\ \A k \in 1 .. m : ~Hit(loading[c][k], n, m_type[n])
    BY <2>6, <2>7, <2>8
  <2>9. ASSUME NEW k \in 1 .. m, Hit(loading[c][k], n, m_type[n]), m_val[n] = loading[c][k].node,
               \A l \in 1 .. m : Hit(loading[c][l], n, m_type[n]) => l <= k
        PROVE  m_val[n] = Loaded(loading[c], n, before[c][n])
    <3>1. k \in hits /\ \A l \in hits : k >= l
      BY <2>7, <2>9
    <3>2. \A x \in hits : (\A l \in hits : x >= l) => x = k
      BY <2>7, <3>1
    <3>3. Max(hits) = k
      BY <3>1, <3>2 DEF Max
    <3> QED
      BY <2>6, <2>9, <3>1, <3>3
  <2> QED
    BY <2>5, <2>8, <2>9 DEF Upto
<1> QED
  BY <1>1, ConfigInvariance, PTL

-----------------------------------------------------------------------------
(* The loops that read the logger definitions.  A recursive function is the *)
(* choice of one that satisfies its equation, so that one does has to be    *)
(* shown first; what it computes follows by induction over a set of turns.  *)

\* A set of naturals has a least member
LEMMA LeastIndex ==
  ASSUME NEW T \in SUBSET Nat, T # {}
  PROVE  \E x \in T : \A y \in T : x <= y
<1>1. PICK x \in T : \A y \in T : <<y, x>> \notin OpToRel(<, Nat)
  BY NatLessThanWellFounded, WFMin
<1>2. \A y \in T : ~(y < x)
  BY <1>1 DEF OpToRel
<1> QED
  BY <1>2

\* Induction up to n over a set of naturals
LEMMA UpTo ==
  ASSUME NEW n \in Nat, NEW G, 0 \in G, \A k \in 0 .. n : k \in G /\ k < n => k + 1 \in G
  PROVE  \A k \in 0 .. n : k \in G
<1> DEFINE B == {k \in 0 .. n : k \notin G}
<1> SUFFICES ASSUME B # {} PROVE FALSE
  OBVIOUS
<1>1. B \in SUBSET Nat
  OBVIOUS
<1>2. PICK x \in B : \A y \in B : x <= y
  BY <1>1, LeastIndex
<1>3. x \in 1 .. n /\ x \notin G
  OBVIOUS
<1>4. x - 1 \in 0 .. n /\ x - 1 < n /\ (x - 1) + 1 = x
  BY <1>3
<1>5. x - 1 \notin B
  BY <1>2, <1>3, <1>4
<1> QED
  BY <1>3, <1>4, <1>5

\* f gives the value of a loop after each turn, the k-th of which takes v to
\* turn[k][v]
Loop(f, n, V, base, turn) ==
  /\ f \in [0 .. n -> V] /\ f[0] = base
  /\ \A k \in 1 .. n : f[k] = turn[k][f[k - 1]]

\* A loop of n turns has a value after each of them
LEMMA LoopRuns ==
  ASSUME NEW n \in Nat, NEW V, NEW base \in V, NEW turn \in [1 .. n -> [V -> V]]
  PROVE  \E f : Loop(f, n, V, base, turn)
<1> DEFINE Runs(m, f) == /\ f \in [0 .. m -> V] /\ f[0] = base
                         /\ \A k \in 1 .. m : f[k] = turn[k][f[k - 1]]
           G == {m \in 0 .. n : \E f : Runs(m, f)}
<1>1. 0 \in G
  <2>1. Runs(0, [k \in 0 .. 0 |-> base])
    OBVIOUS
  <2>2. \E f : Runs(0, f)
    BY <2>1, Zenon
  <2> QED
    BY <2>2
<1>2. ASSUME NEW m \in 0 .. n, m \in G, m < n PROVE m + 1 \in G
  <2>1. PICK f : Runs(m, f)
    BY <1>2
  <2> DEFINE g == [k \in 0 .. m + 1 |-> IF k <= m THEN f[k] ELSE turn[k][f[m]]]
  <2>2. m + 1 \in 1 .. n /\ m \in 0 .. m
    BY <1>2
  <2>3. turn[m + 1][f[m]] \in V
    BY <2>1, <2>2
  <2>4. g \in [0 .. m + 1 -> V]
    <3>1. ASSUME NEW k \in 0 .. m + 1 PROVE g[k] \in V
      <4>1. CASE k <= m
        BY <2>1, <3>1, <4>1
      <4>2. CASE k = m + 1
        BY <2>3, <4>2
      <4> QED
        BY <3>1, <4>1, <4>2
    <3> QED
      BY <3>1
  <2>5. g[0] = base
    BY <2>1
  <2>6. ASSUME NEW k \in 1 .. m + 1 PROVE g[k] = turn[k][g[k - 1]]
    <3>1. k - 1 \in 0 .. m /\ g[k - 1] = f[k - 1]
      BY <2>6
    <3>2. CASE k <= m
      BY <2>1, <2>6, <3>1, <3>2
    <3>3. CASE k = m + 1
      BY <3>1, <3>3
    <3> QED
      BY <2>6, <3>2, <3>3
  <2>7. Runs(m + 1, g)
    BY <2>4, <2>5, <2>6
  <2>8. \E h : Runs(m + 1, h)
    BY <2>7, Zenon
  <2> QED
    BY <2>2, <2>8
<1> HIDE DEF G
<1>3. n \in 0 .. n
  OBVIOUS
<1>4. n \in G
  BY <1>1, <1>2, <1>3, UpTo
<1> QED
  BY <1>4 DEF G, Loop

-----------------------------------------------------------------------------
(* The loop over the appenders of a definition.                             *)

\* What the loop over the appenders does with the x-th
AppenderTurn(as, v, x) == IF Usable(as[x]) THEN Append(v, ReadAppender(as[x])) ELSE v

\* f is what the loop has collected after each turn
AppendersRead(as, f) ==
  /\ f[0] = <<>>
  /\ \A x \in 1 .. Len(as) : f[x] = AppenderTurn(as, f[x - 1], x)
  /\ ReadAll(as) = f[Len(as)]

\* A list is a function on its first positions
LEMMA ListFacts ==
  ASSUME NEW as, IsList(as)
  PROVE  /\ Len(as) \in Nat /\ DOMAIN as = 1 .. Len(as)
         /\ as = [x \in 1 .. Len(as) |-> as[x]]
<1>1. PICK S : as \in Seq(S)
  BY DEF IsList
<1> QED
  BY <1>1, LenProperties

\* A function on the first n positions is a list of n members
LEMMA MakeList ==
  ASSUME NEW n \in Nat, NEW s, s = [x \in 1 .. n |-> s[x]]
  PROVE  IsList(s) /\ Len(s) = n
<1>1. PICK S : S = {s[x] : x \in DOMAIN s}
  OBVIOUS
<1>2. DOMAIN s = 1 .. n
  OBVIOUS
<1>3. \A x \in 1 .. n : s[x] \in S
  BY <1>1, <1>2
<1>4. s \in [1 .. n -> S]
  BY <1>3
<1>5. s \in Seq(S)
  BY <1>4, SeqDef
<1>6. Len(s) \in Nat /\ 1 .. Len(s) = 1 .. n
  BY <1>2, <1>5, LenProperties
<1>7. Len(s) = n
  <2>1. PICK m \in Nat : m = Len(s)
    BY <1>6
  <2>2. \A k \in Nat : k \in 1 .. m <=> k \in 1 .. n
    BY <1>6, <2>1
  <2>3. m = n
    BY <2>2
  <2> QED
    BY <2>1, <2>3
<1> QED
  BY <1>1, <1>5, <1>7 DEF IsList

\* ReadAll() is the last value of its loop, and every value is a list of what
\* the appenders are read as
LEMMA ReadAllLoop ==
  ASSUME NEW as, IsList(as)
  PROVE  \E f \in [0 .. Len(as) -> Seq({ReadAppender(as[x]) : x \in 1 .. Len(as)})] :
           AppendersRead(as, f)
<1>1. PICK n \in Nat : n = Len(as)
  BY ListFacts
<1>2. PICK A : A = {ReadAppender(as[x]) : x \in 1 .. n}
  OBVIOUS
<1>3. PICK V : V = Seq(A)
  OBVIOUS
<1>4. PICK base \in V : base = <<>>
  BY <1>3, EmptySeq
<1>5. ASSUME NEW x \in 1 .. n, NEW v \in V PROVE AppenderTurn(as, v, x) \in V
  <2>1. ReadAppender(as[x]) \in A
    BY <1>2
  <2>2. Append(v, ReadAppender(as[x])) \in V
    BY <1>3, <2>1, AppendProperties
  <2> QED
    BY <2>2 DEF AppenderTurn
<1> DEFINE Rec(g) == g = [x \in 0 .. n |-> IF x = 0 THEN <<>> ELSE AppenderTurn(as, g[x - 1], x)]
<1>6. \E g : Rec(g)
  <2>1. PICK turn \in [1 .. n -> [V -> V]] :
          \A k \in 1 .. n : \A v \in V : turn[k][v] = AppenderTurn(as, v, k)
    <3> DEFINE turn == [x \in 1 .. n |-> [v \in V |-> AppenderTurn(as, v, x)]]
    <3>1. turn \in [1 .. n -> [V -> V]]
      BY <1>5
    <3>2. \A k \in 1 .. n : \A v \in V : turn[k][v] = AppenderTurn(as, v, k)
      OBVIOUS
    <3> QED
      BY <3>1, <3>2, Zenon
  <2>2. PICK f : Loop(f, n, V, base, turn)
    BY <1>1, <1>4, <2>1, LoopRuns, Zenon
  <2>3. ASSUME NEW k \in 1 .. n PROVE f[k] = AppenderTurn(as, f[k - 1], k)
    <3>1. f[k - 1] \in V
      BY <2>2 DEF Loop
    <3>2. f[k] = turn[k][f[k - 1]]
      BY <2>2 DEF Loop
    <3> QED
      BY <2>1, <3>1, <3>2, Zenon
  <2>4. ASSUME NEW x \in 0 .. n PROVE f[x] = IF x = 0 THEN <<>> ELSE AppenderTurn(as, f[x - 1], x)
    <3>1. CASE x = 0
      BY <1>4, <2>2, <3>1 DEF Loop
    <3>2. CASE x # 0
      <4>1. x \in 1 .. n
        BY <3>2
      <4>2. f[x] = AppenderTurn(as, f[x - 1], x)
        BY <2>3, <4>1, Zenon
      <4> QED
        BY <3>2, <4>2
    <3> QED
      BY <3>1, <3>2, Zenon
  <2>5. Rec(f)
    BY <2>2, <2>4 DEF Loop
  <2> QED
    BY <2>5, Zenon
<1>7. PICK f : f = (CHOOSE g : Rec(g))
  OBVIOUS
<1>8. Rec(f)
  BY <1>6, <1>7, Zenon
<1>9. ReadAll(as) = f[n]
  <2>1. ReadAll(as) = (CHOOSE g : Rec(g))[n]
    BY <1>1 DEF ReadAll, AppenderTurn
  <2> QED
    BY <1>7, <2>1
<1>10. f[0] = <<>> /\ \A x \in 1 .. n : f[x] = AppenderTurn(as, f[x - 1], x)
  BY <1>8
<1>11. \A k \in 0 .. n : f[k] \in V
  <2> DEFINE G == {k \in 0 .. n : f[k] \in V}
  <2>1. 0 \in G
    BY <1>4, <1>10
  <2>2. ASSUME NEW k \in 0 .. n, k \in G, k < n PROVE k + 1 \in G
    <3>1. k + 1 \in 1 .. n /\ (k + 1) - 1 = k
      BY <2>2
    <3>2. f[k + 1] = AppenderTurn(as, f[k], k + 1)
      BY <1>10, <3>1
    <3>3. f[k] \in V /\ k + 1 \in 0 .. n
      BY <2>2
    <3>4. AppenderTurn(as, f[k], k + 1) \in V
      BY <1>5, <3>1, <3>3, Zenon
    <3>5. f[k + 1] \in V
      BY <3>2, <3>4, Zenon
    <3> QED
      BY <3>3, <3>5
  <2> HIDE DEF G
  <2>3. \A k \in 0 .. n : k \in G
    BY <2>1, <2>2, UpTo
  <2> QED
    BY <2>3 DEF G
<1>12. f \in [0 .. n -> V]
  BY <1>8, <1>11
<1>13. AppendersRead(as, f)
  BY <1>1, <1>9, <1>10 DEF AppendersRead
<1> QED
  BY <1>1, <1>2, <1>3, <1>12, <1>13, Zenon

\* What the loop over the definitions does with the k-th
DefineTurn(node, v, k) ==
  IF "name" \in DOMAIN node[k] THEN Insert(v, ReadDefine(node[k])) ELSE v

\* f is the set after each turn
DefinesRead(node, f) ==
  /\ f[0] = {}
  /\ \A k \in 1 .. Len(node) : f[k] = DefineTurn(node, f[k - 1], k)
  /\ FromNode(node) = f[Len(node)]

\* FromNode() is the last value of its loop, and every value is made of what
\* the definitions are read as
LEMMA FromNodeLoop ==
  ASSUME NEW node, IsList(node)
  PROVE  \E f \in [0 .. Len(node) -> SUBSET {ReadDefine(node[k]) : k \in 1 .. Len(node)}] :
           DefinesRead(node, f)
<1>1. PICK n \in Nat : n = Len(node)
  BY ListFacts
<1>2. PICK D : D = {ReadDefine(node[k]) : k \in 1 .. n}
  OBVIOUS
<1>3. PICK V : V = SUBSET D
  OBVIOUS
<1>4. PICK base \in V : base = {}
  BY <1>3
<1>5. ASSUME NEW x \in 1 .. n, NEW v \in V PROVE DefineTurn(node, v, x) \in V
  <2>1. ReadDefine(node[x]) \in D
    BY <1>2
  <2>2. v \cup {ReadDefine(node[x])} \in V
    BY <1>3, <2>1
  <2> QED
    BY <2>2 DEF DefineTurn, Insert
<1> DEFINE Rec(g) == g = [k \in 0 .. n |-> IF k = 0 THEN {} ELSE DefineTurn(node, g[k - 1], k)]
<1>6. \E g : Rec(g)
  <2>1. PICK turn \in [1 .. n -> [V -> V]] :
          \A k \in 1 .. n : \A v \in V : turn[k][v] = DefineTurn(node, v, k)
    <3> DEFINE turn == [x \in 1 .. n |-> [v \in V |-> DefineTurn(node, v, x)]]
    <3>1. turn \in [1 .. n -> [V -> V]]
      BY <1>5
    <3>2. \A k \in 1 .. n : \A v \in V : turn[k][v] = DefineTurn(node, v, k)
      OBVIOUS
    <3> QED
      BY <3>1, <3>2, Zenon
  <2>2. PICK f : Loop(f, n, V, base, turn)
    BY <1>1, <1>4, <2>1, LoopRuns, Zenon
  <2>3. ASSUME NEW k \in 1 .. n PROVE f[k] = DefineTurn(node, f[k - 1], k)
    <3>1. f[k - 1] \in V
      BY <2>2 DEF Loop
    <3>2. f[k] = turn[k][f[k - 1]]
      BY <2>2 DEF Loop
    <3> QED
      BY <2>1, <3>1, <3>2, Zenon
  <2>4. ASSUME NEW x \in 0 .. n PROVE f[x] = IF x = 0 THEN {} ELSE DefineTurn(node, f[x - 1], x)
    <3>1. CASE x = 0
      BY <1>4, <2>2, <3>1 DEF Loop
    <3>2. CASE x # 0
      <4>1. x \in 1 .. n
        BY <3>2
      <4>2. f[x] = DefineTurn(node, f[x - 1], x)
        BY <2>3, <4>1, Zenon
      <4> QED
        BY <3>2, <4>2
    <3> QED
      BY <3>1, <3>2, Zenon
  <2>5. Rec(f)
    BY <2>2, <2>4 DEF Loop
  <2> QED
    BY <2>5, Zenon
<1>7. PICK f : f = (CHOOSE g : Rec(g))
  OBVIOUS
<1>8. Rec(f)
  BY <1>6, <1>7, Zenon
<1>9. FromNode(node) = f[n]
  <2>1. FromNode(node) = (CHOOSE g : Rec(g))[n]
    BY <1>1 DEF FromNode, DefineTurn
  <2> QED
    BY <1>7, <2>1
<1>10. f[0] = {} /\ \A x \in 1 .. n : f[x] = DefineTurn(node, f[x - 1], x)
  BY <1>8
<1>11. \A k \in 0 .. n : f[k] \in V
  <2> DEFINE G == {k \in 0 .. n : f[k] \in V}
  <2>1. 0 \in G
    <3>1. f[0] \in V
      BY <1>4, <1>10, Zenon
    <3> QED
      BY <3>1
  <2>2. ASSUME NEW k \in 0 .. n, k \in G, k < n PROVE k + 1 \in G
    <3>1. k + 1 \in 1 .. n /\ (k + 1) - 1 = k
      BY <2>2
    <3>2. f[k + 1] = DefineTurn(node, f[k], k + 1)
      BY <1>10, <3>1
    <3>3. f[k] \in V /\ k + 1 \in 0 .. n
      BY <2>2
    <3>4. DefineTurn(node, f[k], k + 1) \in V
      BY <1>5, <3>1, <3>3, Zenon
    <3>5. f[k + 1] \in V
      BY <3>2, <3>4, Zenon
    <3> QED
      BY <3>3, <3>5
  <2> HIDE DEF G
  <2>3. \A k \in 0 .. n : k \in G
    BY <2>1, <2>2, UpTo
  <2> QED
    BY <2>3 DEF G
<1>12. f \in [0 .. n -> V]
  BY <1>8, <1>11
<1>13. DefinesRead(node, f)
  BY <1>1, <1>9, <1>10 DEF DefinesRead
<1> QED
  BY <1>1, <1>2, <1>3, <1>12, <1>13, Zenon

-----------------------------------------------------------------------------
(* What the readers return.                                                 *)

\* What ReadAppender() returns
WellAppender(a) ==
  /\ a = [type |-> a.type, level |-> "UNKNOW", formatter |-> a.formatter, file |-> a.file]
  /\ a.level = "UNKNOW"
  /\ a.type = 1 \/ (a.type = 2 /\ a.formatter = "" /\ a.file = "")

\* What ReadDefine() returns
WellDefine(ld) ==
  /\ ld = [name |-> ld.name, level |-> ld.level, formatter |-> ld.formatter,
           appenders |-> ld.appenders]
  /\ ld.level \in {"INFO", "WARN", "UNKNOW"}
  /\ IsList(ld.appenders)
  /\ \A x \in DOMAIN ld.appenders : WellAppender(ld.appenders[x])

\* std::set holds one definition of a name
OneByName(vec) == \A d, e \in vec : d.name = e.name => d = e

\* An appender is read as a well-formed one
LEMMA ReadAppenderWell ==
  ASSUME NEW a
  PROVE  WellAppender(ReadAppender(a))
BY DEF WellAppender, ReadAppender

\* Appenders are read as a list of well-formed ones
LEMMA ReadAllWell ==
  ASSUME NEW as, IsList(as)
  PROVE  /\ IsList(ReadAll(as))
         /\ \A x \in DOMAIN ReadAll(as) : WellAppender(ReadAll(as)[x])
<1>1. PICK A : A = {ReadAppender(as[x]) : x \in 1 .. Len(as)}
  OBVIOUS
<1>2. PICK f \in [0 .. Len(as) -> Seq(A)] : AppendersRead(as, f)
  BY <1>1, ReadAllLoop, Zenon
<1>3. PICK r : r = ReadAll(as)
  OBVIOUS
<1>4. r \in Seq(A)
  <2>1. Len(as) \in 0 .. Len(as)
    <3>1. PICK n \in Nat : n = Len(as)
      BY ListFacts
    <3>2. n \in 0 .. n
      OBVIOUS
    <3> QED
      BY <3>1, <3>2
  <2>2. r = f[Len(as)]
    BY <1>2, <1>3 DEF AppendersRead
  <2> QED
    BY <1>2, <2>1, <2>2
<1>5. \A x \in DOMAIN r : r[x] \in A
  BY <1>4, ElementOfSeq, LenProperties
<1>6. \A x \in DOMAIN r : WellAppender(r[x])
  BY <1>1, <1>5, ReadAppenderWell
<1>7. r \in Seq({r[x] : x \in DOMAIN r})
  BY <1>4, SeqDef, LenProperties
<1> QED
  BY <1>3, <1>6, <1>7 DEF IsList

\* A definition is read as a well-formed one
LEMMA ReadDefineWell ==
  ASSUME NEW n, "appenders" \in DOMAIN n => IsList(n["appenders"])
  PROVE  WellDefine(ReadDefine(n))
<1>1. IsList(<<>>)
  BY DEF IsList
<1>2. PICK as : as = IF "appenders" \in DOMAIN n THEN ReadAll(n["appenders"]) ELSE <<>>
  OBVIOUS
<1>3. IsList(as) /\ \A x \in DOMAIN as : WellAppender(as[x])
  <2>1. CASE "appenders" \in DOMAIN n
    BY <1>2, <2>1, ReadAllWell
  <2>2. CASE "appenders" \notin DOMAIN n
    BY <1>1, <1>2, <2>2
  <2> QED
    BY <2>1, <2>2
<1>4. PICK l : l = FromString(Get(n, "level"))
  OBVIOUS
<1>5. l \in {"INFO", "WARN", "UNKNOW"}
  BY <1>4 DEF FromString
<1>6. PICK ld : ld = ReadDefine(n)
  OBVIOUS
<1>7. ld = [name |-> n["name"], level |-> l, formatter |-> Get(n, "formatter"), appenders |-> as]
  BY <1>2, <1>4, <1>6 DEF ReadDefine
<1>8. /\ ld.name = n["name"] /\ ld.level = l /\ ld.formatter = Get(n, "formatter")
      /\ ld.appenders = as
  BY <1>7
<1>9. WellDefine(ld)
  BY <1>3, <1>5, <1>7, <1>8 DEF WellDefine
<1> QED
  BY <1>6, <1>9

\* A file is read as finitely many well-formed definitions of different names
LEMMA FromNodeWell ==
  ASSUME NEW node \in Lists
  PROVE  /\ IsFiniteSet(FromNode(node)) /\ OneByName(FromNode(node))
         /\ \A ld \in FromNode(node) : WellDefine(ld)
<1>1. IsList(node)
  BY ListsAssumption
<1>2. PICK n \in Nat : n = Len(node) /\ DOMAIN node = 1 .. n
  BY <1>1, ListFacts
<1>3. PICK D : D = {ReadDefine(node[k]) : k \in 1 .. n}
  OBVIOUS
<1>4. PICK f \in [0 .. n -> SUBSET D] : DefinesRead(node, f)
  BY <1>1, <1>2, <1>3, FromNodeLoop, Zenon
<1>5. FromNode(node) = f[n] /\ f[n] \in SUBSET D
  BY <1>2, <1>4 DEF DefinesRead
<1>6. IsFiniteSet(D)
  <2>1. IsFiniteSet(1 .. n)
    BY FS_Interval
  <2> QED
    <3> DEFINE g == [k \in 1 .. n |-> ReadDefine(node[k])]
    <3>1. g \in Surjection(1 .. n, D)
      BY <1>3 DEF Surjection
    <3> HIDE DEF g
    <3> QED
      BY <2>1, <3>1, FS_Surjection
<1>7. IsFiniteSet(FromNode(node))
  BY <1>5, <1>6, FS_Subset
<1>8. \A ld \in D : WellDefine(ld)
  BY <1>2, <1>3, ListsAssumption, ReadDefineWell
<1>9. \A k \in 0 .. n : OneByName(f[k])
  <2> DEFINE G == {k \in 0 .. n : OneByName(f[k])}
  <2>1. 0 \in G
    BY <1>4 DEF DefinesRead, OneByName
  <2>2. ASSUME NEW k \in 0 .. n, k \in G, k < n PROVE k + 1 \in G
    <3>1. k + 1 \in 1 .. n /\ (k + 1) - 1 = k
      BY <2>2
    <3>2. f[k + 1] = DefineTurn(node, f[k], k + 1)
      BY <1>2, <1>4, <3>1 DEF DefinesRead
    <3>3. OneByName(f[k])
      BY <2>2
    <3>4. OneByName(f[k + 1])
      BY <3>2, <3>3 DEF OneByName, DefineTurn, Insert
    <3> QED
      BY <3>1, <3>4
  <2> HIDE DEF G
  <2>3. \A k \in 0 .. n : k \in G
    BY <2>1, <2>2, UpTo
  <2> QED
    BY <2>3 DEF G
<1> QED
  BY <1>5, <1>7, <1>8, <1>9

-----------------------------------------------------------------------------
(* A printed value is read back.                                            *)

\* A well-formed appender is printed as a usable map that is read as itself
LEMMA AppenderBack ==
  ASSUME NEW a, WellAppender(a)
  PROVE  Usable(PrintAppender(a)) /\ ReadAppender(PrintAppender(a)) = a
<1>1. PICK S : S = PrintsFile(a) \cup Optional(a)
  OBVIOUS
<1>2. PICK m : m = PrintAppender(a)
  OBVIOUS
<1>3. m = [key \in S |-> [type |-> IF a.type = 1 THEN "hps_FileLogAppender" ELSE "hps_StdoutLogAppender",
                          file |-> a.file, level |-> a.level, formatter |-> a.formatter][key]]
  BY <1>1, <1>2 DEF PrintAppender, Keep
<1>4. a.level = "UNKNOW"
  BY DEF WellAppender
<1>5. S = (IF a.type = 1 THEN {"type", "file"} ELSE {"type"}) \cup
          (IF a.formatter # "" THEN {"formatter"} ELSE {})
  BY <1>1, <1>4 DEF PrintsFile, Optional
<1>6. DOMAIN m = S
  BY <1>3
<1>7. CASE a.type = 1
  <2>1. m["type"] = "hps_FileLogAppender" /\ m["file"] = a.file /\ "file" \in S /\ "type" \in S
    BY <1>3, <1>5, <1>7
  <2>2. "formatter" \in S <=> a.formatter # ""
    BY <1>5, <1>7
  <2>3. "formatter" \in S => m["formatter"] = a.formatter
    BY <1>3
  <2>4. Get(m, "formatter") = a.formatter
    BY <1>6, <2>2, <2>3 DEF Get
  <2>5. Usable(m)
    BY <1>6, <2>1 DEF Usable, Get
  <2>6. ReadAppender(m) = [type |-> 1, level |-> "UNKNOW", formatter |-> a.formatter, file |-> a.file]
    BY <2>1, <2>4 DEF ReadAppender
  <2> QED
    BY <1>2, <1>7, <2>5, <2>6 DEF WellAppender
<1>8. CASE a.type # 1
  <2>1. m["type"] = "hps_StdoutLogAppender" /\ "type" \in S
    BY <1>3, <1>5, <1>8
  <2>2. Usable(m)
    BY <1>6, <2>1 DEF Usable, Get
  <2>3. ReadAppender(m) = [type |-> 2, level |-> "UNKNOW", formatter |-> "", file |-> ""]
    BY <2>1 DEF ReadAppender
  <2> QED
    BY <1>2, <1>8, <2>2, <2>3 DEF WellAppender
<1> QED
  BY <1>7, <1>8

\* g is the first k members of as
FirstOf(g, as, k) == Len(g) = k /\ \A x \in 1 .. k : g[x] = as[x]

\* The loop over printed appenders takes each of them, in order
LEMMA AppendersBack ==
  ASSUME NEW as, IsList(as), \A x \in DOMAIN as : WellAppender(as[x]),
         NEW ps, ps = [x \in DOMAIN as |-> PrintAppender(as[x])]
  PROVE  IsList(ps) /\ ReadAll(ps) = as
<1>1. PICK n \in Nat : n = Len(as)
  BY ListFacts
<1>2. DOMAIN as = 1 .. n /\ as = [x \in 1 .. n |-> as[x]]
  BY <1>1, ListFacts
<1>3. ps = [x \in 1 .. n |-> ps[x]]
  BY <1>2
<1>4. Len(ps) = n
  BY <1>3, MakeList
<1>5. IsList(ps)
  BY <1>3, MakeList
<1>6. PICK B : B = {ReadAppender(ps[x]) : x \in 1 .. n}
  OBVIOUS
<1>7. PICK f \in [0 .. n -> Seq(B)] : AppendersRead(ps, f)
  BY <1>4, <1>5, <1>6, ReadAllLoop, Zenon
<1>8. \A x \in 1 .. n : Usable(ps[x]) /\ ReadAppender(ps[x]) = as[x]
  BY <1>2, AppenderBack
<1>9. \A k \in 0 .. n : FirstOf(f[k], as, k)
  <2> DEFINE G == {k \in 0 .. n : FirstOf(f[k], as, k)}
  <2>1. 0 \in G
    <3>1. f[0] = <<>> /\ Len(<<>>) = 0
      BY <1>7, EmptySeq DEF AppendersRead
    <3>2. FirstOf(<<>>, as, 0)
      BY <3>1 DEF FirstOf
    <3>3. FirstOf(f[0], as, 0)
      BY <3>1, <3>2, Zenon
    <3> QED
      BY <3>3
  <2>2. ASSUME NEW k \in 0 .. n, k \in G, k < n PROVE k + 1 \in G
    <3>1. k + 1 \in 1 .. n /\ (k + 1) - 1 = k /\ k + 1 \in 0 .. n
      BY <2>2
    <3>2. f[k + 1] = AppenderTurn(ps, f[k], k + 1)
      BY <1>4, <1>7, <3>1 DEF AppendersRead
    <3>3. f[k + 1] = Append(f[k], as[k + 1])
      BY <1>8, <3>1, <3>2 DEF AppenderTurn
    <3>4. as[k + 1] \in B
      BY <1>6, <1>8, <3>1
    <3>5. PICK g \in Seq(B) : g = f[k]
      BY <1>7
    <3>6. PICK e \in B : e = as[k + 1]
      BY <3>4
    <3>7. PICK h : h = Append(g, e)
      OBVIOUS
    <3>8. FirstOf(g, as, k)
      BY <2>2, <3>5
    <3>9. PICK m : m = Len(g)
      OBVIOUS
    <3>10. m = k /\ \A x \in 1 .. k : g[x] = as[x]
      BY <3>8, <3>9 DEF FirstOf
    <3>11. Len(h) = m + 1 /\ h[m + 1] = e /\ \A x \in 1 .. m : h[x] = g[x]
      BY <3>7, <3>9, AppendProperties
    <3>12. h = f[k + 1]
      BY <3>3, <3>5, <3>6, <3>7
    <3>13. ASSUME NEW x \in 1 .. k + 1 PROVE h[x] = as[x]
      <4>1. CASE x = k + 1
        BY <3>6, <3>10, <3>11, <4>1
      <4>2. CASE x # k + 1
        <5>1. x \in 1 .. k /\ x \in 1 .. m
          BY <3>10, <4>2
        <5> QED
          BY <3>10, <3>11, <5>1, Zenon
      <4> QED
        BY <4>1, <4>2
    <3>14. FirstOf(h, as, k + 1)
      BY <3>10, <3>11, <3>13 DEF FirstOf
    <3> QED
      BY <3>1, <3>12, <3>14
  <2> HIDE DEF G
  <2>3. \A k \in 0 .. n : k \in G
    BY <2>1, <2>2, UpTo
  <2> QED
    BY <2>3 DEF G
<1>10. ReadAll(ps) = f[n] /\ f[n] \in Seq(B)
  BY <1>4, <1>7 DEF AppendersRead
<1>11. f[n] = as
  <2>1. PICK g \in Seq(B) : g = f[n]
    BY <1>10
  <2>2. FirstOf(g, as, n)
    <3>1. n \in 0 .. n
      OBVIOUS
    <3> QED
      BY <1>9, <2>1, <3>1, Zenon
  <2>3. g = [x \in 1 .. n |-> g[x]]
    BY <2>2, LenProperties DEF FirstOf
  <2>4. g = as
    BY <1>2, <2>2, <2>3 DEF FirstOf
  <2> QED
    BY <2>1, <2>4
<1> QED
  BY <1>5, <1>10, <1>11

\* A well-formed definition is printed as a map with a name, and read as itself
LEMMA DefineBack ==
  ASSUME NEW ld, WellDefine(ld)
  PROVE  /\ "name" \in DOMAIN PrintDefine(ld)
         /\ ReadDefine(PrintDefine(ld)) = ld
<1>1. PICK ps : ps = [x \in DOMAIN ld.appenders |-> PrintAppender(ld.appenders[x])]
  OBVIOUS
<1>2. PICK S : S = {"name"} \cup Optional(ld) \cup (IF ld.appenders = <<>> THEN {} ELSE {"appenders"})
  OBVIOUS
<1>3. PICK m : m = PrintDefine(ld)
  OBVIOUS
<1>4. m = [key \in S |-> [name |-> ld.name, level |-> ld.level, formatter |-> ld.formatter,
                          appenders |-> ps][key]]
  BY <1>1, <1>2, <1>3 DEF PrintDefine, Keep
<1>5. DOMAIN m = S
  BY <1>4
<1>6. "name" \in S /\ m["name"] = ld.name
  BY <1>2, <1>4
<1>7. FromString(Get(m, "level")) = ld.level
  <2>1. "level" \in S <=> ld.level # "UNKNOW"
    BY <1>2 DEF Optional
  <2>2. "level" \in S => m["level"] = ld.level
    BY <1>4
  <2>3. ld.level \in {"INFO", "WARN", "UNKNOW"}
    BY DEF WellDefine
  <2> QED
    BY <1>5, <2>1, <2>2, <2>3 DEF Get, FromString
<1>8. Get(m, "formatter") = ld.formatter
  <2>1. "formatter" \in S <=> ld.formatter # ""
    BY <1>2 DEF Optional
  <2>2. "formatter" \in S => m["formatter"] = ld.formatter
    BY <1>4
  <2> QED
    BY <1>5, <2>1, <2>2 DEF Get
<1>9. (IF "appenders" \in DOMAIN m THEN ReadAll(m["appenders"]) ELSE <<>>) = ld.appenders
  <2>1. "appenders" \in S <=> ld.appenders # <<>>
    BY <1>2 DEF Optional
  <2>2. "appenders" \in S => m["appenders"] = ps
    BY <1>4
  <2>3. ReadAll(ps) = ld.appenders
    <3>1. IsList(ld.appenders) /\ \A x \in DOMAIN ld.appenders : WellAppender(ld.appenders[x])
      BY DEF WellDefine
    <3> QED
      BY <1>1, <3>1, AppendersBack
  <2> QED
    BY <1>5, <2>1, <2>2, <2>3
<1>10. ReadDefine(m) = [name |-> ld.name, level |-> ld.level, formatter |-> ld.formatter,
                        appenders |-> ld.appenders]
  BY <1>6, <1>7, <1>8, <1>9 DEF ReadDefine
<1> QED
  BY <1>3, <1>5, <1>6, <1>10 DEF WellDefine

\* An order of a finite set names each member once
LEMMA AllInOrder ==
  ASSUME NEW S, IsFiniteSet(S), NEW q \in SetToSeqs(S), NEW n, n = Cardinality(S)
  PROVE  /\ n \in Nat /\ q \in [1 .. n -> S]
         /\ \A i, k \in 1 .. n : i # k => q[i] # q[k]
         /\ \A x \in S : \E i \in 1 .. n : q[i] = x
<1>1. n \in Nat
  BY FS_CardinalityType
<1>2. q \in [1 .. n -> S] /\ \A i, k \in 1 .. n : i # k => q[i] # q[k]
  BY DEF SetToSeqs
<1>3. q \in Injection(1 .. n, S)
  BY <1>2 DEF Injection, IsInjective
<1>4. Cardinality(1 .. n) = n
  BY <1>1, FS_Interval
<1>5. q \in Surjection(1 .. n, S)
  BY <1>3, <1>4, FS_Injection
<1> QED
  BY <1>1, <1>2, <1>5 DEF Surjection

\* A value that the readers made, printed in any order, is read back
LEMMA ValueBack ==
  ASSUME NEW vec, IsFiniteSet(vec), OneByName(vec), \A ld \in vec : WellDefine(ld),
         NEW node \in ToNodes(vec)
  PROVE  FromNode(node) = vec
<1>1. PICK q \in SetToSeqs(vec) : node = [k \in DOMAIN q |-> PrintDefine(q[k])]
  BY DEF ToNodes
<1>2. PICK n : n = Cardinality(vec)
  OBVIOUS
<1>3. /\ n \in Nat /\ q \in [1 .. n -> vec]
      /\ \A i, k \in 1 .. n : i # k => q[i] # q[k]
      /\ \A x \in vec : \E i \in 1 .. n : q[i] = x
  BY <1>2, AllInOrder
<1>4. IsList(node) /\ Len(node) = n
  <2>1. node = [k \in 1 .. n |-> node[k]]
    BY <1>1, <1>3
  <2> QED
    BY <1>3, <2>1, MakeList
<1>5. \A k \in 1 .. n : "name" \in DOMAIN node[k] /\ ReadDefine(node[k]) = q[k]
  BY <1>1, <1>3, DefineBack
<1>6. PICK D : D = {ReadDefine(node[k]) : k \in 1 .. n}
  OBVIOUS
<1>7. PICK f \in [0 .. n -> SUBSET D] : DefinesRead(node, f)
  BY <1>4, <1>6, FromNodeLoop, Zenon
<1>8. \A k \in 0 .. n : f[k] = {q[i] : i \in 1 .. k}
  <2> DEFINE G == {k \in 0 .. n : f[k] = {q[i] : i \in 1 .. k}}
  <2>1. 0 \in G
    <3>1. f[0] = {} /\ 1 .. 0 = {}
      BY <1>7 DEF DefinesRead
    <3> QED
      BY <1>3, <3>1
  <2>2. ASSUME NEW k \in 0 .. n, k \in G, k < n PROVE k + 1 \in G
    <3>1. k + 1 \in 1 .. n /\ (k + 1) - 1 = k /\ k + 1 \in 0 .. n /\ 1 .. k + 1 = 1 .. k \cup {k + 1}
          /\ \A i \in 1 .. k : i \in 1 .. n /\ i # k + 1
      BY <1>3, <2>2
    <3>2. f[k + 1] = DefineTurn(node, f[k], k + 1)
      BY <1>4, <1>7, <3>1 DEF DefinesRead
    <3>3. f[k + 1] = Insert(f[k], q[k + 1])
      BY <1>5, <3>1, <3>2 DEF DefineTurn
    <3>4. f[k] = {q[i] : i \in 1 .. k}
      BY <2>2
    <3>5. ASSUME NEW i \in 1 .. k PROVE q[i].name # q[k + 1].name
      <4>1. q[i] # q[k + 1] /\ q[i] \in vec /\ q[k + 1] \in vec
        BY <1>3, <3>1
      <4> QED
        BY <4>1 DEF OneByName
    <3>6. f[k + 1] = f[k] \cup {q[k + 1]}
      BY <3>3, <3>4, <3>5 DEF Insert
    <3>7. f[k + 1] = {q[i] : i \in 1 .. k + 1}
      BY <3>1, <3>4, <3>6
    <3> QED
      BY <3>1, <3>7
  <2> HIDE DEF G
  <2>3. \A k \in 0 .. n : k \in G
    BY <1>3, <2>1, <2>2, UpTo
  <2> QED
    BY <2>3 DEF G
<1>9. FromNode(node) = {q[i] : i \in 1 .. n}
  <2>1. n \in 0 .. n
    BY <1>3
  <2> QED
    BY <1>4, <1>7, <1>8, <2>1 DEF DefinesRead
<1> QED
  BY <1>3, <1>9

\* The invariant: once there is a value it is one the readers made, and what is
\* printed is that value in some order
DInv ==
  /\ stage \in {"text", "value", "printed"}
  /\ stage = "text" => yaml \in Lists
  /\ stage # "text" => /\ IsFiniteSet(defines) /\ OneByName(defines)
                       /\ \A ld \in defines : WellDefine(ld)
  /\ stage = "printed" => yaml \in ToNodes(defines)

\* Whatever definitions a file holds, the value made of them is printed to a
\* text that is read back as the same value
THEOREM ReloadSafe == DefinesSpec => []ReloadKeeps
<1>1. DefinesInit => DInv
  BY DEF DefinesInit, DInv
<1>2. DInv /\ [DefinesNext]_definesVars => DInv'
  <2> SUFFICES ASSUME DInv, [DefinesNext]_definesVars PROVE DInv'
    OBVIOUS
  <2>1. CASE ReadText
    <3>1. yaml \in Lists /\ defines' = FromNode(yaml) /\ stage' = "value"
      BY <2>1 DEF DInv, ReadText
    <3>2. /\ IsFiniteSet(FromNode(yaml)) /\ OneByName(FromNode(yaml))
          /\ \A ld \in FromNode(yaml) : WellDefine(ld)
      BY <3>1, FromNodeWell
    <3>3. IsFiniteSet(defines') /\ OneByName(defines') /\ \A ld \in defines' : WellDefine(ld)
      BY <3>1, <3>2, Zenon
    <3> QED
      BY <3>1, <3>3 DEF DInv
  <2>2. CASE PrintValue
    BY <2>2 DEF DInv, PrintValue
  <2>3. CASE UNCHANGED definesVars
    BY <2>3 DEF DInv, definesVars
  <2> QED
    BY <2>1, <2>2, <2>3 DEF DefinesNext
<1>3. DInv => ReloadKeeps
  <2> SUFFICES ASSUME DInv, stage = "printed" PROVE FromNode(yaml) = defines
    BY DEF ReloadKeeps
  <2> QED
    BY ValueBack DEF DInv
<1> QED
  BY <1>1, <1>2, <1>3, PTL DEF DefinesSpec
=============================================================================
