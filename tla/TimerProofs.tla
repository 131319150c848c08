----------------------------- MODULE TimerProofs -----------------------------
(***************************************************************************)
(* The timer manager, for any number of timers and pollers: the set and    *)
(* the callbacks agree although the comparator is no order, callbacks are  *)
(* handed out properly, and no tickle is lost.                             *)
(***************************************************************************)
EXTENDS TimerManager, FiniteSetTheorems, SequenceTheorems, WellFoundedInduction, TLAPS

-----------------------------------------------------------------------------
(* The inductive invariant.                                                 *)

\* k is in the sequence s, and s holds nothing twice
Holds(s, k) == \E i \in 1 .. Len(s) : s[i] = k
Once(s) == \A i, j \in 1 .. Len(s) : s[i] = s[j] => i = j

\* No deadline lies before its interval: reset() subtracts one from the other
DeadlineInv == \A k \in Timers : m_ms[k] <= m_next[k]

\* A poller's clock is never ahead
ClockInv == \A p \in Pollers : now_ms[p] <= now

\* What the life of a timer says of its callback
LifeInv ==
  \A k \in Timers :
    /\ life[k] = "none" => ~m_cb[k]
    /\ life[k] = "made" => m_cb[k]
    /\ life[k] = "cancelled" => ~m_cb[k]
    /\ life[k] \in {"none", "made"} => handed[k] = 0
    /\ m_cb[k] /\ ~m_recurring[k] => handed[k] = 0

\* The set holds, once, the timers that were added and have their callback
SetInv ==
  Running => \A k \in Timers : Holds(m_timers, k) <=> m_cb[k] /\ life[k] # "made"

TInv == TypeOK /\ DeadlineInv /\ ClockInv /\ LifeInv /\ Once(m_timers) /\ SetInv
             /\ TickleNotLost

-----------------------------------------------------------------------------
(* Sequences that hold nothing twice.                                       *)

\* A set of naturals has a least member
LEMMA LeastNatural ==
  ASSUME NEW T \in SUBSET Nat, T # {}
  PROVE  \E x \in T : \A y \in T : x <= y
<1>1. PICK x \in T : \A y \in T : <<y, x>> \notin OpToRel(<, Nat)
  BY NatLessThanWellFounded, WFMin
<1>2. \A y \in T : ~(y < x)
  BY <1>1 DEF OpToRel
<1> QED
  BY <1>2

\* A part of a sequence
LEMMA PartFacts ==
  ASSUME NEW S, NEW s \in Seq(S), NEW m \in 1 .. Len(s) + 1, NEW n \in m - 1 .. Len(s)
  PROVE  /\ SubSeq(s, m, n) \in Seq(S)
         /\ Len(SubSeq(s, m, n)) = n - m + 1
         /\ \A i \in 1 .. n - m + 1 : SubSeq(s, m, n)[i] = s[i + m - 1]
<1>1. \A i \in m .. n : s[i] \in S
  OBVIOUS
<1>2. /\ SubSeq(s, m, n) \in Seq(S)
      /\ Len(SubSeq(s, m, n)) = IF m <= n THEN n - m + 1 ELSE 0
      /\ \A i \in 1 .. n - m + 1 : SubSeq(s, m, n)[i] = s[m + i - 1]
  BY <1>1, SubSeqProperties
<1>3. (IF m <= n THEN n - m + 1 ELSE 0) = n - m + 1
  OBVIOUS
<1>4. \A i \in 1 .. n - m + 1 : m + i - 1 = i + m - 1
  OBVIOUS
<1> QED
  BY <1>2, <1>3, <1>4

\* Inserting an element that is not there
LEMMA InsertFacts ==
  ASSUME NEW S, NEW s \in Seq(S), NEW k \in S, NEW p \in 1 .. Len(s) + 1
  PROVE  /\ InsertAt(s, p, k) \in Seq(S)
         /\ \A x : Holds(InsertAt(s, p, k), x) <=> Holds(s, x) \/ x = k
         /\ Once(s) /\ ~Holds(s, k) => Once(InsertAt(s, p, k))
<1>0. PICK n \in Nat : n = Len(s) /\ p \in 1 .. n + 1
  OBVIOUS
<1>1. PICK a \in Seq(S) : /\ a = SubSeq(s, 1, p - 1)
                          /\ Len(a) = p - 1
                          /\ \A i \in 1 .. p - 1 : a[i] = s[i]
  <2>1. 1 \in 1 .. Len(s) + 1 /\ p - 1 \in 1 - 1 .. Len(s)
    BY <1>0
  <2> DEFINE a == SubSeq(s, 1, p - 1)
  <2>2. /\ a \in Seq(S) /\ Len(a) = (p - 1) - 1 + 1
        /\ \A i \in 1 .. (p - 1) - 1 + 1 : a[i] = s[i + 1 - 1]
    BY <2>1, PartFacts
  <2>3. (p - 1) - 1 + 1 = p - 1 /\ \A i \in 1 .. p - 1 : i + 1 - 1 = i
    BY <1>0
  <2> HIDE DEF a
  <2>4. a \in Seq(S) /\ Len(a) = p - 1 /\ \A i \in 1 .. p - 1 : a[i] = s[i]
    BY <2>2, <2>3
  <2> QED
    BY <2>4 DEF a
<1>2. PICK b \in Seq(S) : /\ b = SubSeq(s, p, Len(s))
                          /\ Len(b) = n - p + 1
                          /\ \A i \in 1 .. n - p + 1 : b[i] = s[i + p - 1]
  <2>1. p \in 1 .. Len(s) + 1 /\ Len(s) \in p - 1 .. Len(s)
    BY <1>0
  <2> DEFINE b == SubSeq(s, p, Len(s))
  <2>2. /\ b \in Seq(S) /\ Len(b) = n - p + 1
        /\ \A i \in 1 .. n - p + 1 : b[i] = s[i + p - 1]
    BY <1>0, <2>1, PartFacts
  <2> HIDE DEF b
  <2> QED
    BY <2>2 DEF b
<1>3. PICK c \in Seq(S) : /\ c = a \o <<k>>
                          /\ Len(c) = p
                          /\ \A i \in 1 .. p - 1 : c[i] = s[i]
                          /\ c[p] = k
  <2>1. a \o <<k>> = Append(a, k)
    BY AppendIsConcat
  <2>2. Append(a, k) \in Seq(S) /\ Len(Append(a, k)) = p
    BY <1>0, <1>1, AppendProperties
  <2>3. \A i \in 1 .. p - 1 : Append(a, k)[i] = s[i]
    BY <1>0, <1>1, AppendProperties
  <2>4. Append(a, k)[p] = k
    BY <1>0, <1>1, AppendProperties
  <2> QED
    BY <2>1, <2>2, <2>3, <2>4
<1>4. PICK r \in Seq(S) : /\ r = InsertAt(s, p, k)
                          /\ Len(r) = n + 1
                          /\ \A i \in 1 .. p - 1 : r[i] = s[i]
                          /\ r[p] = k
                          /\ \A i \in p + 1 .. n + 1 : r[i] = s[i - 1]
  <2>1. PICK r : r = c \o b
    OBVIOUS
  <2>2. r = InsertAt(s, p, k)
    BY <1>1, <1>2, <1>3, <2>1 DEF InsertAt
  <2>3. /\ r \in Seq(S) /\ Len(r) = Len(c) + Len(b)
        /\ \A i \in 1 .. Len(c) + Len(b) : r[i] = IF i <= Len(c) THEN c[i] ELSE b[i - Len(c)]
    BY <2>1, ConcatProperties
  <2>4. Len(c) + Len(b) = n + 1
    <3>1. p + (n - p + 1) = n + 1
      BY <1>0
    <3> QED
      BY <1>2, <1>3, <3>1, Zenon
  <2>5. \A i \in 1 .. p : r[i] = c[i]
    BY <1>0, <1>3, <2>3, <2>4
  <2>6. ASSUME NEW i \in p + 1 .. n + 1 PROVE r[i] = s[i - 1]
    <3>1. i \in 1 .. n + 1 /\ ~(i <= p) /\ i - p \in 1 .. n - p + 1 /\ (i - p) + p - 1 = i - 1
      BY <1>0
    <3>2. r[i] = b[i - p]
      BY <1>3, <2>3, <2>4, <3>1
    <3> QED
      BY <1>2, <3>1, <3>2
  <2>7. \A i \in 1 .. p - 1 : i \in 1 .. p
    BY <1>0
  <2>8. p \in 1 .. p
    BY <1>0
  <2>9. /\ Len(r) = n + 1 /\ r[p] = k
        /\ \A i \in 1 .. p - 1 : r[i] = s[i]
    BY <1>3, <2>3, <2>4, <2>5, <2>7, <2>8
  <2> QED
    BY <2>2, <2>3, <2>6, <2>9
<1>5. \A x : Holds(r, x) <=> Holds(s, x) \/ x = k
  <2>1. ASSUME NEW i \in 1 .. n + 1, i # p PROVE \E j \in 1 .. n : r[i] = s[j]
    <3>1. CASE i < p
      <4>1. i \in 1 .. p - 1 /\ i \in 1 .. n
        BY <1>0, <3>1
      <4> QED
        BY <1>4, <4>1
    <3>2. CASE i > p
      <4>1. i \in p + 1 .. n + 1 /\ i - 1 \in 1 .. n
        BY <1>0, <3>2
      <4> QED
        BY <1>4, <4>1
    <3> QED
      BY <1>0, <2>1, <3>1, <3>2
  <2>2. ASSUME NEW j \in 1 .. n PROVE \E i \in 1 .. n + 1 : r[i] = s[j]
    <3>1. CASE j < p
      <4>1. j \in 1 .. p - 1 /\ j \in 1 .. n + 1
        BY <1>0, <3>1
      <4> QED
        BY <1>4, <4>1
    <3>2. CASE j >= p
      <4>1. j + 1 \in p + 1 .. n + 1 /\ j + 1 \in 1 .. n + 1 /\ (j + 1) - 1 = j
        BY <1>0, <3>2
      <4> QED
        BY <1>4, <4>1
    <3> QED
      BY <1>0, <3>1, <3>2
  <2>3. p \in 1 .. n + 1
    BY <1>0
  <2> QED
    BY <1>0, <1>4, <2>1, <2>2, <2>3 DEF Holds
<1>6. ASSUME Once(s), ~Holds(s, k) PROVE Once(r)
  <2>1. \A i, j \in 1 .. n : s[i] = s[j] => i = j
    BY <1>0, <1>6 DEF Once
  <2>2. \A i \in 1 .. n : s[i] # k
    BY <1>0, <1>6 DEF Holds
  <2>3. PICK f \in [1 .. n + 1 -> Int] :
          \A i \in 1 .. n + 1 : f[i] = IF i < p THEN i ELSE i - 1
    <3>1. [i \in 1 .. n + 1 |-> IF i < p THEN i ELSE i - 1] \in [1 .. n + 1 -> Int]
      BY <1>0
    <3> QED
      BY <3>1
  <2>4. ASSUME NEW i \in 1 .. n + 1, i # p PROVE f[i] \in 1 .. n /\ r[i] = s[f[i]]
    <3>1. CASE i < p
      <4>1. i \in 1 .. p - 1 /\ i \in 1 .. n /\ f[i] = i
        BY <1>0, <2>3, <3>1
      <4> QED
        BY <1>4, <4>1
    <3>2. CASE i > p
      <4>1. i \in p + 1 .. n + 1 /\ i - 1 \in 1 .. n /\ f[i] = i - 1
        BY <1>0, <2>3, <3>2
      <4> QED
        BY <1>4, <4>1
    <3> QED
      BY <1>0, <2>4, <3>1, <3>2
  <2>5. \A i, j \in 1 .. n + 1 : i # p /\ j # p /\ f[i] = f[j] => i = j
    BY <1>0, <2>3
  <2>6. ASSUME NEW i \in 1 .. n + 1, NEW j \in 1 .. n + 1, r[i] = r[j] PROVE i = j
    <3>1. CASE i # p /\ j # p
      <4>1. f[i] \in 1 .. n /\ f[j] \in 1 .. n /\ s[f[i]] = s[f[j]]
        BY <2>4, <2>6, <3>1
      <4> QED
        BY <2>1, <2>5, <3>1, <4>1
    <3>2. \A l \in 1 .. n + 1 : l # p => r[l] # k
      BY <2>2, <2>4
    <3> QED
      BY <1>4, <2>6, <3>1, <3>2
  <2> QED
    BY <1>4, <2>6 DEF Once
<1> QED
  BY <1>4, <1>5, <1>6

\* Removing the element at a position
LEMMA RemoveFacts ==
  ASSUME NEW S, NEW s \in Seq(S), NEW p \in 1 .. Len(s), Once(s)
  PROVE  /\ RemoveAt(s, p) \in Seq(S)
         /\ Once(RemoveAt(s, p))
         /\ \A x : Holds(RemoveAt(s, p), x) <=> Holds(s, x) /\ x # s[p]
<1>0. PICK n \in Nat : n = Len(s) /\ p \in 1 .. n
  OBVIOUS
<1>1. PICK a \in Seq(S) : /\ a = SubSeq(s, 1, p - 1)
                          /\ Len(a) = p - 1
                          /\ \A i \in 1 .. p - 1 : a[i] = s[i]
  <2>1. 1 \in 1 .. Len(s) + 1 /\ p - 1 \in 1 - 1 .. Len(s)
    BY <1>0
  <2> DEFINE a == SubSeq(s, 1, p - 1)
  <2>2. /\ a \in Seq(S) /\ Len(a) = (p - 1) - 1 + 1
        /\ \A i \in 1 .. (p - 1) - 1 + 1 : a[i] = s[i + 1 - 1]
    BY <2>1, PartFacts
  <2>3. (p - 1) - 1 + 1 = p - 1 /\ \A i \in 1 .. p - 1 : i + 1 - 1 = i
    BY <1>0
  <2> HIDE DEF a
  <2>4. a \in Seq(S) /\ Len(a) = p - 1 /\ \A i \in 1 .. p - 1 : a[i] = s[i]
    BY <2>2, <2>3
  <2> QED
    BY <2>4 DEF a
<1>2. PICK b \in Seq(S) : /\ b = SubSeq(s, p + 1, Len(s))
                          /\ Len(b) = n - p
                          /\ \A i \in 1 .. n - p : b[i] = s[i + p]
  <2>1. p + 1 \in 1 .. Len(s) + 1 /\ Len(s) \in (p + 1) - 1 .. Len(s)
    BY <1>0
  <2> DEFINE b == SubSeq(s, p + 1, Len(s))
  <2>2. /\ b \in Seq(S) /\ Len(b) = n - (p + 1) + 1
        /\ \A i \in 1 .. n - (p + 1) + 1 : b[i] = s[i + (p + 1) - 1]
    BY <1>0, <2>1, PartFacts
  <2>3. n - (p + 1) + 1 = n - p /\ \A i \in 1 .. n - p : i + (p + 1) - 1 = i + p
    BY <1>0
  <2> HIDE DEF b
  <2>4. b \in Seq(S) /\ Len(b) = n - p /\ \A i \in 1 .. n - p : b[i] = s[i + p]
    BY <2>2, <2>3
  <2> QED
    BY <2>4 DEF b
<1>3. PICK r \in Seq(S) : /\ r = RemoveAt(s, p)
                          /\ Len(r) = n - 1
                          /\ \A i \in 1 .. n - 1 : r[i] = s[IF i < p THEN i ELSE i + 1]
  <2>1. PICK r : r = a \o b
    OBVIOUS
  <2>2. r = RemoveAt(s, p)
    BY <1>1, <1>2, <2>1 DEF RemoveAt
  <2>3. /\ r \in Seq(S) /\ Len(r) = Len(a) + Len(b)
        /\ \A i \in 1 .. Len(a) + Len(b) : r[i] = IF i <= Len(a) THEN a[i] ELSE b[i - Len(a)]
    BY <2>1, ConcatProperties
  <2>4. Len(a) + Len(b) = n - 1
    <3>1. (p - 1) + (n - p) = n - 1
      BY <1>0
    <3> QED
      BY <1>1, <1>2, <3>1, Zenon
  <2>5. ASSUME NEW i \in 1 .. n - 1 PROVE r[i] = s[IF i < p THEN i ELSE i + 1]
    <3>1. CASE i < p
      <4>1. i <= p - 1 /\ i \in 1 .. p - 1
        BY <1>0, <3>1
      <4> QED
        BY <1>1, <2>3, <2>4, <3>1, <4>1
    <3>2. CASE ~(i < p)
      <4>1. ~(i <= p - 1) /\ i - (p - 1) \in 1 .. n - p /\ (i - (p - 1)) + p = i + 1
        BY <1>0, <3>2
      <4> QED
        BY <1>1, <1>2, <2>3, <2>4, <3>2, <4>1
    <3> QED
      BY <3>1, <3>2
  <2> QED
    BY <2>2, <2>3, <2>4, <2>5
<1>4. PICK f \in [1 .. n - 1 -> 1 .. n] :
        \A i \in 1 .. n - 1 : f[i] = IF i < p THEN i ELSE i + 1
  <2>1. [i \in 1 .. n - 1 |-> IF i < p THEN i ELSE i + 1] \in [1 .. n - 1 -> 1 .. n]
    BY <1>0
  <2> QED
    BY <2>1
<1>5. \A i \in 1 .. n - 1 : r[i] = s[f[i]]
  BY <1>3, <1>4
<1>6. \A i, j \in 1 .. n - 1 : f[i] = f[j] => i = j
  BY <1>0, <1>4
<1>7. \A i \in 1 .. n - 1 : f[i] \in 1 .. n /\ f[i] # p
  BY <1>0, <1>4
<1>8. ASSUME NEW j \in 1 .. n, j # p PROVE \E i \in 1 .. n - 1 : f[i] = j
  <2>1. CASE j < p
    <3>1. j \in 1 .. n - 1 /\ f[j] = j
      BY <1>0, <1>4, <2>1
    <3> QED
      BY <3>1
  <2>2. CASE j > p
    <3>1. j - 1 \in 1 .. n - 1 /\ f[j - 1] = j
      BY <1>0, <1>4, <2>2
    <3> QED
      BY <3>1
  <2> QED
    BY <1>0, <1>8, <2>1, <2>2
<1>10. \A i, j \in 1 .. n : s[i] = s[j] => i = j
  BY <1>0 DEF Once
<1>9. Once(r)
  <2>1. ASSUME NEW i \in 1 .. n - 1, NEW j \in 1 .. n - 1, r[i] = r[j] PROVE i = j
    <3>1. f[i] \in 1 .. n /\ f[j] \in 1 .. n /\ s[f[i]] = s[f[j]]
      BY <1>5, <1>7, <2>1
    <3>2. f[i] = f[j]
      BY <1>10, <3>1
    <3> QED
      BY <1>6, <3>2
  <2> QED
    BY <1>3, <2>1 DEF Once
<1>11. \A x : (\E i \in 1 .. n - 1 : r[i] = x) <=> (\E i \in 1 .. n : s[i] = x) /\ x # s[p]
  <2>1. ASSUME NEW i \in 1 .. n - 1 PROVE r[i] # s[p] /\ \E j \in 1 .. n : s[j] = r[i]
    BY <1>0, <1>5, <1>7, <1>10
  <2>2. ASSUME NEW j \in 1 .. n, s[j] # s[p] PROVE \E i \in 1 .. n - 1 : r[i] = s[j]
    <3>1. j # p
      BY <2>2
    <3>2. PICK i \in 1 .. n - 1 : f[i] = j
      BY <1>8, <3>1
    <3>3. r[i] = s[j]
      BY <1>5, <3>2
    <3> QED
      BY <3>3
  <2> QED
    BY <2>1, <2>2
<1>12. \A x : Holds(r, x) <=> Holds(s, x) /\ x # s[p]
  BY <1>0, <1>3, <1>11 DEF Holds
<1> QED
  BY <1>3, <1>9, <1>12

\* a and b are s cut in two after n elements
Halves(s, n, S, a, b) ==
  /\ a \in Seq(S) /\ b \in Seq(S) /\ Once(a) /\ Once(b)
  /\ Len(a) = n
  /\ \A i \in 1 .. n : a[i] = s[i]
  /\ \A x : Holds(s, x) <=> Holds(a, x) \/ Holds(b, x)
  /\ \A x : ~(Holds(a, x) /\ Holds(b, x))

\* Cutting a sequence in two
LEMMA CutFacts ==
  ASSUME NEW S, NEW s \in Seq(S), NEW n \in 0 .. Len(s), Once(s),
         NEW a, NEW b, a = SubSeq(s, 1, n) /\ b = SubSeq(s, n + 1, Len(s))
  PROVE  Halves(s, n, S, a, b)
<1>0. PICK l \in Nat : l = Len(s) /\ n \in 0 .. l
  OBVIOUS
<1>1. a \in Seq(S) /\ Len(a) = n /\ \A i \in 1 .. n : a[i] = s[i]
  <2>1. 1 \in 1 .. Len(s) + 1 /\ n \in 1 - 1 .. Len(s)
    BY <1>0
  <2>2. /\ a \in Seq(S) /\ Len(a) = n - 1 + 1
        /\ \A i \in 1 .. n - 1 + 1 : a[i] = s[i + 1 - 1]
    BY <2>1, PartFacts
  <2>3. n - 1 + 1 = n /\ \A i \in 1 .. n : i + 1 - 1 = i
    BY <1>0
  <2> QED
    BY <2>2, <2>3
<1>2. b \in Seq(S) /\ Len(b) = l - n /\ \A i \in 1 .. l - n : b[i] = s[i + n]
  <2>1. n + 1 \in 1 .. Len(s) + 1 /\ Len(s) \in (n + 1) - 1 .. Len(s)
    BY <1>0
  <2>2. /\ b \in Seq(S) /\ Len(b) = l - (n + 1) + 1
        /\ \A i \in 1 .. l - (n + 1) + 1 : b[i] = s[i + (n + 1) - 1]
    BY <1>0, <2>1, PartFacts
  <2>3. l - (n + 1) + 1 = l - n /\ \A i \in 1 .. l - n : i + (n + 1) - 1 = i + n
    BY <1>0
  <2> QED
    BY <2>2, <2>3
<1>3. \A i, j \in 1 .. l : s[i] = s[j] => i = j
  BY <1>0 DEF Once
<1>4. \A i \in 1 .. l - n : i + n \in 1 .. l
  BY <1>0
<1>5. \A i \in 1 .. n : i \in 1 .. l
  BY <1>0
<1>6. Once(a)
  BY <1>1, <1>3, <1>5 DEF Once
<1>7. Once(b)
  <2>1. \A i, j \in 1 .. l - n : i + n = j + n => i = j
    BY <1>0
  <2>2. \A i, j \in 1 .. l - n : b[i] = b[j] => i = j
    BY <1>2, <1>3, <1>4, <2>1
  <2> QED
    BY <1>2, <2>2 DEF Once
<1>8. ASSUME NEW j \in Int, j \in 1 .. l
      PROVE  (\E i \in 1 .. n : a[i] = s[j]) \/ (\E i \in 1 .. l - n : b[i] = s[j])
  <2>1. CASE j <= n
    <3>1. j \in 1 .. n
      BY <1>0, <1>8, <2>1
    <3> QED
      BY <1>1, <3>1
  <2>2. CASE j > n
    <3>1. j - n \in 1 .. l - n /\ (j - n) + n = j
      BY <1>0, <1>8, <2>2
    <3> QED
      BY <1>2, <3>1
  <2>3. n \in Int
    BY <1>0
  <2>4. j <= n \/ j > n
    BY <2>3
  <2> QED
    BY <2>1, <2>2, <2>4
<1> DEFINE In(t, m, x) == \E i \in 1 .. m : t[i] = x
<1>11. \A x : /\ Holds(s, x) <=> In(s, l, x)
              /\ Holds(a, x) <=> In(a, n, x)
              /\ Holds(b, x) <=> In(b, l - n, x)
  BY <1>0, <1>1, <1>2 DEF Holds
<1>9. \A x : Holds(s, x) <=> Holds(a, x) \/ Holds(b, x)
  <2>1. \A x : In(s, l, x) => In(a, n, x) \/ In(b, l - n, x)
    <3>1. \A j \in 1 .. l : j \in Int
      OBVIOUS
    <3> QED
      BY <1>8, <3>1
  <2>2. \A x : In(a, n, x) => In(s, l, x)
    BY <1>1, <1>5
  <2>3. \A x : In(b, l - n, x) => In(s, l, x)
    BY <1>2, <1>4
  <2> HIDE DEF In
  <2> QED
    BY <1>11, <2>1, <2>2, <2>3
<1>10. \A x : ~(Holds(a, x) /\ Holds(b, x))
  <2>1. \A i \in 1 .. n, j \in 1 .. l - n : i # j + n
    BY <1>0
  <2>2. \A i \in 1 .. n, j \in 1 .. l - n : a[i] # b[j]
    BY <1>1, <1>2, <1>3, <1>4, <1>5, <2>1
  <2>3. \A x : ~(In(a, n, x) /\ In(b, l - n, x))
    BY <2>2
  <2> HIDE DEF In
  <2> QED
    BY <1>11, <2>3
<1> QED
  BY <1>1, <1>2, <1>6, <1>7, <1>9, <1>10 DEF Halves

\* How often an element occurs
LEMMA OccursOnce ==
  ASSUME NEW s, Once(s), NEW k
  PROVE  Cardinality({i \in 1 .. Len(s) : s[i] = k}) = IF Holds(s, k) THEN 1 ELSE 0
<1> DEFINE I == {i \in 1 .. Len(s) : s[i] = k}
<1>1. CASE Holds(s, k)
  <2>1. PICK i \in 1 .. Len(s) : s[i] = k
    BY <1>1 DEF Holds
  <2>2. I = {i}
    BY <2>1 DEF Once
  <2> QED
    BY <1>1, <2>2, FS_Singleton
<1>2. CASE ~Holds(s, k)
  <2>1. I = {}
    BY <1>2 DEF Holds
  <2> QED
    BY <1>2, <2>1, FS_EmptySet
<1> QED
  BY <1>1, <1>2

\* The loop of listExpiredCb(): putting the recurring ones of the expired
\* timers back, one after the other, adds just those
LEMMA PutBackFacts ==
  ASSUME TypeOK, NEW next, NEW rest \in Seq(Timers), NEW expired \in Seq(Timers),
         Once(rest), Once(expired), \A x : ~(Holds(rest, x) /\ Holds(expired, x)),
         NEW c \in PutBack(rest, next, expired)
  PROVE  LET r == c[Len(expired)] IN
           /\ r \in Seq(Timers) /\ Once(r)
           /\ \A x : Holds(r, x) <=> Holds(rest, x) \/ (Holds(expired, x) /\ m_recurring[x])
<1> DEFINE N == Len(expired)
           Had(m, x) == \E i \in 1 .. m : expired[i] = x /\ m_recurring[x]
           P(m) == /\ c[m] \in Seq(Timers) /\ Once(c[m])
                   /\ \A x : Holds(c[m], x) <=> Holds(rest, x) \/ Had(m, x)
           T == {m \in 0 .. N : ~P(m)}
<1>1. N \in Nat /\ \A i \in 1 .. N : expired[i] \in Timers
  OBVIOUS
<1>2. /\ c[0] = rest
      /\ \A i \in 1 .. N : IF m_recurring[expired[i]]
                             THEN c[i] \in Inserted(c[i - 1], next, expired[i])
                             ELSE c[i] = c[i - 1]
  BY DEF PutBack
<1>3. \A i, j \in 1 .. N : expired[i] = expired[j] => i = j
  BY DEF Once
<1>4. \A i \in 1 .. N : ~Holds(rest, expired[i])
  BY DEF Holds
<1>5. \A x : Holds(expired, x) /\ m_recurring[x] <=> Had(N, x)
  BY DEF Holds
<1> HIDE DEF N
<1>6. P(0)
  BY <1>2
<1>7. ASSUME NEW m \in 1 .. N, P(m - 1) PROVE P(m)
  <2>1. PICK s \in Seq(Timers) : s = c[m - 1]
    BY <1>7
  <2>2. PICK k \in Timers : k = expired[m]
    BY <1>1
  <2>3. Once(s) /\ \A x : Holds(s, x) <=> Holds(rest, x) \/ Had(m - 1, x)
    BY <1>7, <2>1
  <2>4. \A i \in 1 .. m - 1 : i \in 1 .. N /\ i # m /\ i \in 1 .. m
    BY <1>1
  <2>5. \A i \in 1 .. m : i \in 1 .. m - 1 \/ i = m
    BY <1>1
  <2>6. m \in 1 .. m
    BY <1>1
  <2>7. \A x : Had(m, x) <=> Had(m - 1, x) \/ (x = k /\ m_recurring[k])
    BY <2>2, <2>4, <2>5, <2>6
  <2>8. CASE m_recurring[k]
    <3>1. ~Holds(s, k)
      <4>1. ~Had(m - 1, k)
        BY <1>3, <2>2, <2>4
      <4> HIDE DEF Had
      <4> QED
        BY <1>4, <2>2, <2>3, <4>1
    <3>2. c[m] \in Inserted(s, next, k)
      BY <1>2, <2>1, <2>2, <2>8
    <3>3. PICK p \in 1 .. Len(s) + 1 : c[m] = InsertAt(s, p, k)
      BY <3>2 DEF Inserted, Positions
    <3>4. PICK r : r = c[m]
      OBVIOUS
    <3>5. /\ r \in Seq(Timers) /\ Once(r)
          /\ \A x : Holds(r, x) <=> Holds(s, x) \/ x = k
      BY <2>3, <3>1, <3>3, <3>4, InsertFacts
    <3>6. \A x : Holds(r, x) <=> Holds(rest, x) \/ Had(m, x)
      <4> HIDE DEF Had
      <4> QED
        BY <2>3, <2>7, <2>8, <3>5
    <3> HIDE DEF Had
    <3> QED
      BY <3>4, <3>5, <3>6
  <2>9. CASE ~m_recurring[k]
    <3>1. c[m] = s
      BY <1>2, <2>1, <2>2, <2>9
    <3>2. \A x : Had(m, x) <=> Had(m - 1, x)
      BY <2>7, <2>9
    <3> HIDE DEF Had
    <3> QED
      BY <2>1, <2>3, <3>1, <3>2
  <2> QED
    BY <2>8, <2>9
<1> HIDE DEF P
<1>8. T = {}
  <2> SUFFICES ASSUME T # {} PROVE FALSE
    OBVIOUS
  <2>1. PICK m \in T : \A y \in T : m <= y
    <3>1. T \in SUBSET Nat
      BY <1>1
    <3> HIDE DEF T
    <3> QED
      BY <3>1, LeastNatural
  <2>2. m \in 0 .. N /\ ~P(m) /\ m # 0
    BY <1>6, <2>1
  <2>3. m \in 1 .. N /\ m - 1 \in 0 .. N /\ ~(m <= m - 1)
    BY <1>1, <2>2
  <2>4. P(m - 1)
    BY <2>1, <2>3
  <2> QED
    BY <1>7, <2>2, <2>3, <2>4
<1>9. P(N)
  BY <1>1, <1>8
<1> QED
  BY <1>5, <1>9 DEF P, N

-----------------------------------------------------------------------------
(* Every step keeps the invariant.                                          *)

\* What find() returned and erase() takes out
LEMMA ErasedFacts ==
  ASSUME TInv, NEW k \in Timers, MayFind(k)
  PROVE  /\ Without(k) \in Seq(Timers) /\ Once(Without(k))
         /\ \A x : Holds(Without(k), x) <=> Holds(m_timers, x) /\ x # k
<1>0. DOMAIN m_timers = 1 .. Len(m_timers)
  BY DEF TInv, TypeOK
<1>1. \E i \in 1 .. Len(m_timers) : m_timers[i] = k
  BY <1>0 DEF MayFind, Range
<1>2. PositionOf(k) \in 1 .. Len(m_timers) /\ m_timers[PositionOf(k)] = k
  BY <1>1 DEF PositionOf
<1>3. m_timers \in Seq(Timers) /\ Once(m_timers)
  BY DEF TInv, TypeOK
<1> QED
  BY <1>2, <1>3, RemoveFacts DEF Without

\* The set with one timer inserted that was not in it
LEMMA InsertedFacts ==
  ASSUME NEW s \in Seq(Timers), Once(s), NEW k \in Timers, ~Holds(s, k), NEW next,
         NEW r \in Inserted(s, next, k)
  PROVE  /\ r \in Seq(Timers) /\ Once(r)
         /\ \A x : Holds(r, x) <=> Holds(s, x) \/ x = k
<1>1. PICK p \in 1 .. Len(s) + 1 : r = InsertAt(s, p, k)
  BY DEF Inserted, Positions
<1> QED
  BY <1>1, InsertFacts

LEMMA ConstructKeeps ==
  ASSUME TInv, NEW k \in Timers, NEW ms \in Intervals, NEW b \in BOOLEAN, Construct(k, ms, b)
  PROVE  TInv'
<1> USE TimerAssumption DEF TInv, UserFrame, Running
<1>1. now \in Nat /\ ms \in Nat
  BY DEF TypeOK
<1>2. TypeOK'
  BY <1>1, SMTT(30) DEF Construct, TypeOK, Deadline
<1>3. DeadlineInv' /\ ClockInv'
  BY <1>1 DEF Construct, DeadlineInv, ClockInv, TypeOK, Deadline
<1>4. LifeInv'
  BY DEF Construct, LifeInv, TypeOK
<1>5. SetInv' /\ Once(m_timers)' /\ TickleNotLost'
  BY DEF Construct, SetInv, LifeInv, TypeOK, Holds, Once, TickleNotLost
<1> QED
  BY <1>2, <1>3, <1>4, <1>5

LEMMA NotifyKeeps ==
  ASSUME TypeOK, TickleNotLost, NEW k \in Timers, NotifyFront(k), UNCHANGED pc
  PROVE  m_tickled' \in BOOLEAN /\ signal' \in BOOLEAN /\ TickleNotLost'
BY DEF TypeOK, TickleNotLost, NotifyFront

LEMMA AddTimerKeeps ==
  ASSUME TInv, NEW k \in Timers, AddTimer(k)
  PROVE  TInv'
<1> USE DEF TInv, UserFrame, Running
<1>1. ~Holds(m_timers, k) /\ m_timers \in Seq(Timers)
  BY DEF AddTimer, SetInv, TypeOK
<1>2. /\ m_timers' \in Seq(Timers) /\ Once(m_timers')
      /\ \A x : Holds(m_timers', x) <=> Holds(m_timers, x) \/ x = k
  BY <1>1, InsertedFacts DEF AddTimer
<1>3. m_tickled' \in BOOLEAN /\ signal' \in BOOLEAN /\ TickleNotLost'
  BY NotifyKeeps DEF AddTimer
<1>4. TypeOK'
  BY <1>2, <1>3 DEF AddTimer, TypeOK
<1>5. DeadlineInv' /\ ClockInv' /\ LifeInv'
  BY DEF AddTimer, DeadlineInv, ClockInv, LifeInv, TypeOK
<1>6. SetInv'
  BY <1>2 DEF AddTimer, SetInv, LifeInv, TypeOK
<1> QED
  BY <1>2, <1>3, <1>4, <1>5, <1>6

LEMMA CancelKeeps ==
  ASSUME TInv, NEW k \in Timers, Cancel(k)
  PROVE  TInv'
<1> USE DEF TInv, UserFrame, Running
<1>1. CASE MayFind(k) /\ m_timers' = Without(k) /\ fault' = fault
  <2>1. /\ m_timers' \in Seq(Timers) /\ Once(m_timers')
        /\ \A x : Holds(m_timers', x) <=> Holds(m_timers, x) /\ x # k
    BY <1>1, ErasedFacts
  <2>2. TypeOK'
    BY <1>1, <2>1 DEF Cancel, TypeOK
  <2>3. DeadlineInv' /\ ClockInv' /\ LifeInv' /\ TickleNotLost'
    BY DEF Cancel, DeadlineInv, ClockInv, LifeInv, TypeOK, TickleNotLost
  <2>4. SetInv'
    BY <2>1 DEF Cancel, SetInv, LifeInv, TypeOK
  <2> QED
    BY <2>1, <2>2, <2>3, <2>4
<1>2. CASE m_timers' = m_timers /\ fault' = "eraseEnd"
  <2>1. TypeOK'
    BY <1>2 DEF Cancel, TypeOK
  <2>2. DeadlineInv' /\ ClockInv' /\ LifeInv' /\ TickleNotLost'
    BY DEF Cancel, DeadlineInv, ClockInv, LifeInv, TypeOK, TickleNotLost
  <2>3. SetInv' /\ Once(m_timers)'
    BY <1>2 DEF SetInv, Once
  <2> QED
    BY <2>1, <2>2, <2>3
<1> QED
  BY <1>1, <1>2 DEF Cancel

\* refresh() and reset() take the timer out and put it back
LEMMA Repositioned ==
  ASSUME TInv, NEW k \in Timers, MayFind(k), NEW next, NEW r \in Inserted(Without(k), next, k)
  PROVE  /\ r \in Seq(Timers) /\ Once(r)
         /\ \A x : Holds(r, x) <=> Holds(m_timers, x)
<1>1. /\ Without(k) \in Seq(Timers) /\ Once(Without(k))
      /\ \A x : Holds(Without(k), x) <=> Holds(m_timers, x) /\ x # k
  BY ErasedFacts
<1>2. /\ r \in Seq(Timers) /\ Once(r)
      /\ \A x : Holds(r, x) <=> Holds(Without(k), x) \/ x = k
  BY <1>1, InsertedFacts
<1>3. Holds(m_timers, k)
  BY DEF MayFind, Range, TInv, TypeOK, Holds
<1> QED
  BY <1>1, <1>2, <1>3

LEMMA RefreshKeeps ==
  ASSUME TInv, NEW k \in Timers, Refresh(k)
  PROVE  TInv'
<1> USE DEF TInv, UserFrame, Running
<1>1. now \in Nat /\ m_ms[k] \in Nat
  BY TimerAssumption DEF TypeOK
<1>2. /\ m_timers' \in Seq(Timers) /\ Once(m_timers')
      /\ \A x : Holds(m_timers', x) <=> Holds(m_timers, x)
  BY Repositioned DEF Refresh
<1>3. TypeOK'
  BY <1>1, <1>2 DEF Refresh, TypeOK, Deadline
<1>4. DeadlineInv' /\ ClockInv' /\ LifeInv' /\ TickleNotLost'
  BY <1>1 DEF Refresh, DeadlineInv, ClockInv, LifeInv, TypeOK, TickleNotLost, Deadline
<1>5. SetInv'
  BY <1>2 DEF Refresh, SetInv
<1> QED
  BY <1>2, <1>3, <1>4, <1>5

LEMMA ResetKeeps ==
  ASSUME TInv, NEW k \in Timers, NEW ms \in Intervals, NEW b \in BOOLEAN, Reset(k, ms, b)
  PROVE  TInv'
<1> USE DEF TInv, UserFrame, Running
<1>1. /\ now \in Nat /\ ms \in Nat /\ m_ms[k] \in Nat /\ m_next[k] \in Nat
      /\ m_ms[k] <= m_next[k]
  BY TimerAssumption DEF TypeOK, DeadlineInv
<1>2. PICK d \in Nat : /\ d = Deadline(IF b THEN now ELSE m_next[k] - m_ms[k], ms)
                       /\ ms <= d
  BY <1>1 DEF Deadline
<1>3. m_next' = [m_next EXCEPT ![k] = d]
  BY <1>2 DEF Reset
<1>4. /\ m_timers' \in Seq(Timers) /\ Once(m_timers')
      /\ \A x : Holds(m_timers', x) <=> Holds(m_timers, x)
  BY Repositioned DEF Reset
<1>5. m_tickled' \in BOOLEAN /\ signal' \in BOOLEAN /\ TickleNotLost'
  BY NotifyKeeps DEF Reset
<1>6. TypeOK'
  BY <1>1, <1>3, <1>4, <1>5 DEF Reset, TypeOK
<1>7. DeadlineInv' /\ ClockInv' /\ LifeInv'
  BY <1>1, <1>2, <1>3 DEF Reset, DeadlineInv, ClockInv, LifeInv, TypeOK
<1>8. SetInv'
  BY <1>4 DEF Reset, SetInv
<1> QED
  BY <1>4, <1>5, <1>6, <1>7, <1>8

\* The steps of a poller up to the collection
LEMMA PollerKeeps ==
  ASSUME TInv, NEW p \in Pollers, GetNextTimer(p) \/ Wake(p) \/ ReadClock(p)
  PROVE  TInv'
<1> USE DEF TInv, PollerFrame, GetNextTimer, Wake, ReadClock
<1>1. TypeOK' /\ ClockInv'
  <2>1. /\ now' = now /\ now \in Int
        /\ now_ms' = now_ms \/ now_ms' = [now_ms EXCEPT ![p] = now]
        /\ UNCHANGED <<m_timers, m_next, m_ms, m_recurring, m_cb, life, handed, fault>>
    BY DEF TypeOK
  <2>2. /\ m_tickled' \in BOOLEAN /\ signal' \in BOOLEAN
        /\ pc' \in [Pollers -> {"loop", "wait", "awake", "collect"}]
    BY DEF TypeOK
  <2>3. now_ms' \in [Pollers -> 0 .. MaxTime] /\ \A q \in Pollers : now_ms'[q] <= now
    <3>1. now_ms \in [Pollers -> 0 .. MaxTime] /\ now \in 0 .. MaxTime /\ now <= now
      BY <2>1 DEF TypeOK
    <3>2. \A q \in Pollers : now_ms[q] <= now
      BY DEF ClockInv
    <3>3. now_ms' \in [Pollers -> 0 .. MaxTime]
      BY <2>1, <3>1
    <3>4. \A q \in Pollers : now_ms'[q] \in {now_ms[q], now}
      BY <2>1, <3>1
    <3> QED
      BY <3>1, <3>2, <3>3, <3>4
  <2> QED
    BY <2>1, <2>2, <2>3 DEF TypeOK, ClockInv
<1>2. DeadlineInv' /\ LifeInv' /\ SetInv' /\ Once(m_timers)'
  BY DEF DeadlineInv, LifeInv, SetInv, Once, Holds, Running
<1>3. TickleNotLost'
  BY DEF TickleNotLost, TypeOK
<1> QED
  BY <1>1, <1>2, <1>3

\* What a collection at time t takes, and what it leaves
Collected(t, i, expired, rest) ==
  /\ expired \in Seq(Timers) /\ rest \in Seq(Timers) /\ Len(expired) = i
  /\ Once(expired) /\ Once(rest)
  /\ \A x : Holds(m_timers, x) <=> Holds(expired, x) \/ Holds(rest, x)
  /\ \A x : ~(Holds(rest, x) /\ Holds(expired, x))
  /\ \A k \in Timers : k \in Range(expired) <=> Holds(expired, k)
  /\ \A k \in Timers : Holds(expired, k) =>
       m_next[k] = t /\ m_cb[k] /\ life[k] = "added"

\* The timers a collection takes: due, in the set, once
LEMMA ExpiredFacts ==
  ASSUME TInv, Running, NEW t, NEW i \in Expired(t),
         NEW expired, NEW rest,
         /\ expired = SubSeq(m_timers, 1, i)
         /\ rest = SubSeq(m_timers, i + 1, Len(m_timers))
  PROVE  Collected(t, i, expired, rest)
<1>1. m_timers \in Seq(Timers) /\ Once(m_timers) /\ i \in 0 .. Len(m_timers)
  BY DEF TInv, TypeOK, Expired
<1>2. /\ expired \in Seq(Timers) /\ rest \in Seq(Timers) /\ Once(expired) /\ Once(rest)
      /\ Len(expired) = i /\ \A n \in 1 .. i : expired[n] = m_timers[n]
      /\ \A x : Holds(m_timers, x) <=> Holds(expired, x) \/ Holds(rest, x)
      /\ \A x : ~(Holds(expired, x) /\ Holds(rest, x))
  <2>1. Halves(m_timers, i, Timers, expired, rest)
    BY <1>1, CutFacts
  <2> QED
    BY <2>1 DEF Halves
<1>3. \A k \in Timers : k \in Range(expired) <=> Holds(expired, k)
  <2>1. DOMAIN expired = 1 .. Len(expired)
    BY <1>2
  <2> QED
    BY <2>1 DEF Range, Holds
<1>4. ASSUME NEW k \in Timers, Holds(expired, k)
      PROVE  m_next[k] = t /\ m_cb[k] /\ life[k] = "added"
  <2>1. PICK n \in 1 .. i : m_timers[n] = k
    BY <1>2, <1>4 DEF Holds
  <2>2. m_next[k] = t
    BY <2>1 DEF Expired
  <2>3. Holds(m_timers, k)
    BY <1>2, <1>4
  <2>4. m_cb[k] /\ life[k] # "made"
    BY <2>3 DEF TInv, SetInv
  <2> QED
    BY <2>2, <2>4 DEF TInv, LifeInv, TypeOK
<1> QED
  BY <1>2, <1>3, <1>4 DEF Collected

LEMMA ListExpiredKeeps ==
  ASSUME TInv, NEW p \in Pollers, ListExpired(p)
  PROVE  TInv'
<1> USE DEF PollerFrame
<1>0. Running /\ TypeOK /\ Once(m_timers) /\ SetInv /\ LifeInv /\ DeadlineInv
  BY DEF TInv, ListExpired
<1>1. PICK i, expired, rest :
        /\ i \in Expired(now_ms[p])
        /\ expired = SubSeq(m_timers, 1, i)
        /\ rest = SubSeq(m_timers, i + 1, Len(m_timers))
        /\ handed' = [k \in Timers |->
                        IF k \in Range(expired) THEN handed[k] + 1 ELSE handed[k]]
        /\ m_next' = [k \in Timers |-> IF k \in Range(expired) /\ m_recurring[k]
                                         THEN Deadline(now_ms[p], m_ms[k]) ELSE m_next[k]]
        /\ m_cb' = [k \in Timers |-> IF k \in Range(expired)
                                       THEN m_cb[k] /\ KeepsCallback(k) ELSE m_cb[k]]
        /\ \E c \in PutBack(rest, m_next', expired) : m_timers' = c[i]
  BY DEF ListExpired
<1>2. /\ expired \in Seq(Timers) /\ rest \in Seq(Timers) /\ Len(expired) = i
      /\ Once(expired) /\ Once(rest)
      /\ \A x : Holds(m_timers, x) <=> Holds(expired, x) \/ Holds(rest, x)
      /\ \A x : ~(Holds(rest, x) /\ Holds(expired, x))
      /\ \A k \in Timers : k \in Range(expired) <=> Holds(expired, k)
      /\ \A k \in Timers : Holds(expired, k) =>
           m_next[k] = now_ms[p] /\ m_cb[k] /\ life[k] = "added"
  <2>1. Collected(now_ms[p], i, expired, rest)
    BY <1>0, <1>1, ExpiredFacts
  <2> QED
    BY <2>1 DEF Collected
<1>3. /\ m_timers' \in Seq(Timers) /\ Once(m_timers')
      /\ \A x : Holds(m_timers', x) <=> Holds(rest, x) \/ (Holds(expired, x) /\ m_recurring[x])
  <2>1. PICK next : next = m_next'
    OBVIOUS
  <2>2. PICK c \in PutBack(rest, next, expired) : m_timers' = c[i]
    BY <1>1, <2>1
  <2>3. /\ c[Len(expired)] \in Seq(Timers) /\ Once(c[Len(expired)])
        /\ \A x : Holds(c[Len(expired)], x) <=> Holds(rest, x) \/ (Holds(expired, x) /\ m_recurring[x])
    BY <1>0, <1>2, <2>2, PutBackFacts, Zenon
  <2> QED
    BY <1>2, <2>2, <2>3
<1>4. now_ms[p] \in Nat /\ \A k \in Timers : m_ms[k] \in Nat /\ handed[k] \in Nat
  BY <1>0, TimerAssumption DEF TypeOK
<1>5. /\ m_next' \in [Timers -> Nat] /\ handed' \in [Timers -> Nat]
      /\ \A k \in Timers : m_ms[k] <= m_next'[k]
  BY <1>0, <1>1, <1>4 DEF TypeOK, Deadline, DeadlineInv
<1>6. TypeOK' /\ DeadlineInv' /\ ClockInv'
  <2>1. m_cb' \in [Timers -> BOOLEAN]
    BY <1>0, <1>1 DEF TypeOK, KeepsCallback
  <2>2. pc' \in [Pollers -> {"loop", "wait", "awake", "collect"}]
    BY <1>0 DEF ListExpired, TypeOK
  <2>3. TypeOK'
    BY <1>0, <1>3, <1>5, <2>1, <2>2 DEF ListExpired, TypeOK
  <2>4. DeadlineInv'
    BY <1>5 DEF ListExpired, DeadlineInv
  <2>5. ClockInv'
    BY DEF TInv, ListExpired, ClockInv
  <2> QED
    BY <2>3, <2>4, <2>5
<1>7. \A k \in Timers :
        /\ ~Holds(expired, k) => m_cb'[k] = m_cb[k] /\ handed'[k] = handed[k]
        /\ Holds(expired, k) => m_cb'[k] = (m_cb[k] /\ m_recurring[k])
  BY <1>1, <1>2 DEF KeepsCallback
<1>8. UNCHANGED <<life, m_recurring, fault, m_tickled, signal>>
  BY DEF ListExpired
<1>9. LifeInv'
  <2> SUFFICES ASSUME NEW k \in Timers
               PROVE  /\ life[k] = "none" => ~m_cb'[k]
                      /\ life[k] = "made" => m_cb'[k]
                      /\ life[k] = "cancelled" => ~m_cb'[k]
                      /\ life[k] \in {"none", "made"} => handed'[k] = 0
                      /\ m_cb'[k] /\ ~m_recurring[k] => handed'[k] = 0
    BY <1>8 DEF LifeInv
  <2>1. CASE Holds(expired, k)
    BY <1>2, <1>7, <2>1
  <2>2. CASE ~Holds(expired, k)
    BY <1>0, <1>7, <2>2 DEF LifeInv
  <2> QED
    BY <2>1, <2>2
<1>10. SetInv'
  <2> SUFFICES ASSUME NEW k \in Timers
               PROVE  Holds(m_timers', k) <=> m_cb'[k] /\ life[k] # "made"
    BY <1>8 DEF SetInv, Holds
  <2>1. Holds(m_timers, k) <=> m_cb[k] /\ life[k] # "made"
    BY <1>0 DEF SetInv
  <2>2. CASE Holds(expired, k)
    BY <1>2, <1>3, <1>7, <2>2
  <2>3. CASE ~Holds(expired, k)
    BY <1>2, <1>3, <1>7, <2>1, <2>3
  <2> QED
    BY <2>2, <2>3
<1>11. TickleNotLost'
  BY <1>0, <1>8 DEF TInv, ListExpired, TickleNotLost, TypeOK
<1> QED
  BY <1>3, <1>6, <1>9, <1>10, <1>11 DEF TInv

LEMMA TickKeeps ==
  ASSUME TInv, Tick
  PROVE  TInv'
<1> USE DEF TInv, Tick
<1>1. now' \in 0 .. MaxTime /\ now <= now' /\ now \in Int
  BY TimerAssumption DEF TypeOK
<1>2. TypeOK'
  BY <1>1 DEF TypeOK
<1>3. ClockInv'
  BY <1>1, TimerAssumption DEF ClockInv, TypeOK
<1>4. DeadlineInv' /\ LifeInv' /\ SetInv' /\ Once(m_timers)' /\ TickleNotLost'
  BY DEF DeadlineInv, LifeInv, SetInv, Once, Holds, Running, TickleNotLost
<1> QED
  BY <1>2, <1>3, <1>4

LEMMA TimerInit == ASSUME Init PROVE TInv
<1> USE TimerAssumption DEF Init
<1>1. TypeOK
  <2>1. m_timers \in Seq(Timers) /\ now \in 0 .. MaxTime
    OBVIOUS
  <2>2. now_ms \in [Pollers -> 0 .. MaxTime]
    BY <2>1
  <2> QED
    BY <2>1, <2>2 DEF TypeOK
<1>2. DeadlineInv /\ ClockInv /\ LifeInv /\ TickleNotLost
  BY DEF DeadlineInv, ClockInv, LifeInv, TickleNotLost
<1>3. Len(m_timers) = 0 /\ 1 .. Len(m_timers) = {}
  OBVIOUS
<1>4. Once(m_timers) /\ SetInv
  BY <1>3 DEF Once, SetInv, Holds
<1> QED
  BY <1>1, <1>2, <1>4 DEF TInv

LEMMA TimerStep == ASSUME TInv, [Next]_vars PROVE TInv'
<1>1. CASE UNCHANGED vars
  BY <1>1 DEF vars, TInv, TypeOK, DeadlineInv, ClockInv, LifeInv, SetInv, Once, Holds,
              Running, TickleNotLost
<1>2. CASE Next
  BY <1>2, ConstructKeeps, AddTimerKeeps, CancelKeeps, RefreshKeeps, ResetKeeps, PollerKeeps,
     ListExpiredKeeps, TickKeeps DEF Next
<1> QED
  BY <1>1, <1>2

-----------------------------------------------------------------------------
(* The theorems.                                                            *)

\* The inductive invariant holds in every state of the timer manager.
THEOREM TimerInvariance == Spec => []TInv
  BY TimerInit, TimerStep, PTL DEF Spec

\* Every variable of the timer manager keeps its type: no deadline computed by
\* the constructor, refresh(), reset() or listExpiredCb() is negative.
THEOREM TimerTypeCorrect == Spec => []TypeOK
<1>1. TInv => TypeOK
  BY DEF TInv
<1> QED
  BY <1>1, TimerInvariance, PTL

\* Until a find() misses, the set holds every added timer that has a callback,
\* once, and no other, through cancel(), refresh(), reset() and the
\* re-insertions of listExpiredCb().
THEOREM SetAndCallbacksAgree == Spec => []SetMatchesCallbacks
<1>1. TInv => SetMatchesCallbacks
  BY OccursOnce DEF TInv, SetInv, SetMatchesCallbacks
<1> QED
  BY <1>1, TimerInvariance, PTL

\* While m_tickled suppresses onTimerInsertedAtFront(), a call of it is on its
\* way or a poller has yet to come to getNextTimer().
THEOREM NoTickleLost == Spec => []TickleNotLost
<1>1. TInv => TickleNotLost
  BY DEF TInv
<1> QED
  BY <1>1, TimerInvariance, PTL

\* A callback is handed out only when due, never after cancel(), and that of a
\* one-shot timer only once, whatever the pollers' clocks showed.
THEOREM CallbacksProper == Spec => HandedOutProperly
<1> DEFINE A == \A k \in Timers : handed'[k] > handed[k] =>
                  /\ m_next[k] <= now
                  /\ life[k] = "added"
                  /\ handed'[k] = 1 \/ m_recurring[k]
<1>1. ASSUME TInv, [Next]_vars PROVE A \/ UNCHANGED vars
  <2> SUFFICES ASSUME NEW k \in Timers, handed'[k] > handed[k]
               PROVE  /\ m_next[k] <= now
                      /\ life[k] = "added"
                      /\ handed'[k] = 1 \/ m_recurring[k]
    OBVIOUS
  <2>1. TypeOK /\ handed[k] \in Nat
    BY <1>1 DEF TInv, TypeOK
  <2>2. handed' # handed
    BY <2>1
  <2>3. PICK p \in Pollers : ListExpired(p)
    BY <1>1, <2>2 DEF Next, vars, UserFrame, Construct, Reset, AddTimer, Cancel, Refresh,
                      GetNextTimer, Wake, ReadClock, Tick
  <2>4. PICK i, expired, rest :
          /\ i \in Expired(now_ms[p])
          /\ expired = SubSeq(m_timers, 1, i)
          /\ rest = SubSeq(m_timers, i + 1, Len(m_timers))
          /\ handed' = [x \in Timers |->
                          IF x \in Range(expired) THEN handed[x] + 1 ELSE handed[x]]
    <3>1. PICK i \in Expired(now_ms[p]) :
            handed' = [x \in Timers |-> IF x \in Range(SubSeq(m_timers, 1, i))
                                          THEN handed[x] + 1 ELSE handed[x]]
      BY <2>3 DEF ListExpired
    <3> QED
      BY <3>1, Zenon
  <2>5. k \in Range(expired) /\ handed'[k] = handed[k] + 1
    BY <2>1, <2>4
  <2>6. m_next[k] = now_ms[p] /\ m_cb[k] /\ life[k] = "added"
    <3>1. Running
      BY <2>3 DEF ListExpired
    <3>2. Collected(now_ms[p], i, expired, rest)
      BY <1>1, <2>4, <3>1, ExpiredFacts
    <3> QED
      BY <2>5, <3>2 DEF Collected
  <2>7. m_next[k] <= now
    BY <1>1, <2>6 DEF TInv, ClockInv
  <2>8. handed[k] = 0 \/ m_recurring[k]
    BY <1>1, <2>6 DEF TInv, LifeInv
  <2> QED
    BY <2>5, <2>6, <2>7, <2>8
<1> QED
  BY <1>1, TimerInvariance, PTL DEF Spec, HandedOutProperly
=============================================================================
