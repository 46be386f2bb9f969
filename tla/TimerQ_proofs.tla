---------------------------- MODULE TimerQ_proofs ----------------------------
(***************************************************************************)
(* Theorems about the timer queue, for every set of bases and nodes: its   *)
(* lists, and then what its runs do for its users.                         *)
(***************************************************************************)
EXTENDS TimerQ, SequenceTheorems, FiniteSetTheorems, TLAPS

(* What the operations on linked lists return, for every sequence. *)

\* Linking at the head.
LEMMA ConsFacts ==
  ASSUME NEW S, NEW s \in Seq(S), NEW e \in S
  PROVE  /\ <<e>> \o s \in Seq(S)
         /\ Len(<<e>> \o s) = Len(s) + 1
         /\ \A j \in 1..(Len(s) + 1) : (<<e>> \o s)[j] = IF j = 1 THEN e ELSE s[j-1]
  OBVIOUS

\* Two sequences one after the other.
LEMMA JoinFacts ==
  ASSUME NEW S, NEW s \in Seq(S), NEW t \in Seq(S)
  PROVE  /\ s \o t \in Seq(S)
         /\ Len(s \o t) = Len(s) + Len(t)
         /\ \A j \in 1..(Len(s) + Len(t)) :
              (s \o t)[j] = IF j <= Len(s) THEN s[j] ELSE t[j - Len(s)]
  OBVIOUS

\* The elements from place a to place b.
LEMMA SliceFacts ==
  ASSUME NEW S, NEW s \in Seq(S), NEW a \in Nat, NEW b \in Nat,
         1 <= a, a <= b + 1, b <= Len(s)
  PROVE  /\ SubSeq(s, a, b) \in Seq(S)
         /\ Len(SubSeq(s, a, b)) = b - a + 1
         /\ \A j \in 1..(b - a + 1) : SubSeq(s, a, b)[j] = s[a + j - 1]
  OBVIOUS

\* InsertAt makes room for one element at a place of s or just after its end.
LEMMA InsertAtFacts ==
  ASSUME NEW S, NEW s \in Seq(S), NEW e \in S, NEW i \in 1..(Len(s) + 1)
  PROVE  /\ InsertAt(s, i, e) \in Seq(S)
         /\ Len(InsertAt(s, i, e)) = Len(s) + 1
         /\ \A j \in 1..(Len(s) + 1) :
              InsertAt(s, i, e)[j] = IF j < i THEN s[j] ELSE IF j = i THEN e ELSE s[j-1]
<1> DEFINE l == SubSeq(s, 1, i-1)
           r == SubSeq(s, i, Len(s))
           m == l \o <<e>>
<1>0. Len(s) \in Nat /\ i \in Nat /\ 1 <= i /\ i <= Len(s) + 1 /\ i - 1 \in Nat
  OBVIOUS
<1>1. l \in Seq(S) /\ Len(l) = i - 1 /\ \A j \in 1..(i-1) : l[j] = s[j]
  BY <1>0, SliceFacts
<1>2. /\ r \in Seq(S) /\ Len(r) = Len(s) - i + 1
      /\ \A j \in 1..(Len(s) - i + 1) : r[j] = s[i + j - 1]
  BY <1>0, SliceFacts
<1>3. InsertAt(s, i, e) = m \o r
  BY DEF InsertAt
<1> HIDE DEF l, r
<1>4. /\ m \in Seq(S) /\ Len(m) = i
      /\ \A j \in 1..i : m[j] = IF j < i THEN s[j] ELSE e
  BY <1>0, <1>1
<1> HIDE DEF m
<1>5. /\ m \o r \in Seq(S)
      /\ Len(m \o r) = Len(m) + Len(r)
      /\ \A j \in 1..(Len(m) + Len(r)) : (m \o r)[j] = IF j <= Len(m) THEN m[j] ELSE r[j - Len(m)]
  BY <1>2, <1>4, JoinFacts
<1>6. Len(m) + Len(r) = Len(s) + 1
  BY <1>0, <1>2, <1>4
<1>7. ASSUME NEW j \in 1..(Len(s) + 1)
      PROVE  (m \o r)[j] = IF j < i THEN s[j] ELSE IF j = i THEN e ELSE s[j-1]
  <2>0. j \in Nat /\ j >= 1 /\ j <= Len(s) + 1
    BY <1>0
  <2>1. CASE j <= i
    <3>1. (m \o r)[j] = m[j]
      BY <1>4, <1>5, <1>6, <2>0, <2>1
    <3>2. m[j] = IF j < i THEN s[j] ELSE e
      BY <1>4, <2>0, <2>1
    <3> QED BY <3>1, <3>2, <2>0, <2>1, <1>0
  <2>2. CASE j > i
    <3>1. (m \o r)[j] = r[j - i]
      BY <1>4, <1>5, <1>6, <2>0, <2>2, <1>0
    <3>2. j - i \in 1..(Len(s) - i + 1) /\ i + (j - i) - 1 = j - 1
      BY <2>0, <2>2, <1>0
    <3>3. r[j - i] = s[j - 1]
      BY <3>2, <1>2
    <3> QED BY <3>1, <3>3, <2>2, <2>0, <1>0
  <2>3. j <= i \/ j > i
    BY <2>0, <1>0
  <2> QED BY <2>1, <2>2, <2>3
<1> QED BY <1>3, <1>5, <1>6, <1>7

\* RemoveAt closes the gap.
LEMMA RemoveAtFacts ==
  ASSUME NEW S, NEW s \in Seq(S), NEW i \in 1..Len(s)
  PROVE  /\ RemoveAt(s, i) \in Seq(S)
         /\ Len(RemoveAt(s, i)) = Len(s) - 1
         /\ \A j \in 1..(Len(s) - 1) : RemoveAt(s, i)[j] = IF j < i THEN s[j] ELSE s[j+1]
<1> DEFINE l == SubSeq(s, 1, i-1)
           r == SubSeq(s, i+1, Len(s))
<1>0. Len(s) \in Nat /\ i \in Nat /\ 1 <= i /\ i <= Len(s) /\ i - 1 \in Nat /\ i + 1 \in Nat
  OBVIOUS
<1>1. l \in Seq(S) /\ Len(l) = i - 1 /\ \A j \in 1..(i-1) : l[j] = s[j]
  BY <1>0, SliceFacts
<1>2. /\ r \in Seq(S) /\ Len(r) = Len(s) - i
      /\ \A j \in 1..(Len(s) - i) : r[j] = s[i + j]
  <2>1. /\ r \in Seq(S) /\ Len(r) = Len(s) - (i + 1) + 1
        /\ \A j \in 1..(Len(s) - (i + 1) + 1) : r[j] = s[(i + 1) + j - 1]
    BY <1>0, SliceFacts
  <2>2. Len(s) - (i + 1) + 1 = Len(s) - i
    BY <1>0
  <2>3. ASSUME NEW j \in 1..(Len(s) - i) PROVE r[j] = s[i + j]
    <3>1. (i + 1) + j - 1 = i + j
      BY <1>0
    <3> QED BY <3>1, <2>1, <2>2
  <2> QED BY <2>1, <2>2, <2>3
<1>3. RemoveAt(s, i) = l \o r
  BY DEF RemoveAt
<1> HIDE DEF l, r
<1>4. /\ l \o r \in Seq(S)
      /\ Len(l \o r) = Len(s) - 1
      /\ \A j \in 1..(Len(s) - 1) : (l \o r)[j] = IF j <= i - 1 THEN l[j] ELSE r[j - (i - 1)]
  <2>1. /\ l \o r \in Seq(S)
        /\ Len(l \o r) = Len(l) + Len(r)
        /\ \A j \in 1..(Len(l) + Len(r)) : (l \o r)[j] = IF j <= Len(l) THEN l[j] ELSE r[j - Len(l)]
    BY <1>1, <1>2, JoinFacts
  <2>2. Len(l) = i - 1 /\ Len(l) + Len(r) = Len(s) - 1
    BY <1>0, <1>1, <1>2
  <2> QED BY <2>1, <2>2
<1>5. ASSUME NEW j \in 1..(Len(s) - 1)
      PROVE  (l \o r)[j] = IF j < i THEN s[j] ELSE s[j+1]
  <2>0. j \in Nat /\ j >= 1 /\ j <= Len(s) - 1
    BY <1>0
  <2>1. CASE j < i
    <3>1. (l \o r)[j] = l[j]
      BY <1>0, <1>4, <2>0, <2>1
    <3>2. l[j] = s[j]
      BY <1>0, <1>1, <2>0, <2>1
    <3> QED BY <3>1, <3>2, <2>1
  <2>2. CASE j >= i
    <3>0. j \in 1..(Len(s) - 1) /\ ~(j <= i - 1)
      BY <1>0, <2>0, <2>2
    <3>1. (l \o r)[j] = r[j - (i - 1)]
      BY <1>4, <3>0
    <3>2. j - (i - 1) \in 1..(Len(s) - i) /\ i + (j - (i - 1)) = j + 1
      BY <1>0, <2>0, <2>2
    <3>3. r[j - (i - 1)] = s[j + 1]
      BY <3>2, <1>2
    <3> QED BY <3>1, <3>3, <2>2, <2>0, <1>0
  <2>3. j < i \/ j >= i
    BY <2>0, <1>0
  <2> QED BY <2>1, <2>2, <2>3
<1> QED BY <1>3, <1>4, <1>5

-----------------------------------------------------------------------------
(* Lists that hold nothing twice, and lists in the order of a time stamp. *)

Distinct(s) == \A i, j \in DOMAIN s : s[i] = s[j] => i = j
InOrder(s, time) == \A i, j \in DOMAIN s : i < j => time[s[i]] <= time[s[j]]

\* What is at a place of a list is one of its elements.
LEMMA InToSet == \A S : \A s \in Seq(S) : \A i \in DOMAIN s : s[i] \in ToSet(s) /\ i \in 1..Len(s) /\ s[i] \in S
  BY DEF ToSet

LEMMA ConsDistinct ==
  ASSUME NEW S, NEW s \in Seq(S), NEW e \in S, Distinct(s), e \notin ToSet(s)
  PROVE  Distinct(<<e>> \o s) /\ ToSet(<<e>> \o s) = ToSet(s) \cup {e}
<1> DEFINE r == <<e>> \o s
<1>1. r \in Seq(S) /\ Len(r) = Len(s) + 1 /\ \A j \in 1..(Len(s) + 1) : r[j] = IF j = 1 THEN e ELSE s[j-1]
  BY ConsFacts
<1>2. Len(s) \in Nat /\ DOMAIN s = 1..Len(s) /\ DOMAIN r = 1..(Len(s) + 1)
  BY <1>1
<1> HIDE DEF r
<1>3. \A j \in DOMAIN s : s[j] # e
  BY DEF ToSet
<1>4. Distinct(r)
  <2> SUFFICES ASSUME NEW i \in DOMAIN r, NEW j \in DOMAIN r, r[i] = r[j] PROVE i = j
    BY DEF Distinct
  <2>0. \A m \in DOMAIN r : m # 1 => m - 1 \in DOMAIN s /\ r[m] = s[m-1] /\ r[m] # e
    BY <1>1, <1>2, <1>3
  <2>1. CASE i = 1 \/ j = 1
    <3>1. r[1] = e
      BY <1>1, <1>2
    <3> QED BY <2>0, <2>1, <3>1
  <2>2. CASE i # 1 /\ j # 1
    <3>1. i - 1 \in DOMAIN s /\ j - 1 \in DOMAIN s /\ s[i-1] = s[j-1]
      BY <1>1, <1>2, <2>2
    <3> QED BY <3>1, <1>2 DEF Distinct
  <2> QED BY <2>1, <2>2
<1>5. ToSet(r) = ToSet(s) \cup {e}
  <2>1. ToSet(r) \subseteq ToSet(s) \cup {e}
    <3> SUFFICES ASSUME NEW j \in DOMAIN r PROVE r[j] \in ToSet(s) \cup {e}
      BY DEF ToSet
    <3>1. r[j] = e \/ (j - 1 \in DOMAIN s /\ r[j] = s[j-1])
      BY <1>1, <1>2
    <3> QED BY <3>1 DEF ToSet
  <2>2. e \in ToSet(r)
    <3>1. 1 \in DOMAIN r /\ r[1] = e
      BY <1>1, <1>2
    <3> QED BY <3>1 DEF ToSet
  <2>3. ToSet(s) \subseteq ToSet(r)
    <3> SUFFICES ASSUME NEW j \in DOMAIN s PROVE s[j] \in ToSet(r)
      BY DEF ToSet
    <3>1. j + 1 \in DOMAIN r /\ r[j+1] = s[j]
      BY <1>1, <1>2
    <3> QED BY <3>1 DEF ToSet
  <2> QED BY <2>1, <2>2, <2>3
<1> QED BY <1>4, <1>5 DEF r

LEMMA RemoveDistinct ==
  ASSUME NEW S, NEW s \in Seq(S), NEW k \in 1..Len(s), Distinct(s)
  PROVE  /\ RemoveAt(s, k) \in Seq(S)
         /\ Distinct(RemoveAt(s, k)) /\ ToSet(RemoveAt(s, k)) = ToSet(s) \ {s[k]}
<1> DEFINE r == RemoveAt(s, k)
<1>1. r \in Seq(S) /\ Len(r) = Len(s) - 1 /\ \A j \in 1..(Len(s) - 1) : r[j] = IF j < k THEN s[j] ELSE s[j+1]
  BY RemoveAtFacts
<1>2. Len(s) \in Nat /\ DOMAIN s = 1..Len(s) /\ DOMAIN r = 1..(Len(s) - 1)
  BY <1>1
<1> HIDE DEF r
<1> DEFINE from(j) == IF j < k THEN j ELSE j + 1
<1>3. \A j \in DOMAIN r : from(j) \in DOMAIN s /\ from(j) # k /\ r[j] = s[from(j)]
  BY <1>1, <1>2
<1>4. Distinct(r)
  <2> SUFFICES ASSUME NEW i \in DOMAIN r, NEW j \in DOMAIN r, r[i] = r[j] PROVE i = j
    BY DEF Distinct
  <2>1. from(i) = from(j)
    BY <1>3 DEF Distinct
  <2> QED BY <1>2, <2>1
<1>5. ToSet(r) \subseteq ToSet(s) \ {s[k]}
  <2> SUFFICES ASSUME NEW j \in DOMAIN r PROVE r[j] \in ToSet(s) /\ r[j] # s[k]
    BY DEF ToSet
  <2> QED BY <1>2, <1>3 DEF ToSet, Distinct
<1>6. ToSet(s) \ {s[k]} \subseteq ToSet(r)
  <2> SUFFICES ASSUME NEW j \in DOMAIN s, j # k PROVE s[j] \in ToSet(r)
    BY DEF ToSet
  <2>1. CASE j < k
    <3>1. j \in DOMAIN r /\ r[j] = s[j]
      BY <1>1, <1>2, <2>1
    <3> QED BY <3>1 DEF ToSet
  <2>2. CASE j > k
    <3>1. j - 1 \in DOMAIN r /\ r[j-1] = s[j]
      BY <1>1, <1>2, <2>2
    <3> QED BY <3>1 DEF ToSet
  <2> QED BY <1>2, <2>1, <2>2
<1> QED BY <1>1, <1>4, <1>5, <1>6 DEF r

LEMMA RemoveInOrder ==
  ASSUME NEW S, NEW s \in Seq(S), NEW k \in 1..Len(s), NEW time, InOrder(s, time)
  PROVE  InOrder(RemoveAt(s, k), time)
<1> DEFINE r == RemoveAt(s, k)
<1>1. r \in Seq(S) /\ Len(r) = Len(s) - 1 /\ \A j \in 1..(Len(s) - 1) : r[j] = IF j < k THEN s[j] ELSE s[j+1]
  BY RemoveAtFacts
<1>2. Len(s) \in Nat /\ DOMAIN s = 1..Len(s) /\ DOMAIN r = 1..(Len(s) - 1)
  BY <1>1
<1> HIDE DEF r
<1> DEFINE from(j) == IF j < k THEN j ELSE j + 1
<1>3. \A j \in DOMAIN r : from(j) \in DOMAIN s /\ r[j] = s[from(j)]
  BY <1>1, <1>2
<1>4. \A i, j \in DOMAIN r : i < j => from(i) < from(j)
  BY <1>2
<1>5. InOrder(r, time)
  BY <1>3, <1>4 DEF InOrder
<1> QED BY <1>5 DEF r

LEMMA TailIsRemove ==
  ASSUME NEW S, NEW s \in Seq(S), s # <<>>
  PROVE  Tail(s) = RemoveAt(s, 1) /\ Head(s) = s[1] /\ 1 \in 1..Len(s)
<1>1. Len(s) \in Nat \ {0}
  OBVIOUS
<1>2. /\ RemoveAt(s, 1) \in Seq(S) /\ Len(RemoveAt(s, 1)) = Len(s) - 1
      /\ \A j \in 1..(Len(s) - 1) : RemoveAt(s, 1)[j] = IF j < 1 THEN s[j] ELSE s[j+1]
  BY <1>1, RemoveAtFacts
<1>3. Tail(s) \in Seq(S) /\ Len(Tail(s)) = Len(s) - 1 /\ \A j \in 1..(Len(s) - 1) : Tail(s)[j] = s[j+1]
  BY <1>1
<1>4. \A j \in 1..(Len(s) - 1) : Tail(s)[j] = RemoveAt(s, 1)[j]
  BY <1>1, <1>2, <1>3
<1> HIDE DEF RemoveAt
<1> QED BY <1>1, <1>2, <1>3, <1>4, SeqEqual

LEMMA InsertDistinct ==
  ASSUME NEW S, NEW s \in Seq(S), NEW e \in S, NEW k \in 1..(Len(s) + 1),
         Distinct(s), e \notin ToSet(s)
  PROVE  /\ InsertAt(s, k, e) \in Seq(S)
         /\ Distinct(InsertAt(s, k, e)) /\ ToSet(InsertAt(s, k, e)) = ToSet(s) \cup {e}
<1>0. /\ InsertAt(s, k, e) \in Seq(S) /\ Len(InsertAt(s, k, e)) = Len(s) + 1
      /\ \A j \in 1..(Len(s) + 1) :
           InsertAt(s, k, e)[j] = IF j < k THEN s[j] ELSE IF j = k THEN e ELSE s[j-1]
  BY ONLY InsertAtFacts, s \in Seq(S), e \in S, k \in 1..(Len(s) + 1)
<1> DEFINE r == InsertAt(s, k, e)
<1>1. /\ r \in Seq(S) /\ Len(r) = Len(s) + 1
      /\ \A j \in 1..(Len(s) + 1) : r[j] = IF j < k THEN s[j] ELSE IF j = k THEN e ELSE s[j-1]
  BY <1>0
<1>2. Len(s) \in Nat /\ DOMAIN s = 1..Len(s) /\ DOMAIN r = 1..(Len(s) + 1)
  BY <1>1
<1> HIDE DEF r
<1> DEFINE from(j) == IF j < k THEN j ELSE j - 1
<1>3. \A j \in DOMAIN r : j # k => from(j) \in DOMAIN s /\ r[j] = s[from(j)] /\ r[j] # e
  <2> SUFFICES ASSUME NEW j \in DOMAIN r, j # k
               PROVE  from(j) \in DOMAIN s /\ r[j] = s[from(j)] /\ r[j] # e
    OBVIOUS
  <2>1. from(j) \in DOMAIN s /\ r[j] = s[from(j)]
    BY <1>1, <1>2
  <2> QED BY <2>1 DEF ToSet
<1>4. r[k] = e /\ k \in DOMAIN r
  BY <1>1, <1>2
<1>5. Distinct(r)
  <2> SUFFICES ASSUME NEW i \in DOMAIN r, NEW j \in DOMAIN r, r[i] = r[j] PROVE i = j
    BY DEF Distinct
  <2>1. CASE i = k \/ j = k
    BY <1>3, <1>4, <2>1
  <2>2. CASE i # k /\ j # k
    <3>1. from(i) = from(j)
      BY <1>3, <2>2 DEF Distinct
    <3> QED BY <1>2, <2>2, <3>1
  <2> QED BY <2>1, <2>2
<1>6. ToSet(r) \subseteq ToSet(s) \cup {e}
  BY <1>3, <1>4 DEF ToSet
<1>7. ToSet(s) \subseteq ToSet(r)
  <2> SUFFICES ASSUME NEW j \in DOMAIN s PROVE s[j] \in ToSet(r)
    BY DEF ToSet
  <2>1. CASE j < k
    <3>1. j \in DOMAIN r /\ r[j] = s[j]
      BY <1>1, <1>2, <2>1
    <3> QED BY <3>1 DEF ToSet
  <2>2. CASE j >= k
    <3>1. j + 1 \in DOMAIN r /\ r[j+1] = s[j]
      BY <1>1, <1>2, <2>2
    <3> QED BY <3>1 DEF ToSet
  <2> QED BY <1>2, <2>1, <2>2
<1>8. e \in ToSet(r)
  BY <1>4 DEF ToSet
<1> QED BY <1>1, <1>5, <1>6, <1>7, <1>8 DEF r

-----------------------------------------------------------------------------

(***************************************************************************)
(* Types.  What makes TypeOK inductive is that the walk is at a base of    *)
(* the norm list while it works on one.                                    *)
(***************************************************************************)
AtBase == pc \in {"nodes", "func", "leave"} => pos <= Len(norm)
Typed == TypeOK /\ AtBase

\* The place a node is linked at is a place of the queue or just after its end.
LEMMA InsertPointsBound ==
  ASSUME NEW b \in Base, NEW s \in Seq(Node), NEW t \in Nat, NEW i \in InsertPoints(b, s, t)
  PROVE  i \in 1..(Len(s) + 1)
  BY DEF InsertPoints

\* Initially nothing is linked.
LEMMA InitTyped == ASSUME Init PROVE Typed
<1>1. <<>> \in Seq(Base) /\ <<>> \in Seq(Node)
  OBVIOUS
<1>2. q \in [Base -> Seq(Node)] /\ tv \in [Node -> Times]
  BY <1>1, BoundAssumption DEF Init, Times
<1>3. /\ norm \in Seq(Base) /\ empty \in Seq(Base)
      /\ quick \subseteq Node /\ quickBase \subseteq Base /\ called \subseteq Node
      /\ first \in Node \cup {NoNode} /\ cur \in Node \cup {NoNode}
  BY <1>1 DEF Init
<1>4. /\ walk \in 0..MaxWalk /\ clock \in Times /\ runTv \in Times /\ pos \in Nat \ {0}
      /\ kind \in {"norm", "all"} /\ pc = "idle"
  BY BoundAssumption DEF Init, Times
<1> QED BY <1>2, <1>3, <1>4 DEF Typed, TypeOK, AtBase

\* Deleting a base keeps the types of what it changes.
LEMMA DestroyTyped ==
  ASSUME TypeOK, NEW b \in Base, Destroy(b)
  PROVE  /\ q' \in [Base -> Seq(Node)] /\ first' \in Node \cup {NoNode}
         /\ quickBase' \subseteq Base
<1>1. <<>> \in Seq(Node)
  OBVIOUS
<1> QED BY <1>1 DEF Destroy, TypeOK

\* What the program calls keeps the types.
LEMMA ClientTyped == ASSUME Typed, Client PROVE Typed'
<1> USE BaseAssumption, NodeAssumption, BoundAssumption
<1> USE DEF Typed, TypeOK, AtBase, Times
<1>1. ASSUME NEW b \in Base, AddBase(b) PROVE Typed'
  <2>1. <<b>> \o norm \in Seq(Base) /\ <<b>> \o empty \in Seq(Base)
    OBVIOUS
  <2>2. norm' \in Seq(Base) /\ empty' \in Seq(Base)
    BY <1>1, <2>1 DEF AddBase
  <2> QED BY <1>1, <2>2 DEF AddBase, run
<1>2. ASSUME NEW b \in Base, NEW n \in Node, NEW t \in Times, AddNode(b, n, t) PROVE Typed'
  <2>1. PICK i \in InsertPoints(b, q[b], t) : q' = [q EXCEPT ![b] = InsertAt(@, i, n)]
    BY <1>2 DEF AddNode
  <2>2. i \in 1..(Len(q[b]) + 1)
    BY <2>1, InsertPointsBound
  <2>3. InsertAt(q[b], i, n) \in Seq(Node)
    BY <2>2, InsertAtFacts
  <2>4. q' \in [Base -> Seq(Node)]
    BY <2>1, <2>3
  <2>5. walk' \in 0..MaxWalk
    BY <1>2 DEF AddNode
  <2>6. tv' \in [Node -> Times] /\ quick' \subseteq Node
    BY <1>2 DEF AddNode
  <2>7. first' \in Node \cup {NoNode}
    BY <1>2 DEF AddNode
  <2> QED BY <1>2, <2>4, <2>5, <2>6, <2>7 DEF AddNode, run
<1>3. ASSUME NEW b \in Base, NEW i \in DOMAIN q[b], DelNode(b, i) PROVE Typed'
  <2>0. q[b] \in Seq(Node) /\ i \in 1..Len(q[b])
    OBVIOUS
  <2>1. RemoveAt(q[b], i) \in Seq(Node)
    BY <2>0, RemoveAtFacts
  <2>2. q' \in [Base -> Seq(Node)]
    BY <1>3, <2>1 DEF DelNode
  <2>3. first' \in Node \cup {NoNode}
    BY <1>3 DEF DelNode, Forget
  <2> QED BY <1>3, <2>2, <2>3 DEF DelNode, run
<1>4. ASSUME NEW b \in Base, NEW n \in Node, QuickDelNode(b, n) PROVE Typed'
  BY <1>4 DEF QuickDelNode, run
<1>5. ASSUME NEW b \in Base, QuickDelBase(b) PROVE Typed'
  BY <1>5 DEF QuickDelBase, run
<1>6. ASSUME NEW b \in Base, DelBase(b) PROVE Typed'
  <2>1. ASSUME NEW i \in DOMAIN norm PROVE RemoveAt(norm, i) \in Seq(Base)
    <3>1. i \in 1..Len(norm)
      OBVIOUS
    <3> QED BY <3>1, RemoveAtFacts
  <2>2. ASSUME NEW i \in DOMAIN empty PROVE RemoveAt(empty, i) \in Seq(Base)
    <3>1. i \in 1..Len(empty)
      OBVIOUS
    <3> QED BY <3>1, RemoveAtFacts
  <2>3. norm' \in Seq(Base) /\ empty' \in Seq(Base)
    BY <1>6, <2>1, <2>2 DEF DelBase
  <2>4. /\ q' \in [Base -> Seq(Node)] /\ first' \in Node \cup {NoNode}
        /\ quickBase' \subseteq Base
    BY <1>6, DestroyTyped DEF DelBase
  <2>5. pc' \in {"idle", "crashed"}
    BY <1>6 DEF DelBase
  <2> QED BY <1>6, <2>3, <2>4, <2>5 DEF DelBase
<1> QED BY <1>1, <1>2, <1>3, <1>4, <1>5, <1>6 DEF Client

\* A run keeps the types.
LEMMA RunTyped == ASSUME Typed, RunStep PROVE Typed'
<1> USE BaseAssumption, NodeAssumption, BoundAssumption
<1> USE DEF Typed, TypeOK, AtBase, Times
<1>1. CASE MoveBack
  <2>1. PICK i \in DOMAIN empty : /\ norm' = <<empty[i]>> \o norm
                                  /\ empty' = RemoveAt(empty, i)
    BY <1>1 DEF MoveBack
  <2>2. empty[i] \in Base
    OBVIOUS
  <2>3. norm' \in Seq(Base)
    BY <2>1, <2>2
  <2>4. empty' \in Seq(Base)
    BY <2>1, RemoveAtFacts
  <2>5. walk' \in 0..MaxWalk /\ pos' \in Nat \ {0}
    BY <1>1 DEF MoveBack
  <2> QED BY <1>1, <2>3, <2>4, <2>5 DEF MoveBack
<1>2. CASE StartScan
  BY <1>2 DEF StartScan, queues
<1>3. CASE CallAll
  <2>1. norm[pos] \in Base
    BY <1>3 DEF CallAll
  <2>2. Live(norm[pos]) \subseteq Node
    <3>1. q[norm[pos]] \in Seq(Node)
      BY <2>1
    <3> QED BY <3>1 DEF Live, ToSet
  <2> QED BY <1>3, <2>2 DEF CallAll, queues
<1>4. CASE EnterBase
  BY <1>4 DEF EnterBase, queues
<1>5. CASE Reap
  <2>1. norm[pos] \in Base
    BY <1>5 DEF Reap
  <2>2. q' \in [Base -> Seq(Node)]
    BY <1>5, <2>1 DEF Reap
  <2> QED BY <1>5, <2>2 DEF Reap, Forget, run
<1>6. CASE Fire
  <2>1. norm[pos] \in Base
    BY <1>6 DEF Fire
  <2>2. q' \in [Base -> Seq(Node)] /\ cur' \in Node
    BY <1>6, <2>1 DEF Fire
  <2> QED BY <1>6, <2>2 DEF Fire, Forget
<1>7. CASE CallbackReturn
  BY <1>7 DEF CallbackReturn, queues
<1>8. CASE EndNodes
  <2>1. norm[pos] \in Base
    BY <1>8 DEF EndNodes
  <2>2. first' \in Node \cup {NoNode}
    BY <1>8, <2>1 DEF EndNodes
  <2> QED BY <1>8, <2>2 DEF EndNodes, queues
<1>9. CASE LeaveBase
  <2>1. norm[pos] \in Base /\ pos \in DOMAIN norm
    BY <1>9 DEF LeaveBase
  <2>2. RemoveAt(norm, pos) \in Seq(Base) /\ <<norm[pos]>> \o empty \in Seq(Base)
    <3>1. pos \in 1..Len(norm)
      BY <2>1
    <3>2. RemoveAt(norm, pos) \in Seq(Base)
      BY <3>1, RemoveAtFacts
    <3> QED BY <3>2, <2>1
  <2>3. norm' \in Seq(Base) /\ empty' \in Seq(Base)
    BY <1>9, <2>2 DEF LeaveBase
  <2>5. pos' \in Nat \ {0}
    <3>1. pos' = pos \/ pos' = pos + 1
      BY <1>9 DEF LeaveBase
    <3> QED BY <3>1
  <2>4. /\ q' \in [Base -> Seq(Node)] /\ first' \in Node \cup {NoNode}
        /\ quickBase' \subseteq Base
    BY <1>9, <2>1, DestroyTyped DEF LeaveBase
  <2> QED BY <1>9, <2>3, <2>4, <2>5 DEF LeaveBase
<1>10. CASE RunEnd
  <2>1. /\ kind' \in {"norm", "all"} /\ runTv' \in Times /\ pos' \in Nat \ {0}
        /\ called' \subseteq Node /\ pc' = "idle"
    BY <1>10 DEF RunEnd
  <2> QED BY <1>10, <2>1 DEF RunEnd, queues
<1> QED BY <1>1, <1>2, <1>3, <1>4, <1>5, <1>6, <1>7, <1>8, <1>9, <1>10 DEF RunStep

\* Every step keeps the types.
LEMMA NextTyped == ASSUME Typed, [Next]_vars PROVE Typed'
<1> USE BaseAssumption, NodeAssumption, BoundAssumption
<1>1. CASE Client
  BY <1>1, ClientTyped
<1>2. CASE Tick
  BY <1>2 DEF Tick, queues, run, Typed, TypeOK, AtBase, Times
<1>3. ASSUME NEW t \in Times, Begin(t) PROVE Typed'
  BY <1>3 DEF Begin, queues, Typed, TypeOK, AtBase, Times
<1>4. clock \in Times /\ 0 \in Times
  BY DEF Typed, TypeOK, Times
<1>5. CASE RunAll
  BY <1>5 DEF RunAll, queues, Typed, TypeOK, AtBase, Times
<1>6. CASE RunStep
  BY <1>6, RunTyped
<1>7. CASE UNCHANGED vars
  BY <1>7 DEF vars, Typed, TypeOK, AtBase, Times
<1> QED BY <1>1, <1>2, <1>3, <1>4, <1>5, <1>6, <1>7 DEF Next, RunNorm, FirstTimeval

\* The library's state keeps its types, however call backs and the program use it.
THEOREM TypeCorrect == Spec => []Typed
<1>1. Init => Typed
  BY InitTyped
<1>2. Typed /\ [Next]_vars => Typed'
  BY NextTyped
<1> QED BY <1>1, <1>2, PTL DEF Spec

THEOREM TypeInvariance == Spec => []TypeOK
  BY TypeCorrect, PTL DEF Typed

-----------------------------------------------------------------------------
(* Where a node is linked. *)

\* The place a node is linked at is after what is earlier and before what is
\* later, from whichever end the code looks for it.
LEMMA InsertPointFits ==
  ASSUME TypeOK, NEW b \in Base, NEW s \in Seq(Node), NEW t \in Times,
         InOrder(s, tv), NEW k \in InsertPoints(b, s, t)
  PROVE  \A j \in DOMAIN s : (j < k => tv[s[j]] <= t) /\ (j >= k => t <= tv[s[j]])
<1> SUFFICES ASSUME NEW j \in DOMAIN s
             PROVE  (j < k => tv[s[j]] <= t) /\ (j >= k => t <= tv[s[j]])
  OBVIOUS
<1>1. Len(s) \in Nat /\ Len(s) >= 1 /\ j \in 1..Len(s) /\ DOMAIN s = 1..Len(s) /\ s # <<>>
  OBVIOUS
<1>2. t \in Nat /\ \A i \in DOMAIN s : tv[s[i]] \in Nat
  <2>1. tv \in [Node -> Nat] /\ t \in Nat
    BY BoundAssumption DEF TypeOK, Times
  <2>2. \A i \in DOMAIN s : s[i] \in Node
    OBVIOUS
  <2> QED BY <2>1, <2>2
<1>3. ASSUME NEW i \in DOMAIN s, NEW m \in DOMAIN s, i <= m PROVE tv[s[i]] <= tv[s[m]]
  <2>1. CASE i = m
    BY <1>2, <2>1
  <2>2. CASE i # m
    <3>1. i < m
      BY <1>1, <1>3, <2>2
    <3> QED BY <3>1 DEF InOrder
  <2> QED BY <2>1, <2>2
<1>4. CASE t >= tv[s[Len(s)]]
  <2>1. k = Len(s) + 1
    BY <1>1, <1>4 DEF InsertPoints
  <2> QED BY <1>1, <1>2, <1>3, <1>4, <2>1
<1>5. CASE t < tv[s[1]] /\ ~(t >= tv[s[Len(s)]])
  <2>1. k = 1
    BY <1>1, <1>5 DEF InsertPoints
  <2> QED BY <1>1, <1>2, <1>3, <1>5, <2>1
<1>6. CASE ~(t >= tv[s[Len(s)]]) /\ ~(t < tv[s[1]]) /\ b \in FromEnd
  <2>1. /\ k \in 2..Len(s) /\ tv[s[k-1]] <= t
        /\ \A i \in k..Len(s) : t < tv[s[i]]
    BY <1>1, <1>6 DEF InsertPoints
  <2>2. k - 1 \in DOMAIN s
    BY <1>1, <2>1
  <2>3. j < k => tv[s[j]] <= tv[s[k-1]]
    BY <1>1, <1>3, <2>1, <2>2
  <2> QED BY <1>1, <1>2, <2>1, <2>2, <2>3
<1>7. CASE ~(t >= tv[s[Len(s)]]) /\ ~(t < tv[s[1]]) /\ b \notin FromEnd
  <2>1. /\ k \in 2..Len(s) /\ t <= tv[s[k]]
        /\ \A i \in 2..(k-1) : tv[s[i]] < t
    BY <1>1, <1>7 DEF InsertPoints
  <2>2. j >= k => tv[s[k]] <= tv[s[j]]
    BY <1>1, <1>3, <2>1
  <2>3. tv[s[1]] <= t
    BY <1>1, <1>2, <1>7
  <2> QED BY <1>1, <1>2, <2>1, <2>2, <2>3
<1> QED BY <1>4, <1>5, <1>6, <1>7

LEMMA InsertInOrder ==
  ASSUME TypeOK, NEW b \in Base, NEW s \in Seq(Node), NEW t \in Times,
         NEW n \in Node, n \notin ToSet(s),
         InOrder(s, tv), NEW k \in InsertPoints(b, s, t)
  PROVE  InOrder(InsertAt(s, k, n), [tv EXCEPT ![n] = t])
<1> USE BoundAssumption DEF Times
<1> DEFINE r == InsertAt(s, k, n)
           time == [tv EXCEPT ![n] = t]
           from(j) == IF j < k THEN j ELSE j - 1
<1>0. k \in 1..(Len(s) + 1)
  BY InsertPointsBound DEF Times
<1>1. /\ r \in Seq(Node) /\ Len(r) = Len(s) + 1
      /\ \A j \in 1..(Len(s) + 1) : r[j] = IF j < k THEN s[j] ELSE IF j = k THEN n ELSE s[j-1]
  BY <1>0, InsertAtFacts
<1>2. Len(s) \in Nat /\ DOMAIN s = 1..Len(s) /\ DOMAIN r = 1..(Len(s) + 1)
  BY <1>1
<1> HIDE DEF r
<1>3. \A j \in DOMAIN s : s[j] # n /\ s[j] \in Node
  BY DEF ToSet
<1>4. \A j \in DOMAIN r : j # k => from(j) \in DOMAIN s /\ r[j] = s[from(j)]
  BY <1>0, <1>1, <1>2
<1>5. \A j \in DOMAIN s : time[s[j]] = tv[s[j]] /\ tv[s[j]] \in Nat
  BY <1>3 DEF TypeOK
<1>6. time[n] = t /\ r[k] = n
  BY <1>0, <1>1, <1>2 DEF TypeOK
<1> HIDE DEF time
<1>7. \A j \in DOMAIN s : (j < k => tv[s[j]] <= t) /\ (j >= k => t <= tv[s[j]])
  BY InsertPointFits
<1>8. InOrder(r, time)
  <2> SUFFICES ASSUME NEW i \in DOMAIN r, NEW j \in DOMAIN r, i < j PROVE time[r[i]] <= time[r[j]]
    BY DEF InOrder
  <2>1. CASE i = k
    <3>1. from(j) \in DOMAIN s /\ r[j] = s[from(j)] /\ from(j) >= k
      BY <1>0, <1>2, <1>4, <2>1
    <3> QED BY <1>5, <1>6, <1>7, <2>1, <3>1
  <2>2. CASE j = k
    <3>1. from(i) \in DOMAIN s /\ r[i] = s[from(i)] /\ from(i) < k
      BY <1>0, <1>2, <1>4, <2>2
    <3> QED BY <1>5, <1>6, <1>7, <2>2, <3>1
  <2>3. CASE i # k /\ j # k
    <3>1. from(i) < from(j)
      BY <1>0, <1>2, <2>3
    <3> QED BY <1>4, <1>5, <2>3, <3>1 DEF InOrder
  <2> QED BY <2>1, <2>2, <2>3
<1> QED BY <1>8 DEF r, time

-----------------------------------------------------------------------------
(* The lists of bases. *)

Lists == Distinct(norm) /\ Distinct(empty) /\ ToSet(norm) \cap ToSet(empty) = {}

\* A base goes from one list to the head of the other, or leaves it.
LEMMA ListsStep == ASSUME Typed, Lists, [Next]_vars PROVE Lists'
<1>1. CASE UNCHANGED <<norm, empty>>
  BY <1>1 DEF Lists, Distinct, ToSet
<1> USE DEF Typed, TypeOK, Lists
<1>2. ASSUME NEW b \in Base, AddBase(b) PROVE Lists'
  <2>1. b \notin ToSet(norm) /\ b \notin ToSet(empty)
    BY <1>2 DEF AddBase, Known
  <2>2. CASE norm' = <<b>> \o norm /\ empty' = empty
    <3>1. Distinct(<<b>> \o norm) /\ ToSet(<<b>> \o norm) = ToSet(norm) \cup {b}
      BY <2>1, ConsDistinct
    <3>2. Distinct(norm') /\ ToSet(norm') = ToSet(norm) \cup {b} /\ Distinct(empty') /\ ToSet(empty') = ToSet(empty)
      BY <2>2, <3>1
    <3> QED BY <2>1, <3>2
  <2>3. CASE empty' = <<b>> \o empty /\ norm' = norm
    <3>1. Distinct(<<b>> \o empty) /\ ToSet(<<b>> \o empty) = ToSet(empty) \cup {b}
      BY <2>1, ConsDistinct
    <3>2. Distinct(empty') /\ ToSet(empty') = ToSet(empty) \cup {b} /\ Distinct(norm') /\ ToSet(norm') = ToSet(norm)
      BY <2>3, <3>1
    <3> QED BY <2>1, <3>2
  <2> QED BY <1>2, <2>2, <2>3 DEF AddBase
<1>3. ASSUME NEW b \in Base, DelBase(b) PROVE Lists'
  <2>1. ASSUME NEW i \in DOMAIN empty, empty' = RemoveAt(empty, i), norm' = norm PROVE Lists'
    <3>1. Distinct(empty') /\ ToSet(empty') = ToSet(empty) \ {empty[i]}
      BY <2>1, RemoveDistinct, InToSet
    <3> QED BY <2>1, <3>1
  <2>2. ASSUME NEW i \in DOMAIN norm, norm' = RemoveAt(norm, i), empty' = empty PROVE Lists'
    <3>1. Distinct(norm') /\ ToSet(norm') = ToSet(norm) \ {norm[i]}
      BY <2>2, RemoveDistinct, InToSet
    <3> QED BY <2>2, <3>1
  <2> QED BY <1>1, <1>3, <2>1, <2>2 DEF DelBase
<1>4. CASE MoveBack
  <2>1. PICK i \in DOMAIN empty : norm' = <<empty[i]>> \o norm /\ empty' = RemoveAt(empty, i)
    BY <1>4 DEF MoveBack
  <2>2. empty[i] \in Base /\ empty[i] \in ToSet(empty) /\ i \in 1..Len(empty)
    BY InToSet
  <2>3. Distinct(empty') /\ ToSet(empty') = ToSet(empty) \ {empty[i]}
    BY <2>1, <2>2, RemoveDistinct
  <2>4. empty[i] \notin ToSet(norm)
    BY <2>2
  <2>5. Distinct(norm') /\ ToSet(norm') = ToSet(norm) \cup {empty[i]}
    BY <2>1, <2>2, <2>4, ConsDistinct
  <2> QED BY <2>2, <2>3, <2>5
<1>5. CASE LeaveBase
  <2>1. pos \in 1..Len(norm) /\ pos \in DOMAIN norm
    BY <1>5 DEF LeaveBase, AtBase
  <2>2. norm[pos] \in Base /\ norm[pos] \in ToSet(norm) /\ norm[pos] \notin ToSet(empty)
    BY <2>1, InToSet
  <2>3. /\ Distinct(RemoveAt(norm, pos))
        /\ ToSet(RemoveAt(norm, pos)) = ToSet(norm) \ {norm[pos]}
    BY <2>1, RemoveDistinct
  <2>4. Distinct(<<norm[pos]>> \o empty) /\ ToSet(<<norm[pos]>> \o empty) = ToSet(empty) \cup {norm[pos]}
    BY <2>2, ConsDistinct
  <2>5. CASE norm' = RemoveAt(norm, pos) /\ empty' = empty
    <3>1. ToSet(norm') = ToSet(norm) \ {norm[pos]} /\ Distinct(norm') /\ ToSet(empty') = ToSet(empty) /\ Distinct(empty')
      BY <2>3, <2>5
    <3> QED BY <3>1
  <2>6. CASE norm' = RemoveAt(norm, pos) /\ empty' = <<norm[pos]>> \o empty
    <3>1. ToSet(norm') = ToSet(norm) \ {norm[pos]} /\ Distinct(norm')
      BY <2>3, <2>6
    <3>2. ToSet(empty') = ToSet(empty) \cup {norm[pos]} /\ Distinct(empty')
      BY <2>4, <2>6
    <3> QED BY <3>1, <3>2
  <2> QED BY <1>1, <1>5, <2>5, <2>6 DEF LeaveBase
<1>6. CASE Tick \/ RunNorm \/ FirstTimeval \/ RunAll \/ RunStep
  <2>1. ~MoveBack /\ ~LeaveBase => UNCHANGED <<norm, empty>>
    BY <1>6 DEF Tick, RunNorm, FirstTimeval, Begin, RunAll, RunStep, StartScan, CallAll, EnterBase, Reap,
                Fire, CallbackReturn, EndNodes, RunEnd, queues
  <2> QED BY <1>1, <1>4, <1>5, <2>1
<1>7. CASE Client
  <2>1. CASE \E b \in Base, n \in Node, t \in Times : AddNode(b, n, t)
    BY <1>1, <2>1 DEF AddNode
  <2>2. CASE \E b \in Base : \E i \in DOMAIN q[b] : DelNode(b, i)
    BY <1>1, <2>2 DEF DelNode
  <2>3. CASE \E b \in Base, n \in Node : QuickDelNode(b, n)
    BY <1>1, <2>3 DEF QuickDelNode
  <2>4. CASE \E b \in Base : QuickDelBase(b)
    BY <1>1, <2>4 DEF QuickDelBase
  <2> QED BY <1>2, <1>3, <1>7, <2>1, <2>2, <2>3, <2>4 DEF Client
<1> QED BY <1>1, <1>6, <1>7 DEF Next, vars

-----------------------------------------------------------------------------
(* The queues of nodes. *)

Queues ==
  /\ \A b \in Base : Distinct(q[b]) /\ InOrder(q[b], tv)
  /\ \A b, c \in Base : b # c => ToSet(q[b]) \cap ToSet(q[c]) = {}

\* A queue gets shorter, and keeps its order.
LEMMA QueueShrinks ==
  ASSUME TypeOK, Queues, NEW b \in Base, NEW s \in Seq(Node),
         Distinct(s), InOrder(s, tv), ToSet(s) \subseteq ToSet(q[b]),
         q' = [q EXCEPT ![b] = s], tv' = tv
  PROVE  Queues'
<1>1. \A c \in Base : q'[c] = IF c = b THEN s ELSE q[c]
  BY DEF TypeOK
<1>2. \A c \in Base : Distinct(q'[c]) /\ InOrder(q'[c], tv')
  BY <1>1 DEF Queues
<1>3. \A c \in Base : ToSet(q'[c]) \subseteq ToSet(q[c])
  BY <1>1
<1> QED BY <1>2, <1>3 DEF Queues

LEMMA EmptyQueue == <<>> \in Seq(Node) /\ Distinct(<<>>) /\ InOrder(<<>>, tv) /\ ToSet(<<>>) = {}
  BY DEF Distinct, InOrder, ToSet

\* timer_q__add_node: the node was on no queue, so that its time stamp is
\* nobody's yet.
LEMMA AddNodeQueues ==
  ASSUME TypeOK, Queues, NEW b \in Base, NEW n \in Node, NEW t \in Times, AddNode(b, n, t)
  PROVE  Queues'
<1> USE DEF TypeOK
<1>1. PICK k \in InsertPoints(b, q[b], t) : q' = [q EXCEPT ![b] = InsertAt(@, k, n)]
  BY DEF AddNode
<1> DEFINE s == InsertAt(q[b], k, n)
<1>2. \A c \in Base : n \notin ToSet(q[c])
  BY DEF AddNode, Pending
<1>3. tv' = [tv EXCEPT ![n] = t]
  BY DEF AddNode
<1>4. q[b] \in Seq(Node) /\ Distinct(q[b]) /\ InOrder(q[b], tv)
  BY DEF Queues
<1>5. k \in 1..(Len(q[b]) + 1)
  BY <1>4, InsertPointsBound, BoundAssumption DEF Times
<1>6. Distinct(s) /\ ToSet(s) = ToSet(q[b]) \cup {n}
  BY <1>2, <1>4, <1>5, InsertDistinct
<1>7. InOrder(s, tv')
  BY <1>2, <1>3, <1>4, InsertInOrder
<1>8. \A c \in Base : q'[c] = IF c = b THEN s ELSE q[c]
  BY <1>1
<1> HIDE DEF s
<1>9. ASSUME NEW c \in Base, c # b PROVE Distinct(q'[c]) /\ InOrder(q'[c], tv')
  <2>1. q'[c] = q[c] /\ q[c] \in Seq(Node) /\ Distinct(q[c]) /\ InOrder(q[c], tv)
    BY <1>8, <1>9 DEF Queues
  <2>2. \A j \in DOMAIN q[c] : q[c][j] \in ToSet(q[c]) /\ q[c][j] \in Node
    BY <2>1, InToSet
  <2>3. \A j \in DOMAIN q[c] : tv'[q[c][j]] = tv[q[c][j]]
    BY <1>2, <1>3, <2>2
  <2> QED BY <2>1, <2>3 DEF InOrder
<1>10. \A c \in Base : ToSet(q'[c]) = IF c = b THEN ToSet(q[b]) \cup {n} ELSE ToSet(q[c])
  BY <1>6, <1>8
<1>11. ASSUME NEW c \in Base, NEW d \in Base, c # d PROVE ToSet(q'[c]) \cap ToSet(q'[d]) = {}
  BY <1>2, <1>10, <1>11 DEF Queues
<1>12. Distinct(q'[b]) /\ InOrder(q'[b], tv')
  BY <1>6, <1>7, <1>8
<1> QED BY <1>9, <1>11, <1>12 DEF Queues

LEMMA QueuesStep == ASSUME Typed, Queues, [Next]_vars PROVE Queues'
<1> USE DEF Typed, TypeOK
<1>1. CASE UNCHANGED <<q, tv>>
  <2>1. q' = q /\ tv' = tv
    BY <1>1
  <2> QED BY <2>1 DEF Queues
<1>2. ASSUME NEW b \in Base, Destroy(b), tv' = tv PROVE Queues'
  BY <1>2, EmptyQueue, QueueShrinks DEF Destroy
<1>3. ASSUME NEW b \in Base, q[b] # <<>>, q' = [q EXCEPT ![b] = Tail(@)], tv' = tv PROVE Queues'
  <2>1. q[b] \in Seq(Node) /\ Distinct(q[b]) /\ InOrder(q[b], tv)
    BY DEF Queues
  <2>2. Tail(q[b]) = RemoveAt(q[b], 1) /\ 1 \in 1..Len(q[b])
    BY <1>3, <2>1, TailIsRemove
  <2>3. /\ RemoveAt(q[b], 1) \in Seq(Node) /\ Distinct(RemoveAt(q[b], 1))
        /\ ToSet(RemoveAt(q[b], 1)) \subseteq ToSet(q[b])
    BY <2>1, <2>2, RemoveDistinct
  <2>4. InOrder(RemoveAt(q[b], 1), tv)
    BY <2>1, <2>2, RemoveInOrder
  <2>5. q' = [q EXCEPT ![b] = RemoveAt(q[b], 1)]
    BY <1>3, <2>2
  <2> QED BY <1>3, <2>3, <2>4, <2>5, QueueShrinks
<1>4. ASSUME NEW b \in Base, NEW i \in DOMAIN q[b], DelNode(b, i) PROVE Queues'
  <2>1. q[b] \in Seq(Node) /\ Distinct(q[b]) /\ InOrder(q[b], tv) /\ i \in 1..Len(q[b])
    BY DEF Queues
  <2>2. /\ RemoveAt(q[b], i) \in Seq(Node) /\ Distinct(RemoveAt(q[b], i))
        /\ ToSet(RemoveAt(q[b], i)) \subseteq ToSet(q[b])
    BY <2>1, RemoveDistinct
  <2>3. InOrder(RemoveAt(q[b], i), tv)
    BY <2>1, RemoveInOrder
  <2>4. q' = [q EXCEPT ![b] = RemoveAt(q[b], i)] /\ tv' = tv
    BY <1>4 DEF DelNode
  <2> QED BY <2>2, <2>3, <2>4, QueueShrinks
<1>5. ASSUME NEW b \in Base, DelBase(b) PROVE Queues'
  <2>1. CASE Destroy(b)
    BY <1>2, <1>5, <2>1 DEF DelBase
  <2>2. CASE q' = q
    BY <1>1, <1>5, <2>2 DEF DelBase
  <2> QED BY <1>5, <2>1, <2>2 DEF DelBase
<1>6. pc \in {"nodes", "leave"} => norm[pos] \in Base
  BY InToSet DEF AtBase
<1>7. CASE Reap \/ Fire
  BY <1>3, <1>6, <1>7 DEF Reap, Fire
<1>8. CASE LeaveBase
  <2>1. CASE Destroy(norm[pos])
    BY <1>2, <1>6, <1>8, <2>1 DEF LeaveBase
  <2>2. CASE q' = q
    BY <1>1, <1>8, <2>2 DEF LeaveBase
  <2> QED BY <1>8, <2>1, <2>2 DEF LeaveBase
<1>9. CASE Tick \/ RunNorm \/ FirstTimeval \/ RunAll \/ RunStep
  <2>1. ~Reap /\ ~Fire /\ ~LeaveBase => UNCHANGED <<q, tv>>
    BY <1>9 DEF Tick, RunNorm, FirstTimeval, Begin, RunAll, RunStep, MoveBack, StartScan, CallAll,
                EnterBase, CallbackReturn, EndNodes, RunEnd, queues
  <2> QED BY <1>1, <1>7, <1>8, <2>1
<1>10. CASE Client
  <2>1. ASSUME NEW b \in Base, NEW n \in Node, NEW t \in Times, AddNode(b, n, t) PROVE Queues'
    BY <2>1, AddNodeQueues
  <2>2. CASE \E b \in Base : AddBase(b)
    BY <1>1, <2>2 DEF AddBase
  <2>3. CASE \E b \in Base, n \in Node : QuickDelNode(b, n)
    BY <1>1, <2>3 DEF QuickDelNode
  <2>4. CASE \E b \in Base : QuickDelBase(b)
    BY <1>1, <2>4 DEF QuickDelBase
  <2> QED BY <1>4, <1>5, <1>10, <2>1, <2>2, <2>3, <2>4 DEF Client
<1> QED BY <1>1, <1>9, <1>10 DEF Next, vars

-----------------------------------------------------------------------------
LEMMA InitLists == Init => Lists /\ Queues
<1> SUFFICES ASSUME Init PROVE Lists /\ Queues
  OBVIOUS
<1>1. Lists
  BY EmptyQueue DEF Init, Lists, Distinct, ToSet
<1>2. \A b \in Base : q[b] = <<>>
  BY DEF Init
<1>3. Queues
  BY <1>2, EmptyQueue DEF Queues
<1> QED BY <1>1, <1>3

LEMMA ListsInvariance == Spec => [](Typed /\ Lists /\ Queues)
<1>1. Init => Typed /\ Lists /\ Queues
  BY InitTyped, InitLists
<1>2. Typed /\ Lists /\ Queues /\ [Next]_vars => (Typed /\ Lists /\ Queues)'
  BY NextTyped, ListsStep, QueuesStep
<1> QED BY <1>1, <1>2, PTL DEF Spec

\* Every queue is in the order of its time stamps, from whichever end its nodes
\* are linked, and whatever a call back adds or deletes while it is walked.
THEOREM QueuesAreSorted == Spec => []Sorted
<1>1. Queues => Sorted
  BY DEF Queues, Sorted, InOrder
<1> QED BY <1>1, ListsInvariance, PTL

\* A node is on one queue and a base on one list, each of them once.
THEOREM NothingIsLinkedTwice == Spec => []LinkedOnce
<1>1. ASSUME Typed, Lists, Queues PROVE LinkedOnce
  <2>1. ASSUME NEW b \in Base, NEW c \in Base, NEW i \in DOMAIN q[b], NEW j \in DOMAIN q[c],
               q[b][i] = q[c][j]
        PROVE  b = c /\ i = j
    <3>1. q[b][i] \in ToSet(q[b]) /\ q[c][j] \in ToSet(q[c])
      BY DEF ToSet
    <3>2. b = c
      BY <1>1, <2>1, <3>1 DEF Queues
    <3>3. Distinct(q[b])
      BY <1>1 DEF Queues
    <3> QED BY <2>1, <3>2, <3>3 DEF Distinct
  <2>2. /\ \A i, j \in DOMAIN norm : norm[i] = norm[j] => i = j
        /\ \A i, j \in DOMAIN empty : empty[i] = empty[j] => i = j
        /\ ToSet(norm) \cap ToSet(empty) = {}
    BY <1>1 DEF Lists, Distinct
  <2> QED BY <2>1, <2>2 DEF LinkedOnce
<1> QED BY <1>1, ListsInvariance, PTL

-----------------------------------------------------------------------------
(* The bases the next run has to look for on the empty list, for a program *)
(* that only has bases that move when they are empty.                      *)

Parked == {b \in ToSet(empty) : q[b] # <<>>}
Covered == IsFiniteSet(Parked) /\ Cardinality(Parked) <= walk

\* A step that parks no base with nodes, and gives none nodes, keeps the count.
LEMMA FewerParked ==
  ASSUME TypeOK, TypeOK', Covered, Parked' \subseteq Parked, walk' >= walk
  PROVE  Covered'
<1>1. IsFiniteSet(Parked') /\ Cardinality(Parked') <= Cardinality(Parked)
  BY FS_Subset DEF Covered
<1>2. Cardinality(Parked) \in Nat /\ Cardinality(Parked') \in Nat
  BY <1>1, FS_CardinalityType DEF Covered
<1>3. walk \in Nat /\ walk' \in Nat
  BY BoundAssumption DEF TypeOK
<1>4. Cardinality(Parked') <= walk'
  BY <1>1, <1>2, <1>3 DEF Covered
<1> QED BY <1>1, <1>4 DEF Covered

\* timer_q__add_node counts a base that gets its first node.
LEMMA AddNodeCovered ==
  ASSUME Base \subseteq MoveWhenEmpty, TypeOK, TypeOK', Covered,
         NEW b \in Base, NEW n \in Node, NEW t \in Times, AddNode(b, n, t)
  PROVE  Covered'
<1>1. empty' = empty /\ \A c \in Base \ {b} : q'[c] = q[c]
  BY DEF AddNode, TypeOK
<1>2. ToSet(empty) \subseteq Base
  BY InToSet DEF TypeOK, ToSet
<1>3. Parked' \subseteq Parked \cup {b}
  BY <1>1, <1>2 DEF Parked, ToSet
<1>4. walk \in Nat /\ walk' \in Nat
  BY BoundAssumption DEF TypeOK
<1>5. CASE q[b] = <<>>
  <2>1. walk' = walk + 1
    BY <1>5 DEF AddNode, Bumps
  <2>2. IsFiniteSet(Parked \cup {b}) /\ Cardinality(Parked) \in Nat
    BY FS_AddElement, FS_CardinalityType DEF Covered
  <2>3. Cardinality(Parked \cup {b}) <= Cardinality(Parked) + 1
    BY <2>2, FS_AddElement DEF Covered
  <2>4. IsFiniteSet(Parked') /\ Cardinality(Parked') <= Cardinality(Parked \cup {b})
    BY <1>3, <2>2, FS_Subset
  <2>5. Cardinality(Parked') \in Nat /\ Cardinality(Parked \cup {b}) \in Nat
    BY <2>2, <2>4, FS_CardinalityType
  <2>6. Cardinality(Parked') <= walk'
    BY <1>4, <2>1, <2>2, <2>3, <2>4, <2>5 DEF Covered
  <2> QED BY <2>4, <2>6 DEF Covered
<1>6. CASE q[b] # <<>>
  <2>1. walk' = walk
    BY <1>6 DEF AddNode, Bumps
  <2>2. Parked' \subseteq Parked
    BY <1>1, <1>2, <1>6 DEF Parked, ToSet
  <2> QED BY <1>4, <2>1, <2>2, FewerParked
<1> QED BY <1>5, <1>6

\* timer_q__get_empties moves one of the bases that were counted.
LEMMA MoveBackCovered ==
  ASSUME TypeOK, TypeOK', Lists, Covered, MoveBack
  PROVE  Covered'
<1>1. PICK i \in DOMAIN empty : q[empty[i]] # <<>> /\ empty' = RemoveAt(empty, i)
  BY DEF MoveBack
<1>2. ToSet(empty') = ToSet(empty) \ {empty[i]} /\ empty[i] \in ToSet(empty)
  BY <1>1, RemoveDistinct, InToSet DEF Lists, TypeOK
<1>3. q' = q /\ walk' = walk - 1 /\ walk \in Nat /\ walk' \in Nat
  BY BoundAssumption DEF MoveBack, TypeOK
<1>4. Parked' = Parked \ {empty[i]} /\ empty[i] \in Parked
  BY <1>1, <1>2, <1>3 DEF Parked
<1>5. IsFiniteSet(Parked') /\ Cardinality(Parked') = Cardinality(Parked) - 1
  BY <1>4, FS_RemoveElement DEF Covered
<1>6. Cardinality(Parked) \in Nat
  BY FS_CardinalityType DEF Covered
<1> QED BY <1>3, <1>5, <1>6 DEF Covered

\* A step that leaves walk and the empty list alone and links no node.
LEMMA QuietCovered ==
  ASSUME Typed, Typed', Covered, UNCHANGED <<empty, walk>>,
         \A b \in Base : q[b] = <<>> => q'[b] = <<>>
  PROVE  Covered'
<1>1. ToSet(empty) \subseteq Base /\ ToSet(empty') = ToSet(empty)
  BY InToSet DEF Typed, TypeOK, ToSet
<1>2. Parked' \subseteq Parked
  BY <1>1 DEF Parked
<1>3. walk' >= walk
  BY BoundAssumption DEF Typed, TypeOK
<1> QED BY <1>2, <1>3, FewerParked DEF Typed

LEMMA CoveredStep ==
  ASSUME Base \subseteq MoveWhenEmpty, Typed, Typed', Lists, Covered, [Next]_vars
  PROVE  Covered'
<1> USE DEF Typed, TypeOK
<1>1. CASE UNCHANGED <<empty, walk, q>>
  BY <1>1, QuietCovered
<1>2. ASSUME NEW b \in Base, DelBase(b) PROVE Covered'
  <2>1. \A c \in Base : q[c] = <<>> => q'[c] = <<>>
    BY <1>2 DEF DelBase, Destroy
  <2>2. ToSet(empty') \subseteq ToSet(empty)
    <3>1. ASSUME NEW i \in DOMAIN empty, empty' = RemoveAt(empty, i) PROVE ToSet(empty') \subseteq ToSet(empty)
      BY <3>1, RemoveDistinct, InToSet DEF Lists
    <3>2. CASE empty' = empty
      BY <3>2 DEF ToSet
    <3> QED BY <1>2, <3>1, <3>2 DEF DelBase
  <2>3. ToSet(empty) \subseteq Base
    BY InToSet DEF ToSet
  <2>4. Parked' \subseteq Parked
    BY <2>1, <2>2, <2>3 DEF Parked
  <2>5. walk' >= walk
    BY <1>2, BoundAssumption DEF DelBase
  <2> QED BY <2>4, <2>5, FewerParked
<1>3. ASSUME NEW b \in Base, NEW i \in DOMAIN q[b], DelNode(b, i) PROVE Covered'
  <2>1. \A c \in Base : q[c] = <<>> => q'[c] = <<>>
    BY <1>3 DEF DelNode
  <2> QED BY <1>3, <2>1, QuietCovered DEF DelNode
<1>4. pc \in {"nodes", "leave"} => norm[pos] \in Base
  BY InToSet DEF AtBase
<1>5. CASE Reap \/ Fire
  <2>1. \A c \in Base : q[c] = <<>> => q'[c] = <<>>
    BY <1>4, <1>5 DEF Reap, Fire
  <2> QED BY <1>5, <2>1, QuietCovered DEF Reap, Fire
<1>6. CASE StartScan
  <2>1. empty' = empty /\ q' = q /\ walk' = 0
    BY <1>6 DEF StartScan, queues
  <2>2. Parked' = Parked
    BY <2>1 DEF Parked, ToSet
  <2>3. Cardinality(Parked) \in Nat
    BY FS_CardinalityType DEF Covered
  <2>4. CASE walk = 0
    BY <2>1, <2>2, <2>3, <2>4 DEF Covered
  <2>5. CASE \A i \in DOMAIN empty : q[empty[i]] = <<>>
    <3>1. Parked = {}
      BY <2>5 DEF Parked, ToSet
    <3> QED BY <2>1, <2>2, <3>1, FS_EmptySet DEF Covered
  <2> QED BY <1>6, <2>4, <2>5 DEF StartScan
<1>7. CASE LeaveBase
  <2>1. norm[pos] \in Base /\ walk' = walk
    BY <1>4, <1>7 DEF LeaveBase
  <2>2. CASE empty' = empty
    <3>1. \A c \in Base : q[c] = <<>> => q'[c] = <<>>
      BY <1>7, <2>1 DEF LeaveBase, Destroy
    <3> QED BY <2>1, <2>2, <3>1, QuietCovered
  <2>3. CASE empty' = <<norm[pos]>> \o empty /\ q[norm[pos]] = <<>> /\ q' = q
    <3>1. norm[pos] \notin ToSet(empty)
      BY <1>7, InToSet DEF LeaveBase, AtBase, Lists
    <3>2. ToSet(empty') = ToSet(empty) \cup {norm[pos]}
      BY <2>1, <2>3, <3>1, ConsDistinct DEF Lists
    <3>3. Parked' \subseteq Parked
      BY <2>3, <3>2 DEF Parked
    <3>4. walk' >= walk
      BY <2>1, BoundAssumption
    <3> QED BY <3>3, <3>4, FewerParked
  <2> QED BY <1>7, <2>2, <2>3 DEF LeaveBase
<1>8. CASE Tick \/ RunNorm \/ FirstTimeval \/ RunAll \/ RunStep
  <2>1. ~MoveBack /\ ~StartScan /\ ~Reap /\ ~Fire /\ ~LeaveBase => UNCHANGED <<empty, walk, q>>
    BY <1>8 DEF Tick, RunNorm, FirstTimeval, Begin, RunAll, RunStep, CallAll,
                EnterBase, CallbackReturn, EndNodes, RunEnd, queues
  <2> QED BY <1>1, <1>5, <1>6, <1>7, <2>1, MoveBackCovered
<1>9. CASE Client
  <2>1. ASSUME NEW b \in Base, NEW n \in Node, NEW t \in Times, AddNode(b, n, t) PROVE Covered'
    BY <2>1, AddNodeCovered
  <2>2. ASSUME NEW b \in Base, AddBase(b) PROVE Covered'
    <3>1. CASE empty' = empty
      BY <1>1, <2>2, <3>1 DEF AddBase
    <3> QED BY <2>2, <3>1 DEF AddBase
  <2>3. CASE \E b \in Base, n \in Node : QuickDelNode(b, n)
    BY <1>1, <2>3 DEF QuickDelNode
  <2>4. CASE \E b \in Base : QuickDelBase(b)
    BY <1>1, <2>4 DEF QuickDelBase
  <2> QED BY <1>2, <1>3, <1>9, <2>1, <2>2, <2>3, <2>4 DEF Client
<1> QED BY <1>1, <1>8, <1>9 DEF Next, vars

\* timer_q_del_base looks at the empty list when a parked base has nodes.
LEMMA FindsBase ==
  ASSUME Base \subseteq MoveWhenEmpty, Typed, Covered, NEW b \in Base, DelBase(b)
  PROVE  pc' # "crashed"
<1>1. SUFFICES ASSUME ~Hint(b), b \notin ToSet(norm) PROVE FALSE
  BY DEF DelBase
<1>2. walk = 0 /\ q[b] # <<>>
  BY <1>1, BoundAssumption DEF Hint, Typed, TypeOK
<1>3. b \in ToSet(empty)
  BY <1>1 DEF DelBase, Known
<1>4. b \in Parked
  BY <1>2, <1>3 DEF Parked
<1>5. Cardinality(Parked) \in Nat /\ Cardinality(Parked) # 0
  BY <1>4, FS_CardinalityType, FS_EmptySet DEF Covered
<1> QED BY <1>2, <1>5 DEF Covered

LEMMA NoCrashStep ==
  ASSUME Base \subseteq MoveWhenEmpty, Typed, Covered, NoCrash, [Next]_vars
  PROVE  NoCrash'
<1>1. CASE \E b \in Base : DelBase(b)
  BY <1>1, FindsBase DEF NoCrash
<1>2. CASE Tick \/ RunNorm \/ FirstTimeval \/ RunAll \/ RunStep
  BY <1>2 DEF Tick, RunNorm, FirstTimeval, Begin, RunAll, RunStep, MoveBack, StartScan, CallAll, EnterBase,
              Reap, Fire, CallbackReturn, EndNodes, LeaveBase, RunEnd, run, NoCrash
<1>3. CASE Client /\ ~\E b \in Base : DelBase(b)
  BY <1>3 DEF Client, AddBase, QuickDelBase, AddNode, DelNode, QuickDelNode, run, NoCrash
<1>4. CASE UNCHANGED vars
  BY <1>4 DEF vars, NoCrash
<1> QED BY <1>1, <1>2, <1>3, <1>4 DEF Next

LEMMA CoveredInvariance ==
  ASSUME Base \subseteq MoveWhenEmpty
  PROVE  Spec => [](Typed /\ Lists /\ Covered /\ NoCrash)
<1>1. Init => Typed /\ Lists /\ Covered /\ NoCrash
  <2> SUFFICES ASSUME Init PROVE Typed /\ Lists /\ Covered /\ NoCrash
    OBVIOUS
  <2>1. Parked = {} /\ walk = 0
    BY DEF Init, Parked, ToSet
  <2>2. Covered
    BY <2>1, FS_EmptySet DEF Covered
  <2> QED BY <2>2, InitTyped, InitLists DEF Init, NoCrash
<1>2. Typed /\ Lists /\ Covered /\ NoCrash /\ [Next]_vars => (Typed /\ Lists /\ Covered /\ NoCrash)'
  BY NextTyped, ListsStep, CoveredStep, NoCrashStep
<1> QED BY <1>1, <1>2, PTL DEF Spec

\* timer_q__get_empties, which stops after walk bases, reaches every base of
\* the empty list that has got a node.
THEOREM NoBaseIsOverlooked ==
  ASSUME Base \subseteq MoveWhenEmpty
  PROVE  Spec => []WalkCoversParked
<1>1. Covered => WalkCoversParked
  BY DEF Covered, Parked, WalkCoversParked
<1> QED BY <1>1, CoveredInvariance, PTL

\* timer_q_del_base, which guesses the list a base is on, finds it.
THEOREM DeletionFindsTheBase ==
  ASSUME Base \subseteq MoveWhenEmpty
  PROVE  Spec => []NoCrash
  BY CoveredInvariance, PTL

-----------------------------------------------------------------------------
(* What the runs of the timer queue do for its users. *)

(***************************************************************************)
(* The cached time stamp.  While a run scans the norm list, first is the   *)
(* lowest of the nodes it has passed, or one that the call back has just   *)
(* added to the queue that is being walked.                                *)
(***************************************************************************)

\* Every base moves when it is empty, and a call back adds nodes to its own
\* base only, and deletes none.
Modest ==
  /\ Base \subseteq MoveWhenEmpty
  /\ \A b \in Base : Reach[b] \subseteq {b} /\ Deletes[b] = {}

Scanning == kind = "norm" /\ pc \in {"base", "nodes", "func", "leave"}

\* The bases of the norm list that the run is done with.
Past(i) == i < pos \/ (pc = "leave" /\ i = pos /\ norm[pos] \notin quickBase)
PastBases == {b \in Base : \E i \in DOMAIN norm : norm[i] = b /\ Past(i)}
PastNodes == UNION {ToSet(q[b]) : b \in PastBases}

\* Node n was added by a call back to the base it belongs to.
JustAdded(n) ==
  /\ pc \in {"nodes", "func"}
  /\ n \in ToSet(q[norm[pos]]) \ quick
  /\ tv[n] > runTv

Scan ==
  /\ \A b \in ToSet(empty) : q[b] = <<>>
  /\ Null(first) => PastNodes = {}
  /\ ~Null(first) => /\ JustAdded(first) \/ first \in PastNodes
                     /\ \A n \in PastNodes : tv[first] <= tv[n]

Lowest == ~Null(first) => first \in Pending /\ \A n \in Pending : tv[first] <= tv[n]

FirstInv ==
  /\ \A b \in Base \ Known : q[b] = <<>>
  /\ runTv <= clock
  /\ pc \in {"nodes", "func", "leave"} => kind = "norm"
  /\ pc \in {"nodes", "func"} => norm[pos] \notin quickBase
  /\ Scanning => Scan
  /\ ~Scanning /\ pc # "crashed" => Lowest


Shape == Typed /\ Lists /\ Queues /\ Covered

-----------------------------------------------------------------------------
LEMMA PendingFacts ==
  ASSUME TypeOK
  PROVE  /\ \A n : n \in Pending <=> \E b \in Base : n \in ToSet(q[b])
         /\ Pending \subseteq Node
         /\ \A b \in Base : ToSet(q[b]) \subseteq Node
<1>1. \A b \in Base : ToSet(q[b]) \subseteq Node
  BY InToSet DEF TypeOK, ToSet
<1> QED BY <1>1 DEF Pending

\* The base the run is at is on the norm list, and not among those it is done
\* with.
LEMMA AtCurrent ==
  ASSUME Shape, pc \in {"nodes", "func", "leave"}
  PROVE  /\ norm[pos] \in Base /\ pos \in DOMAIN norm
         /\ norm[pos] \in ToSet(norm) /\ norm[pos] \notin ToSet(empty)
         /\ norm[pos] \in PastBases <=> pc = "leave" /\ norm[pos] \notin quickBase
<1> USE DEF Shape, Typed, TypeOK
<1>1. pos \in DOMAIN norm
  BY DEF AtBase
<1>2. norm[pos] \in Base /\ norm[pos] \in ToSet(norm)
  BY <1>1, InToSet
<1>3. norm[pos] \notin ToSet(empty)
  BY <1>2 DEF Lists
<1>4. \A i \in DOMAIN norm : norm[i] = norm[pos] => i = pos
  BY <1>1 DEF Lists, Distinct
<1>5. norm[pos] \in PastBases <=> Past(pos)
  BY <1>1, <1>2, <1>4 DEF PastBases
<1>6. Past(pos) <=> pc = "leave" /\ norm[pos] \notin quickBase
  BY DEF Past
<1> QED BY <1>1, <1>2, <1>3, <1>5, <1>6

\* A node is on one queue.
LEMMA OneQueue ==
  ASSUME Queues, NEW b \in Base, NEW c \in Base, NEW n, n \in ToSet(q[b]), n \in ToSet(q[c])
  PROVE  b = c
  BY DEF Queues

LEMMA PastIn == ASSUME Shape PROVE /\ PastBases \subseteq ToSet(norm) /\ PastBases \subseteq Base
                                   /\ PastNodes \subseteq Pending
<1>1. PastBases \subseteq ToSet(norm)
  BY DEF PastBases, ToSet
<1> QED BY <1>1, PendingFacts DEF PastBases, PastNodes, Shape, Typed

\* What leaves the walk, the queues and what is in them alone.
LEMMA QuietScan ==
  ASSUME FirstInv, UNCHANGED <<norm, empty, q, tv, pc, kind, pos, runTv, quick, quickBase, first>>,
         runTv' <= clock'
  PROVE  FirstInv'
<1>1. /\ Pending' = Pending /\ Known' = Known /\ PastBases' = PastBases /\ PastNodes' = PastNodes
      /\ Scanning' = Scanning /\ ToSet(empty)' = ToSet(empty)
      /\ \A n : JustAdded(n)' <=> JustAdded(n)
  BY DEF Pending, Known, PastBases, PastNodes, Past, Scanning, ToSet, JustAdded
<1> QED BY <1>1 DEF FirstInv, Scan, Lowest, Null

\* A step of the program between two runs, or of a run that is not scanning.
LEMMA Apart ==
  ASSUME ~Scanning, ~Scanning', \A b \in (Base \ Known)' : q'[b] = <<>>, runTv' <= clock',
         pc' \notin {"nodes", "func", "leave"}, pc' # "crashed" => Lowest'
  PROVE  FirstInv'
  BY DEF FirstInv

LEMMA ApartSame ==
  ASSUME FirstInv, ~Scanning, ~Scanning', pc # "crashed", UNCHANGED <<q, tv, first>>, Known' = Known,
         runTv' <= clock', pc' \notin {"nodes", "func", "leave"}
  PROVE  FirstInv'
<1>1. Pending' = Pending
  BY DEF Pending, ToSet
<1>2. Lowest'
  BY <1>1 DEF FirstInv, Lowest, Null
<1>3. \A b \in (Base \ Known)' : q'[b] = <<>>
  BY DEF FirstInv
<1> QED BY <1>2, <1>3, Apart

-----------------------------------------------------------------------------
(* What the program calls. *)

LEMMA AddNodeQueue ==
  ASSUME TypeOK, Queues, NEW b \in Base, NEW n \in Node, NEW t \in Times, AddNode(b, n, t)
  PROVE  /\ ToSet(q'[b]) = ToSet(q[b]) \cup {n}
         /\ \A c \in Base \ {b} : q'[c] = q[c]
         /\ \A c \in Base : n \notin ToSet(q[c])
<1>1. PICK i \in InsertPoints(b, q[b], t) : q' = [q EXCEPT ![b] = InsertAt(@, i, n)]
  BY DEF AddNode
<1>2. q[b] \in Seq(Node) /\ Distinct(q[b]) /\ n \notin ToSet(q[b]) /\ t \in Nat
  BY PendingFacts, BoundAssumption DEF TypeOK, Queues, AddNode, Times
<1>3. i \in 1..(Len(q[b]) + 1)
  BY <1>1, <1>2, InsertPointsBound
<1>4. ToSet(InsertAt(q[b], i, n)) = ToSet(q[b]) \cup {n}
  BY <1>2, <1>3, InsertDistinct
<1>5. q'[b] = InsertAt(q[b], i, n) /\ \A c \in Base \ {b} : q'[c] = q[c]
  BY <1>1 DEF TypeOK
<1>6. \A c \in Base : n \notin ToSet(q[c])
  BY PendingFacts DEF AddNode
<1> QED BY <1>4, <1>5, <1>6

LEMMA AddNodeFirst ==
  ASSUME Modest, Shape, TypeOK', FirstInv, NEW b \in Base, NEW n \in Node, NEW t \in Times, AddNode(b, n, t)
  PROVE  FirstInv'
<1> USE DEF Shape, Typed
<1>1. /\ ToSet(q'[b]) = ToSet(q[b]) \cup {n}
      /\ \A c \in Base \ {b} : q'[c] = q[c]
      /\ \A c \in Base : n \notin ToSet(q[c])
  BY AddNodeQueue
<1>2. /\ UNCHANGED <<norm, empty, quickBase, clock, pc, kind, runTv, pos>>
      /\ t > clock /\ b \in Known /\ quick' = quick \ {n}
      /\ first' = IF ~Null(first) /\ tv[first] > t THEN n ELSE first
      /\ tv' = [tv EXCEPT ![n] = t]
  BY DEF AddNode, run
<1>3. tv'[n] = t /\ \A m \in Node \ {n} : tv'[m] = tv[m]
  BY <1>2 DEF TypeOK
<1>4. t \in Nat /\ clock \in Nat /\ runTv \in Nat /\ \A m \in Node : tv[m] \in Nat
  BY BoundAssumption DEF TypeOK, Times
<1>5. Known' = Known /\ ToSet(empty') = ToSet(empty)
  BY <1>2 DEF Known, ToSet
<1>6. \A c \in (Base \ Known)' : q'[c] = <<>>
  BY <1>1, <1>2, <1>5 DEF FirstInv
<1>7. n # NoNode
  BY NodeAssumption
<1>8. CASE pc = "idle"
  <2>1. ~Scanning /\ ~Scanning'
    BY <1>2, <1>8 DEF Scanning
  <2>2. Lowest
    BY <1>8, <2>1 DEF FirstInv
  <2>3. \A m : m \in Pending' <=> m \in Pending \/ m = n
    BY <1>1 DEF Pending
  <2>4. n \notin Pending /\ Pending \subseteq Node
    BY <1>1, PendingFacts
  <2>5. Lowest'
    BY <1>2, <1>3, <1>4, <1>7, <2>2, <2>3, <2>4 DEF Lowest, Null
  <2> QED BY <1>2, <1>6, <1>8, <2>1, <2>5, Apart DEF FirstInv
<1>9. CASE pc = "func" /\ b = norm[pos]
  <2>1. Scanning /\ Scanning' /\ Scan
    BY <1>2, <1>9 DEF Scanning, FirstInv
  <2>2. b \notin PastBases /\ b \notin ToSet(empty)
    BY <1>9, AtCurrent
  <2>3. PastBases' = PastBases
    BY <1>2 DEF PastBases, Past
  <2>4. PastNodes' = PastNodes /\ n \notin PastNodes /\ PastNodes \subseteq Node
    BY <1>1, <2>2, <2>3, PendingFacts DEF PastNodes, PastBases
  <2>5. \A m \in ToSet(q[b]) : m # n /\ m \in Node
    BY <1>1, PendingFacts
  <2>6. \A m \in Node : JustAdded(m) => JustAdded(m)' /\ m # n
    BY <1>1, <1>2, <1>3, <1>9, <2>5 DEF JustAdded
  <2>7. JustAdded(n)'
    BY <1>1, <1>2, <1>3, <1>4, <1>9 DEF JustAdded, FirstInv
  <2>8. first \in Node \cup {NoNode}
    BY DEF TypeOK
  <2>9. \A c \in ToSet(empty') : q'[c] = <<>>
    <3>1. ToSet(empty) \subseteq Base
      BY InToSet DEF TypeOK, ToSet
    <3> QED BY <1>1, <1>5, <2>1, <2>2, <3>1 DEF Scan
  <2>11. CASE ~Null(first) /\ tv[first] > t
    <3>1. first' = n
      BY <1>2, <2>11
    <3>2. \A m \in PastNodes' : tv'[first'] <= tv'[m]
      BY <1>3, <1>4, <2>1, <2>4, <2>8, <2>11, <3>1 DEF Scan, Null
    <3>3. Scan'
      BY <1>7, <2>7, <2>9, <3>1, <3>2 DEF Scan, Null
    <3> QED BY <1>2, <1>6, <1>9, <2>1, <3>3 DEF FirstInv
  <2>12. CASE ~Null(first) /\ ~(tv[first] > t)
    <3>1. first' = first /\ first \in Node
      BY <1>2, <2>8, <2>12 DEF Null
    <3>2. first # n
      BY <2>1, <2>4, <2>6, <2>12, <3>1 DEF Scan
    <3>3. \A m \in PastNodes' : tv'[first'] <= tv'[m]
      BY <1>3, <2>1, <2>4, <2>12, <3>1, <3>2 DEF Scan
    <3>4. JustAdded(first)' \/ first' \in PastNodes'
      BY <2>1, <2>4, <2>6, <2>12, <3>1 DEF Scan
    <3>5. Scan'
      BY <2>9, <2>12, <3>1, <3>3, <3>4 DEF Scan, Null, JustAdded
    <3> QED BY <1>2, <1>6, <1>9, <2>1, <3>5 DEF FirstInv
  <2>13. CASE Null(first)
    <3>1. Scan'
      BY <1>2, <2>1, <2>4, <2>9, <2>13 DEF Scan, Null
    <3> QED BY <1>2, <1>6, <1>9, <2>1, <3>1 DEF FirstInv
  <2> QED BY <2>11, <2>12, <2>13
<1> QED BY <1>8, <1>9, AtCurrent DEF AddNode, MayTouch, Modest

\* A step between two runs that unlinks nodes, forgets the first time stamp if
\* it was one of theirs, and leaves the time stamps of the others.
LEMMA Unlinked ==
  ASSUME TypeOK, FirstInv, pc = "idle", pc' = "idle", UNCHANGED <<tv, kind, runTv, clock>>,
         \A b \in Base : ToSet(q'[b]) \subseteq ToSet(q[b]),
         first' = first \/ first' = NoNode,
         first' = first /\ first \in Pending => first \in Pending',
         \A b \in (Base \ Known)' : q'[b] = <<>>
  PROVE  FirstInv'
<1>1. ~Scanning /\ ~Scanning' /\ Lowest
  BY DEF Scanning, FirstInv
<1>2. Pending' \subseteq Pending
  BY DEF Pending
<1>3. Lowest'
  BY <1>1, <1>2 DEF Lowest, Null
<1> QED BY <1>1, <1>3, Apart DEF FirstInv

LEMMA DeletesApart ==
  ASSUME Modest, Shape, NEW b \in Base, MayTouch(b, Deletes)
  PROVE  pc = "idle"
  BY AtCurrent DEF MayTouch, Modest

LEMMA DelNodeFirst ==
  ASSUME Modest, Shape, FirstInv, NEW b \in Base, NEW i \in DOMAIN q[b], DelNode(b, i)
  PROVE  FirstInv'
<1> USE DEF Shape, Typed
<1> DEFINE n == q[b][i]
<1>1. pc = "idle" /\ UNCHANGED <<norm, empty, tv, clock, pc, kind, runTv>>
  BY DeletesApart DEF DelNode, run
<1>2. q[b] \in Seq(Node) /\ i \in 1..Len(q[b]) /\ Distinct(q[b])
  BY DEF TypeOK, Queues
<1>3. ToSet(RemoveAt(q[b], i)) = ToSet(q[b]) \ {n}
  BY <1>2, RemoveDistinct
<1>4. ToSet(q'[b]) = ToSet(q[b]) \ {n} /\ \A c \in Base \ {b} : q'[c] = q[c]
  BY <1>3 DEF DelNode, TypeOK
<1>5. n \in ToSet(q[b])
  BY <1>2, InToSet
<1>6. first' = IF first = n THEN NoNode ELSE first
  BY DEF DelNode, Forget
<1>7. \A c \in Base : ToSet(q'[c]) \subseteq ToSet(q[c]) /\ \A m \in ToSet(q[c]) : m # n => m \in ToSet(q'[c])
  BY <1>4
<1>8. n \in Node
  BY <1>2
<1> HIDE DEF n
<1>9. first' = first /\ first \in Pending => first \in Pending'
  <2> SUFFICES ASSUME first' = first, first \in Pending PROVE first \in Pending'
    OBVIOUS
  <2>1. first # n \/ first = NoNode
    BY <1>6
  <2>2. first # n
    BY <1>8, <2>1, NodeAssumption
  <2> QED BY <1>7, <2>2 DEF Pending
<1>10. \A c \in (Base \ Known)' : q'[c] = <<>>
  <2>1. Known' = Known
    BY <1>1 DEF Known, ToSet
  <2>2. \A c \in Base \ Known : q[c] = <<>>
    BY DEF FirstInv
  <2>3. b \in Known
    BY <2>2, <1>2
  <2> QED BY <1>4, <2>1, <2>2, <2>3
<1> QED BY <1>1, <1>6, <1>7, <1>9, <1>10, Unlinked

LEMMA DelBaseFirst ==
  ASSUME Modest, Shape, Shape', FirstInv, NEW b \in Base, DelBase(b)
  PROVE  FirstInv'
<1> USE DEF Shape, Typed
<1>1. pc = "idle" /\ UNCHANGED <<tv, clock, kind, runTv>>
  BY DEF DelBase
<1>2. CASE pc' = "crashed"
  <2>1. UNCHANGED <<norm, empty, q>>
    BY <1>1, <1>2 DEF DelBase
  <2>2. Known' = Known
    BY <2>1 DEF Known, ToSet
  <2>3. ~Scanning /\ ~Scanning'
    BY <1>1, <1>2 DEF Scanning
  <2> QED BY <1>1, <1>2, <2>1, <2>2, <2>3, Apart DEF FirstInv
<1>3. CASE pc' = "idle"
  <2>1. Destroy(b)
    BY <1>3 DEF DelBase
  <2>2. q'[b] = <<>> /\ \A c \in Base \ {b} : q'[c] = q[c]
    BY <2>1 DEF Destroy, TypeOK
  <2>3. ToSet(<<>>) = {}
    BY DEF ToSet
  <2>4. \A c \in Base : ToSet(q'[c]) \subseteq ToSet(q[c])
    BY <2>2, <2>3
  <2>5. first' = IF first \in ToSet(q[b]) THEN NoNode ELSE first
    BY <2>1 DEF Destroy
  <2>6. first' = first /\ first \in Pending => first \in Pending'
    <3> SUFFICES ASSUME first' = first, first \in Pending PROVE first \in Pending'
      OBVIOUS
    <3>1. first \in Node
      BY PendingFacts
    <3>2. first \notin ToSet(q[b])
      BY <2>5, <3>1, NodeAssumption
    <3> QED BY <2>2, <3>2 DEF Pending
  <2>7. Known \ {b} \subseteq Known'
    <3>1. ASSUME NEW i \in DOMAIN empty, empty[i] = b, empty' = RemoveAt(empty, i), norm' = norm
          PROVE  Known \ {b} \subseteq Known'
      <4>1. ToSet(empty') = ToSet(empty) \ {b} /\ ToSet(norm') = ToSet(norm)
        BY <3>1, RemoveDistinct, InToSet DEF Lists, TypeOK
      <4> QED BY <4>1 DEF Known
    <3>2. ASSUME NEW i \in DOMAIN norm, norm[i] = b, norm' = RemoveAt(norm, i), empty' = empty
          PROVE  Known \ {b} \subseteq Known'
      <4>1. ToSet(norm') = ToSet(norm) \ {b} /\ ToSet(empty') = ToSet(empty)
        BY <3>2, RemoveDistinct, InToSet DEF Lists, TypeOK
      <4> QED BY <4>1 DEF Known
    <3> QED BY <1>3, <3>1, <3>2 DEF DelBase
  <2>8. \A c \in (Base \ Known)' : q'[c] = <<>>
    BY <2>2, <2>7 DEF FirstInv
  <2> QED BY <1>1, <1>3, <2>4, <2>5, <2>6, <2>8, Unlinked
<1> QED BY <1>1, <1>2, <1>3 DEF DelBase

LEMMA ClientFirst ==
  ASSUME Modest, Shape, Shape', FirstInv, Client
  PROVE  FirstInv'
<1>1. ASSUME NEW b \in Base, NEW n \in Node, NEW t \in Times, AddNode(b, n, t) PROVE FirstInv'
  BY <1>1, AddNodeFirst DEF Shape, Typed
<1>2. ASSUME NEW b \in Base, AddBase(b) PROVE FirstInv'
  <2>1. pc = "idle" /\ UNCHANGED <<q, tv, first, clock, pc, kind, runTv>>
    BY <1>2 DEF AddBase, run
  <2>2. ToSet(norm) \subseteq ToSet(norm') /\ ToSet(empty) \subseteq ToSet(empty')
    <3>1. b \notin ToSet(norm) /\ b \notin ToSet(empty)
      BY <1>2 DEF AddBase, Known
    <3>2. ToSet(<<b>> \o norm) = ToSet(norm) \cup {b} /\ ToSet(<<b>> \o empty) = ToSet(empty) \cup {b}
      BY <3>1, ConsDistinct DEF Shape, Typed, TypeOK, Lists
    <3> QED BY <1>2, <3>2 DEF AddBase
  <2>3. \A c \in (Base \ Known)' : q'[c] = <<>>
    BY <2>1, <2>2 DEF FirstInv, Known
  <2>4. Pending' = Pending
    BY <2>1 DEF Pending, ToSet
  <2> QED BY <2>1, <2>3, <2>4, Unlinked DEF Shape, Typed
<1>3. ASSUME NEW b \in Base, NEW n \in Node, QuickDelNode(b, n) PROVE FirstInv'
  <2>1. pc = "idle" /\ UNCHANGED <<norm, empty, q, tv, first, clock, pc, kind, runTv>>
    BY <1>3, DeletesApart DEF QuickDelNode, run
  <2>2. Known' = Known /\ ~Scanning /\ ~Scanning'
    BY <2>1 DEF Known, ToSet, Scanning
  <2> QED BY <2>1, <2>2, ApartSame DEF FirstInv
<1>4. ASSUME NEW b \in Base, QuickDelBase(b) PROVE FirstInv'
  <2>1. pc = "idle" /\ UNCHANGED <<norm, empty, q, tv, first, clock, pc, kind, runTv>>
    BY <1>4, DeletesApart DEF QuickDelBase, run
  <2>2. Known' = Known /\ ~Scanning /\ ~Scanning'
    BY <2>1 DEF Known, ToSet, Scanning
  <2> QED BY <2>1, <2>2, ApartSame DEF FirstInv
<1> QED BY <1>1, <1>2, <1>3, <1>4, DelNodeFirst, DelBaseFirst DEF Client

-----------------------------------------------------------------------------
(* A run. *)

LEMMA MoveBackFirst ==
  ASSUME Shape, FirstInv, MoveBack
  PROVE  FirstInv'
<1> USE DEF Shape, Typed
<1>1. PICK i \in DOMAIN empty : norm' = <<empty[i]>> \o norm /\ empty' = RemoveAt(empty, i)
  BY DEF MoveBack
<1>2. empty[i] \in Base /\ empty[i] \in ToSet(empty) /\ empty[i] \notin ToSet(norm) /\ i \in 1..Len(empty)
  BY InToSet DEF Lists, TypeOK
<1>3. ToSet(norm') = ToSet(norm) \cup {empty[i]}
  BY <1>1, <1>2, ConsDistinct DEF Lists, TypeOK
<1>4. ToSet(empty') = ToSet(empty) \ {empty[i]}
  BY <1>1, <1>2, RemoveDistinct DEF Lists, TypeOK
<1>5. Known' = Known
  BY <1>2, <1>3, <1>4 DEF Known
<1>6. ~Scanning /\ ~Scanning'
  BY DEF MoveBack, Scanning
<1> QED BY <1>5, <1>6, ApartSame DEF MoveBack, FirstInv

\* No base of the empty list is left with nodes when the scan starts.
LEMMA StartScanFirst ==
  ASSUME Shape, FirstInv, StartScan
  PROVE  FirstInv'
<1> USE DEF Shape, Typed
<1>1. UNCHANGED <<norm, empty, q, tv, quick, quickBase, clock, kind, runTv>> /\ pc = "empties" /\ pc' = "base"
  BY DEF StartScan, queues
<1>2. Known' = Known /\ Pending' = Pending /\ ToSet(empty') = ToSet(empty) /\ ~Scanning
  BY <1>1 DEF Known, Pending, ToSet, Scanning
<1>3. CASE kind = "all"
  <2>1. first' = first /\ ~Scanning'
    BY <1>1, <1>3 DEF StartScan, Scanning
  <2> QED BY <1>1, <1>2, <2>1, ApartSame DEF FirstInv
<1>4. CASE kind = "norm"
  <2>1. first' = NoNode /\ pos' = 1 /\ Scanning'
    BY <1>1, <1>4 DEF StartScan, Scanning
  <2>2. \A b \in ToSet(empty) : q[b] = <<>>
    <3>1. CASE walk = 0
      <4>1. Cardinality(Parked) \in Nat /\ Cardinality(Parked) <= 0 /\ IsFiniteSet(Parked)
        BY <3>1, FS_CardinalityType DEF Covered
      <4>2. Parked = {}
        BY <4>1, FS_EmptySet
      <4> QED BY <4>2 DEF Parked
    <3>2. CASE \A i \in DOMAIN empty : q[empty[i]] = <<>>
      BY <3>2 DEF ToSet
    <3> QED BY <3>1, <3>2 DEF StartScan
  <2>3. PastBases' = {}
    <3>0. norm' \in Seq(Base)
      BY <1>1 DEF TypeOK
    <3>1. \A i \in DOMAIN norm' : i \in Nat /\ i >= 1
      BY <3>0
    <3>2. \A i \in DOMAIN norm' : ~Past(i)'
      BY <1>1, <2>1, <3>1 DEF Past
    <3> QED BY <3>2 DEF PastBases
  <2>4. PastNodes' = {}
    BY <2>3 DEF PastNodes
  <2>5. Scan'
    BY <1>1, <1>2, <2>1, <2>2, <2>4 DEF Scan, Null
  <2> QED BY <1>1, <1>2, <2>1, <2>5 DEF FirstInv
<1> QED BY <1>3, <1>4 DEF TypeOK

LEMMA EnterBaseFirst ==
  ASSUME Shape, FirstInv, EnterBase
  PROVE  FirstInv'
<1>1. /\ UNCHANGED <<norm, empty, q, tv, quick, quickBase, first, clock, kind, runTv, pos>>
      /\ pc = "base" /\ kind = "norm"
      /\ pc' = IF norm[pos] \in quickBase THEN "leave" ELSE "nodes"
  BY DEF EnterBase, queues, run
<1>2. Scanning /\ Scanning' /\ Scan
  BY <1>1 DEF Scanning, FirstInv
<1>3. Known' = Known /\ ToSet(empty') = ToSet(empty) /\ ~JustAdded(first)
  BY <1>1 DEF Known, ToSet, JustAdded
<1>4. \A i : Past(i)' <=> Past(i)
  BY <1>1 DEF Past
<1>5. PastBases' = PastBases /\ PastNodes' = PastNodes
  BY <1>1, <1>4 DEF PastBases, PastNodes, ToSet
<1>6. Scan'
  BY <1>1, <1>2, <1>3, <1>5 DEF Scan, Null
<1> QED BY <1>1, <1>2, <1>3, <1>6 DEF FirstInv

\* The head that a run unlinks is not the node that first points at.
LEMMA UnlinkHead ==
  ASSUME Shape, FirstInv, pc = "nodes", NEW b \in Base, b = norm[pos], q[b] # <<>>,
         Head(q[b]) \in quick \/ Due(Head(q[b])),
         Forget(Head(q[b])), q' = [q EXCEPT ![b] = Tail(@)],
         pc' \in {"nodes", "func"},
         UNCHANGED <<norm, empty, tv, quick, quickBase, clock, kind, runTv, pos>>
  PROVE  FirstInv'
<1> USE DEF Shape, Typed
<1> DEFINE h == Head(q[b])
<1>1. q[b] \in Seq(Node) /\ Distinct(q[b]) /\ Tail(q[b]) = RemoveAt(q[b], 1) /\ h = q[b][1] /\ 1 \in 1..Len(q[b])
  BY TailIsRemove DEF TypeOK, Queues
<1>2. ToSet(RemoveAt(q[b], 1)) = ToSet(q[b]) \ {q[b][1]}
  BY <1>1, RemoveDistinct
<1>3. ToSet(q'[b]) = ToSet(q[b]) \ {h} /\ \A c \in Base \ {b} : q'[c] = q[c]
  BY <1>1, <1>2 DEF TypeOK
<1>4. h \in ToSet(q[b]) /\ h \in Node
  BY <1>1, InToSet
<1>5. (h \in quick \/ tv[h] <= runTv) /\ first' = IF first = h THEN NoNode ELSE first
  BY DEF Due, Forget
<1> HIDE DEF h
<1>6. Scanning /\ Scanning' /\ Scan
  BY DEF Scanning, FirstInv
<1>7. b \notin PastBases /\ b \in ToSet(norm) /\ b \notin ToSet(empty)
  BY AtCurrent
<1>8. PastBases' = PastBases /\ Known' = Known /\ ToSet(empty') = ToSet(empty) /\ ToSet(empty) \subseteq Base
  <2>1. \A i : Past(i)' <=> Past(i)
    BY DEF Past
  <2> QED BY <2>1, InToSet DEF PastBases, Known, ToSet, TypeOK
<1>9. PastNodes' = PastNodes /\ h \notin PastNodes
  <2>1. \A c \in PastBases : c \in Base /\ c # b /\ q'[c] = q[c] /\ h \notin ToSet(q[c])
    BY <1>3, <1>4, <1>7, OneQueue DEF PastBases
  <2>2. \A c \in PastBases : ToSet(q'[c]) = ToSet(q[c])
    BY <2>1
  <2>3. PastNodes' = UNION {ToSet(q'[c]) : c \in PastBases}
    BY <1>8 DEF PastNodes, ToSet
  <2> QED BY <2>1, <2>2, <2>3 DEF PastNodes
<1>10. /\ runTv \in Nat /\ \A m \in Node : tv[m] \in Nat
  BY BoundAssumption DEF TypeOK, Times
<1>11. ~Null(first) => first # h
  BY <1>4, <1>5, <1>6, <1>9, <1>10 DEF Scan, JustAdded
<1>12. first' = first
  <2>1. CASE Null(first)
    BY <1>5, <2>1 DEF Null
  <2>2. CASE ~Null(first)
    BY <1>5, <1>11, <2>2
  <2> QED BY <2>1, <2>2
<1>13. JustAdded(first) /\ ~Null(first) => JustAdded(first)'
  BY <1>3, <1>11, <1>12 DEF JustAdded
<1>14. \A c \in Base \ {b} : q[c] = <<>> => q'[c] = <<>>
  BY <1>3
<1>15. Scan'
  BY <1>6, <1>7, <1>8, <1>9, <1>12, <1>13, <1>14 DEF Scan, Null, JustAdded
<1>16. \A c \in (Base \ Known)' : q'[c] = <<>>
  BY <1>7, <1>8, <1>14 DEF FirstInv, Known
<1> QED BY <1>6, <1>15, <1>16 DEF FirstInv

\* The head of the queue, which is not due, is the lowest of its base.
LEMMA EndNodesFirst ==
  ASSUME Shape, FirstInv, EndNodes
  PROVE  FirstInv'
<1> USE DEF Shape, Typed
<1> DEFINE b == norm[pos]
           h == Head(q[b])
<1>1. /\ UNCHANGED <<norm, empty, q, tv, quick, quickBase, clock, kind, runTv, pos>>
      /\ pc = "nodes" /\ pc' = "leave"
  BY DEF EndNodes, queues
<1>2. Scanning /\ Scanning' /\ Scan /\ b \notin quickBase
  BY <1>1 DEF Scanning, FirstInv
<1>3. b \in Base /\ b \notin PastBases
  BY <1>1, AtCurrent
<1>4. Known' = Known /\ ToSet(empty') = ToSet(empty)
  BY <1>1 DEF Known, ToSet
<1>5. PastBases' = PastBases \cup {b}
  <2>1. \A i : Past(i)' <=> Past(i) \/ i = pos
    BY <1>1, <1>2 DEF Past
  <2>2. pos \in DOMAIN norm
    BY <1>1, AtCurrent
  <2> QED BY <1>1, <1>3, <2>1, <2>2 DEF PastBases
<1>6. PastNodes' = PastNodes \cup ToSet(q[b])
  <2>1. PastNodes' = UNION {ToSet(q[c]) : c \in PastBases \cup {b}}
    BY <1>1, <1>5 DEF PastNodes, ToSet
  <2> QED BY <2>1 DEF PastNodes
<1>7. q[b] \in Seq(Node) /\ InOrder(q[b], tv)
  BY <1>3 DEF TypeOK, Queues
<1>8. (\A m \in Node : tv[m] \in Nat) /\ PastNodes \subseteq Node
  BY PendingFacts, PastIn, BoundAssumption DEF TypeOK, Times
<1>9. ~JustAdded(first)'
  BY <1>1 DEF JustAdded
<1> HIDE DEF b
<1>10. CASE q[b] = <<>> /\ first' = first
  <2>1. ToSet(q[b]) = {}
    BY <1>10 DEF ToSet
  <2>2. ~JustAdded(first)
    BY <2>1 DEF JustAdded, b
  <2>3. Scan'
    BY <1>1, <1>2, <1>4, <1>6, <1>10, <2>1, <2>2 DEF Scan, Null
  <2> QED BY <1>1, <1>2, <1>4, <2>3 DEF FirstInv
<1>11. CASE q[b] # <<>> /\ first' = IF ~Null(first) => tv[first] > tv[h] THEN h ELSE first
  <2>1. h = q[b][1] /\ 1 \in DOMAIN q[b] /\ h \in Node /\ h \in ToSet(q[b])
    BY <1>7, <1>11, TailIsRemove, InToSet
  <2>2. \A m \in ToSet(q[b]) : m \in Node /\ tv[h] <= tv[m]
    <3> SUFFICES ASSUME NEW j \in DOMAIN q[b] PROVE q[b][j] \in Node /\ tv[h] <= tv[q[b][j]]
      BY DEF ToSet
    <3>1. j = 1 \/ 1 < j
      BY <1>7
    <3>2. tv[h] \in Nat
      BY <1>8, <2>1
    <3> QED BY <1>7, <2>1, <3>1, <3>2 DEF InOrder
  <2> HIDE DEF h
  <2>3. CASE Null(first)
    <3>1. first' = h /\ PastNodes = {}
      BY <1>2, <1>11, <2>3 DEF Scan
    <3>2. Scan'
      BY <1>1, <1>2, <1>4, <1>6, <2>1, <2>2, <3>1, NodeAssumption DEF Scan, Null
    <3> QED BY <1>1, <1>2, <1>4, <3>2 DEF FirstInv
  <2>4. CASE ~Null(first) /\ tv[first] > tv[h]
    <3>1. first' = h /\ first \in Node
      BY <1>11, <2>4 DEF Null, TypeOK
    <3>2. \A m \in PastNodes' : tv[h] <= tv[m]
      BY <1>2, <1>6, <1>8, <2>1, <2>2, <2>4, <3>1 DEF Scan
    <3>3. Scan'
      BY <1>1, <1>2, <1>4, <1>6, <2>1, <3>1, <3>2, NodeAssumption DEF Scan, Null
    <3> QED BY <1>1, <1>2, <1>4, <3>3 DEF FirstInv
  <2>5. CASE ~Null(first) /\ ~(tv[first] > tv[h])
    <3>1. first' = first /\ first \in Node
      BY <1>11, <2>5 DEF Null, TypeOK
    <3>2. \A m \in PastNodes' : tv[first] <= tv[m]
      BY <1>2, <1>6, <1>8, <2>1, <2>2, <2>5, <3>1 DEF Scan
    <3>3. first \in PastNodes'
      BY <1>2, <1>6, <2>5 DEF Scan, JustAdded, b
    <3>4. Scan'
      BY <1>1, <1>2, <1>4, <2>5, <3>1, <3>2, <3>3 DEF Scan, Null
    <3> QED BY <1>1, <1>2, <1>4, <3>4 DEF FirstInv
  <2> QED BY <2>3, <2>4, <2>5
<1> QED BY <1>10, <1>11 DEF EndNodes, b

LEMMA LeaveBaseFirst ==
  ASSUME Shape, FirstInv, LeaveBase
  PROVE  FirstInv'
<1> USE DEF Shape, Typed
<1> DEFINE b == norm[pos]
<1>1. UNCHANGED <<tv, quick, clock, kind, runTv>> /\ pc = "leave" /\ pc' = "base"
  BY DEF LeaveBase
<1>2. Scanning /\ Scanning' /\ Scan
  BY <1>1 DEF Scanning, FirstInv
<1>3. /\ b \in Base /\ pos \in DOMAIN norm /\ b \in ToSet(norm) /\ b \notin ToSet(empty)
      /\ b \in PastBases <=> b \notin quickBase
  BY <1>1, AtCurrent
<1>4. norm \in Seq(Base) /\ pos \in 1..Len(norm) /\ Distinct(norm) /\ pos \in Nat
  BY <1>3 DEF TypeOK, Lists
<1>5. first \in PastNodes \/ Null(first)
  BY <1>1, <1>2 DEF Scan, JustAdded
<1>6. ToSet(empty) \subseteq Base
  BY InToSet DEF TypeOK, ToSet
<1>7. ToSet(RemoveAt(norm, pos)) = ToSet(norm) \ {b}
  BY <1>4, RemoveDistinct
\* The base is unlinked: what is before it is what is past.
<1>8. ASSUME norm' = RemoveAt(norm, pos), pos' = pos PROVE PastBases' = PastBases \ {b}
  <2>1. /\ norm' \in Seq(Base) /\ Len(norm') = Len(norm) - 1
        /\ \A j \in 1..(Len(norm) - 1) : norm'[j] = IF j < pos THEN norm[j] ELSE norm[j+1]
    BY <1>4, <1>8, RemoveAtFacts
  <2>2. Len(norm) \in Nat /\ DOMAIN norm = 1..Len(norm) /\ DOMAIN norm' = 1..(Len(norm) - 1)
    BY <1>4, <2>1
  <2>3. PastBases' = {c \in Base : \E i \in DOMAIN norm' : norm'[i] = c /\ i < pos}
    BY <1>1, <1>8 DEF PastBases, Past
  <2>4. \A i \in DOMAIN norm' : i < pos => i \in DOMAIN norm /\ norm'[i] = norm[i]
    BY <2>1, <2>2
  <2>5. \A i \in DOMAIN norm : i < pos => i \in DOMAIN norm'
    BY <1>4, <2>2
  <2>6. {c \in Base : \E i \in DOMAIN norm : norm[i] = c /\ i < pos} = PastBases \ {b}
    <3>1. \A i \in DOMAIN norm : norm[i] = b => i = pos
      BY <1>3, <1>4 DEF Distinct
    <3>2. \A i \in DOMAIN norm : (Past(i) /\ norm[i] # b) <=> i < pos
      BY <1>1, <1>4, <3>1 DEF Past
    <3> QED BY <3>2 DEF PastBases
  <2> QED BY <2>3, <2>4, <2>5, <2>6
<1>9. CASE /\ b \in quickBase /\ norm' = RemoveAt(norm, pos) /\ Destroy(b) /\ UNCHANGED <<empty, pos>>
  <2>1. PastBases' = PastBases /\ b \notin PastBases
    BY <1>3, <1>8, <1>9
  <2>2. q'[b] = <<>> /\ \A c \in Base \ {b} : q'[c] = q[c]
    BY <1>3, <1>9 DEF Destroy, TypeOK
  <2>3. PastNodes' = PastNodes
    <3>1. PastNodes' = UNION {ToSet(q'[c]) : c \in PastBases}
      BY <2>1 DEF PastNodes, ToSet
    <3>2. \A c \in PastBases : ToSet(q'[c]) = ToSet(q[c])
      BY <2>1, <2>2 DEF PastBases
    <3> QED BY <3>1, <3>2 DEF PastNodes
  <2>4. first' = first
    <3>1. CASE Null(first)
      BY <1>9, <3>1 DEF Destroy, Null
    <3>2. CASE first \in PastNodes
      <4>1. first \notin ToSet(q[b])
        BY <1>3, <2>1, <3>2, OneQueue DEF PastNodes, PastBases
      <4> QED BY <1>9, <4>1 DEF Destroy
    <3> QED BY <1>5, <3>1, <3>2
  <2>5. ToSet(empty') = ToSet(empty) /\ Known' = Known \ {b}
    BY <1>3, <1>7, <1>9 DEF Known, ToSet
  <2>6. Scan'
    BY <1>1, <1>2, <1>3, <1>5, <1>6, <2>2, <2>3, <2>4, <2>5 DEF Scan, Null
  <2>7. \A c \in (Base \ Known)' : q'[c] = <<>>
    BY <2>2, <2>5 DEF FirstInv
  <2> QED BY <1>1, <1>2, <2>6, <2>7 DEF FirstInv
<1>10. CASE /\ b \notin quickBase /\ q[b] = <<>> /\ norm' = RemoveAt(norm, pos) /\ empty' = <<b>> \o empty
            /\ UNCHANGED <<q, first, quickBase, pos>>
  <2>1. PastBases' = PastBases \ {b}
    BY <1>8, <1>10
  <2>2. PastNodes' = PastNodes
    <3>1. PastNodes' = UNION {ToSet(q[c]) : c \in PastBases \ {b}}
      BY <1>10, <2>1 DEF PastNodes, ToSet
    <3>2. ToSet(q[b]) = {}
      BY <1>10 DEF ToSet
    <3> QED BY <3>1, <3>2 DEF PastNodes
  <2>3. ToSet(empty') = ToSet(empty) \cup {b}
    BY <1>3, <1>10, ConsDistinct DEF Lists, TypeOK
  <2>4. Known' = Known
    BY <1>3, <1>7, <1>10, <2>3 DEF Known
  <2>5. Scan'
    BY <1>1, <1>2, <1>5, <1>10, <2>2, <2>3 DEF Scan, Null
  <2>6. \A c \in (Base \ Known)' : q'[c] = <<>>
    BY <1>10, <2>4 DEF FirstInv
  <2> QED BY <1>1, <1>2, <2>5, <2>6 DEF FirstInv
<1>11. CASE b \notin quickBase /\ pos' = pos + 1 /\ UNCHANGED <<norm, empty, q, first, quickBase>>
  <2>1. \A i \in DOMAIN norm : Past(i)' <=> Past(i)
    BY <1>1, <1>4, <1>11 DEF Past
  <2>2. PastBases' = PastBases /\ PastNodes' = PastNodes /\ ToSet(empty') = ToSet(empty) /\ Known' = Known
    BY <1>11, <2>1 DEF PastBases, PastNodes, ToSet, Known
  <2>3. Scan'
    BY <1>1, <1>2, <1>5, <1>11, <2>2 DEF Scan, Null
  <2>4. \A c \in (Base \ Known)' : q'[c] = <<>>
    BY <1>11, <2>2 DEF FirstInv
  <2> QED BY <1>1, <1>2, <2>3, <2>4 DEF FirstInv
<1> QED BY <1>9, <1>10, <1>11 DEF LeaveBase

\* The run has passed every base that has nodes.
LEMMA RunEndFirst ==
  ASSUME Shape, Shape', FirstInv, RunEnd
  PROVE  FirstInv'
<1> USE DEF Shape, Typed
<1>1. UNCHANGED <<norm, empty, q, tv, first, clock>> /\ pc = "base" /\ pc' = "idle" /\ pos > Len(norm) /\ runTv' = 0
  BY DEF RunEnd, queues
<1>2. Pending' = Pending /\ Known' = Known /\ ~Scanning' /\ runTv' <= clock'
  BY <1>1, BoundAssumption DEF Pending, Known, ToSet, Scanning, TypeOK, Times
<1>3. CASE kind = "all"
  BY <1>1, <1>2, <1>3, ApartSame DEF Scanning, FirstInv
<1>4. CASE kind = "norm"
  <2>1. Scan /\ ~JustAdded(first)
    BY <1>1, <1>4 DEF Scanning, FirstInv, JustAdded
  <2>2. \A i \in DOMAIN norm : Past(i)
    BY <1>1 DEF Past, TypeOK
  <2>3. \A b \in Base : q[b] # <<>> => b \in PastBases
    <3> SUFFICES ASSUME NEW b \in Base, q[b] # <<>> PROVE b \in PastBases
      OBVIOUS
    <3>1. b \in ToSet(norm)
      BY <2>1 DEF FirstInv, Scan, Known
    <3> QED BY <2>2, <3>1 DEF PastBases, ToSet
  <2>4. \A b \in Base : ToSet(q[b]) \subseteq PastNodes
    <3> SUFFICES ASSUME NEW b \in Base PROVE ToSet(q[b]) \subseteq PastNodes
      OBVIOUS
    <3>1. CASE q[b] = <<>>
      BY <3>1 DEF ToSet
    <3>2. CASE q[b] # <<>>
      BY <2>3, <3>2 DEF PastNodes
    <3> QED BY <3>1, <3>2
  <2>5. Pending \subseteq PastNodes /\ PastNodes \subseteq Pending
    BY <2>4, PastIn DEF Pending
  <2>6. Lowest'
    BY <1>1, <1>2, <2>1, <2>5 DEF Scan, Lowest, Null
  <2>7. ~Scanning'
    BY <1>2
  <2> QED BY <1>1, <1>2, <2>6 DEF FirstInv
<1> QED BY <1>3, <1>4 DEF TypeOK

LEMMA FirstStep ==
  ASSUME Modest, Shape, Shape', FirstInv, [Next]_vars
  PROVE  FirstInv'
<1>1. CASE Tick
  <2>1. Known' = Known /\ ~Scanning /\ ~Scanning'
    BY <1>1 DEF Tick, queues, run, Known, ToSet, Scanning
  <2>2. runTv' <= clock'
    BY <1>1, BoundAssumption DEF Tick, run, FirstInv, Shape, Typed, TypeOK, Times
  <2> QED BY <1>1, <2>1, <2>2, ApartSame DEF Tick, queues, run
<1>2. ASSUME NEW t \in {0, clock}, Begin(t) PROVE FirstInv'
  <2>1. Known' = Known /\ ~Scanning /\ ~Scanning'
    BY <1>2 DEF Begin, queues, Known, ToSet, Scanning
  <2>2. runTv' <= clock'
    BY <1>2, BoundAssumption DEF Begin, Shape, Typed, TypeOK, Times
  <2> QED BY <1>2, <2>1, <2>2, ApartSame DEF Begin, queues
<1>3. CASE RunAll
  <2>1. Known' = Known /\ ~Scanning /\ ~Scanning'
    BY <1>3 DEF RunAll, queues, Known, ToSet, Scanning
  <2> QED BY <1>3, <2>1, ApartSame DEF RunAll, queues, FirstInv
<1>4. CASE CallAll
  <2>1. Known' = Known /\ ~Scanning /\ ~Scanning'
    BY <1>4 DEF CallAll, queues, Known, ToSet, Scanning
  <2> QED BY <1>4, <2>1, ApartSame DEF CallAll, queues, FirstInv
<1>5. CASE Reap \/ Fire
  <2>1. norm[pos] \in Base
    BY <1>5, AtCurrent DEF Reap, Fire
  <2> QED BY <1>5, <2>1, UnlinkHead DEF Reap, Fire, run
<1>6. CASE CallbackReturn
  <2>1. UNCHANGED <<norm, empty, q, tv, quick, quickBase, first, clock, kind, runTv, pos>> /\ pc = "func" /\ pc' = "nodes"
    BY <1>6 DEF CallbackReturn, queues
  <2>2. PastBases' = PastBases /\ PastNodes' = PastNodes /\ ToSet(empty') = ToSet(empty) /\ Known' = Known
    BY <2>1 DEF PastBases, PastNodes, Past, ToSet, Known
  <2>3. Scanning /\ Scanning' /\ \A n : JustAdded(n)' <=> JustAdded(n)
    BY <2>1 DEF Scanning, JustAdded, ToSet, FirstInv
  <2>4. Scan' <=> Scan
    BY <2>1, <2>2, <2>3 DEF Scan, Null
  <2> QED BY <2>1, <2>2, <2>3, <2>4 DEF FirstInv
<1>7. CASE UNCHANGED vars
  <2>1. UNCHANGED <<norm, empty, q, tv, pc, kind, pos, runTv, quick, quickBase, first, clock>>
    BY <1>7 DEF vars
  <2>2. runTv' <= clock'
    BY <2>1 DEF FirstInv
  <2> QED BY <2>1, <2>2, QuietScan
<1> QED BY <1>1, <1>2, <1>3, <1>4, <1>5, <1>6, <1>7, ClientFirst, MoveBackFirst, StartScanFirst, EnterBaseFirst,
           EndNodesFirst, LeaveBaseFirst, RunEndFirst DEF Next, RunNorm, FirstTimeval, RunStep

LEMMA FirstInvariance ==
  ASSUME Modest
  PROVE  Spec => [](Shape /\ FirstInv)
<1>1. Init => Shape /\ FirstInv
  <2> SUFFICES ASSUME Init PROVE Shape /\ FirstInv
    OBVIOUS
  <2>1. Parked = {} /\ walk = 0
    BY DEF Init, Parked, ToSet
  <2>2. Shape
    BY <2>1, FS_EmptySet, InitTyped, InitLists DEF Shape, Covered
  <2>3. FirstInv
    BY DEF Init, FirstInv, Scanning, Lowest, Null
  <2> QED BY <2>2, <2>3
<1>2. Shape /\ FirstInv /\ [Next]_vars => (Shape /\ FirstInv)'
  <2> SUFFICES ASSUME Shape, FirstInv, [Next]_vars PROVE (Shape /\ FirstInv)'
    OBVIOUS
  <2>1. Base \subseteq MoveWhenEmpty
    BY DEF Modest
  <2>2. Shape'
    BY <2>1, NextTyped, ListsStep, QueuesStep, CoveredStep DEF Shape
  <2> QED BY <2>2, FirstStep
<1> QED BY <1>1, <1>2, PTL DEF Spec

\* Between two runs a time stamp that timer_q__first_timeval knows is the lowest
\* of all linked nodes, which is what lets timer_q_run_norm return at once: in a
\* program whose call backs add to their own queue and delete nothing.
THEOREM TheFirstTimeIsTheLowest ==
  ASSUME Modest
  PROVE  Spec => []FirstIsLowest
<1>1. Shape /\ FirstInv => FirstIsLowest
  BY DEF FirstInv, Lowest, FirstIsLowest, Scanning
<1> QED BY <1>1, FirstInvariance, PTL

-----------------------------------------------------------------------------
(***************************************************************************)
(* The queue keeps the promises of TimerService, whatever its call backs   *)
(* add and delete.                                                         *)
(***************************************************************************)

\* A call back is running just when the library is in one, and a run never
\* takes a time stamp for past that the clock has not reached.
Running == runTv <= clock /\ (cur = NoNode <=> pc # "func")
Serving == Typed /\ Queues /\ Running

home == [n \in Node |-> HomeOf(n)]

LEMMA RunningStep == ASSUME Typed, Running, [Next]_vars PROVE Running'
<1> USE DEF Typed, TypeOK, Running
<1>1. CASE Client
  <2>1. CASE \E b \in Base : AddBase(b) \/ QuickDelBase(b) \/ DelBase(b)
    BY <2>1 DEF AddBase, QuickDelBase, DelBase, run
  <2>2. CASE \E b \in Base, n \in Node, t \in Times : AddNode(b, n, t)
    BY <2>2 DEF AddNode, run
  <2>3. CASE \E b \in Base : \E i \in DOMAIN q[b] : DelNode(b, i)
    BY <2>3 DEF DelNode, run
  <2>4. CASE \E b \in Base, n \in Node : QuickDelNode(b, n)
    BY <2>4 DEF QuickDelNode, run
  <2> QED BY <1>1, <2>1, <2>2, <2>3, <2>4 DEF Client
<1>2. CASE Tick
  BY <1>2, BoundAssumption DEF Tick, run, Times
<1>3. CASE RunNorm \/ FirstTimeval \/ RunAll
  BY <1>3, BoundAssumption DEF RunNorm, FirstTimeval, Begin, RunAll, Times
<1>4. CASE Fire
  <2>1. norm[pos] \in Base
    BY <1>4, InToSet DEF Fire, AtBase
  <2>2. cur' \in Node
    BY <1>4, <2>1 DEF Fire
  <2> QED BY <1>4, <2>2, NodeAssumption DEF Fire
<1>5. CASE RunStep /\ ~Fire
  <2>1. CASE MoveBack \/ StartScan \/ CallAll
    BY <2>1, BoundAssumption DEF MoveBack, StartScan, CallAll, run, Times
  <2>2. CASE EnterBase \/ Reap \/ EndNodes
    BY <2>2, BoundAssumption DEF EnterBase, Reap, EndNodes, run, Times
  <2>3. CASE CallbackReturn
    BY <2>3, BoundAssumption DEF CallbackReturn, run, Times
  <2>4. CASE LeaveBase
    BY <2>4, BoundAssumption DEF LeaveBase, run, Times
  <2>5. CASE RunEnd
    BY <2>5, BoundAssumption DEF RunEnd, run, Times
  <2> QED BY <1>5, <2>1, <2>2, <2>3, <2>4, <2>5 DEF RunStep
<1>6. CASE UNCHANGED vars
  BY <1>6 DEF vars
<1> QED BY <1>1, <1>2, <1>3, <1>4, <1>5, <1>6 DEF Next

LEMMA ServingInvariance == Spec => []Serving
<1>1. Init => Serving
  BY InitTyped, InitLists DEF Init, Serving, Running
<1>2. Serving /\ [Next]_vars => Serving'
  BY NextTyped, QueuesStep, RunningStep DEF Serving
<1> QED BY <1>1, <1>2, PTL DEF Spec

\* The home of a node is the base whose queue it is on.
LEMMA HomeFacts ==
  ASSUME Serving
  PROVE  /\ \A n \in Node, b \in Base : n \in ToSet(q[b]) => home[n] = {b}
         /\ \A n \in Node : home[n] # {} => \E b \in Base : n \in ToSet(q[b])
         /\ \A n \in Node : home[n] = {} <=> n \notin Pending
<1>1. \A n \in Node, b \in Base : n \in ToSet(q[b]) => HomeOf(n) = {b}
  BY OneQueue DEF HomeOf, Serving
<1>2. \A n \in Node : HomeOf(n) # {} => \E b \in Base : n \in ToSet(q[b])
  BY DEF HomeOf
<1>3. \A n \in Node : HomeOf(n) = {} <=> n \notin Pending
  BY PendingFacts DEF HomeOf, Serving, Typed
<1> QED BY <1>1, <1>2, <1>3 DEF home

LEMMA SameHome == ASSUME q' = q PROVE home' = home
  BY DEF home, HomeOf, ToSet

\* Unlinking nodes, and nothing else that the users of the service see.
LEMMA DropStep ==
  ASSUME Serving, NEW S \in SUBSET Node,
         \A c \in Base : ToSet(q'[c]) = ToSet(q[c]) \ S, S \subseteq Pending,
         UNCHANGED <<tv, quick, cur, clock>>
  PROVE  Service!Drop(S)
<1>1. \A n \in S : home[n] # {}
  BY HomeFacts
<1>2. \A n \in Node : home'[n] = IF n \in S THEN {} ELSE home[n]
  <2> SUFFICES ASSUME NEW n \in Node PROVE HomeOf(n)' = IF n \in S THEN {} ELSE HomeOf(n)
    BY DEF home
  <2> QED BY DEF HomeOf
<1>3. home' = [n \in Node |-> IF n \in S THEN {} ELSE home[n]]
  BY <1>2 DEF home
<1> QED BY <1>1, <1>3 DEF Service!Drop, home

LEMMA AddNodeServes ==
  ASSUME Serving, NEW b \in Base, NEW n \in Node, NEW t \in Times, AddNode(b, n, t)
  PROVE  Service!Schedule(n, {b}, t)
<1>1. /\ ToSet(q'[b]) = ToSet(q[b]) \cup {n}
      /\ \A c \in Base \ {b} : q'[c] = q[c]
      /\ \A c \in Base : n \notin ToSet(q[c])
  BY AddNodeQueue DEF Serving, Typed
<1>2. home[n] = {}
  BY <1>1 DEF home, HomeOf
<1>3. HomeOf(n)' = {b}
  BY <1>1 DEF HomeOf
<1>4. \A m \in Node \ {n} : HomeOf(m)' = HomeOf(m)
  BY <1>1 DEF HomeOf
<1>5. home' = [home EXCEPT ![n] = {b}]
  BY <1>3, <1>4 DEF home
<1> QED BY <1>2, <1>5 DEF Service!Schedule, AddNode, run, home

\* The head of a queue that is due is called after the nodes due before it.
LEMMA FireServes ==
  ASSUME Serving, Fire, NEW b, b = norm[pos], NEW h, h = Head(q[b])
  PROVE  h \in Node /\ Service!Call(h)
<1> USE DEF Serving, Typed
<1>1. b \in Base /\ pc = "nodes"
  BY InToSet DEF Fire, AtBase, TypeOK
<1>2. q[b] # <<>> /\ h \notin quick /\ tv[h] <= runTv /\ q' = [q EXCEPT ![b] = Tail(@)] /\ cur' = h
  BY DEF Fire, Due
<1>3. q[b] \in Seq(Node) /\ Distinct(q[b]) /\ InOrder(q[b], tv)
  BY <1>1 DEF TypeOK, Queues
<1>4. Tail(q[b]) = RemoveAt(q[b], 1) /\ h = q[b][1] /\ 1 \in 1..Len(q[b])
  BY <1>2, <1>3, TailIsRemove
<1>5. ToSet(RemoveAt(q[b], 1)) = ToSet(q[b]) \ {q[b][1]}
  BY <1>3, <1>4, RemoveDistinct
<1>6. ToSet(q'[b]) = ToSet(q[b]) \ {h} /\ \A c \in Base \ {b} : q'[c] = q[c]
  BY <1>1, <1>2, <1>4, <1>5 DEF TypeOK
<1>7. h \in ToSet(q[b]) /\ h \in Node
  BY <1>3, <1>4, InToSet
<1>8. home[h] = {b}
  BY <1>1, <1>7, HomeFacts
<1>9. HomeOf(h)' = {}
  BY <1>1, <1>6, <1>7, OneQueue DEF HomeOf
<1>10. \A m \in Node \ {h} : HomeOf(m)' = HomeOf(m)
  <2>1. \A m \in Node \ {h} : \A c \in Base : m \in ToSet(q'[c]) <=> m \in ToSet(q[c])
    BY <1>6
  <2> QED BY <2>1 DEF HomeOf
<1>11. home' = [home EXCEPT ![h] = {}]
  BY <1>9, <1>10 DEF home
<1>12. runTv \in Nat /\ clock \in Nat /\ \A m \in Node : tv[m] \in Nat
  BY BoundAssumption DEF TypeOK, Times
<1>13. tv[h] <= clock
  BY <1>2, <1>7, <1>12 DEF Running
<1>14. ASSUME NEW m \in Node, home[m] = home[h] PROVE tv[h] <= tv[m]
  <2>1. m \in ToSet(q[b])
    BY <1>1, <1>8, <1>14 DEF home, HomeOf
  <2>2. PICK j \in DOMAIN q[b] : q[b][j] = m
    BY <2>1 DEF ToSet
  <2>3. j = 1 \/ 1 < j
    BY <1>3
  <2> QED BY <1>3, <1>4, <1>7, <1>12, <2>2, <2>3 DEF InOrder
<1>15. cur = NoNode
  BY <1>1 DEF Running
<1>16. Service!Call(h)
  BY <1>2, <1>8, <1>11, <1>13, <1>14, <1>15 DEF Service!Call, Fire, home
<1> QED BY <1>7, <1>16

LEMMA ServiceStep ==
  ASSUME Serving, [Next]_vars
  PROVE  [Service!SNext]_(Service!svars)
<1> USE DEF Serving, Typed
<1>1. CASE UNCHANGED <<q, tv, quick, cur, clock>>
  BY <1>1, SameHome DEF Service!svars, home
<1>2. ASSUME NEW S \in SUBSET Node, Service!Drop(S) PROVE Service!SNext
  BY <1>2 DEF Service!SNext
<1>3. ASSUME NEW b \in Base, NEW s \in Seq(Node), q' = [q EXCEPT ![b] = s], ToSet(s) \subseteq ToSet(q[b]),
             UNCHANGED <<tv, quick, cur, clock>>
      PROVE  Service!SNext
  <2>0. PICK S : S = ToSet(q[b]) \ ToSet(s)
    OBVIOUS
  <2>1. ToSet(q[b]) \subseteq Node
    BY PendingFacts
  <2>2. ToSet(q'[b]) = ToSet(q[b]) \ S /\ \A c \in Base \ {b} : q'[c] = q[c]
    BY <1>3, <2>0 DEF TypeOK
  <2>3. \A c \in Base : ToSet(q'[c]) = ToSet(q[c]) \ S
    <3>1. \A c \in Base \ {b} : ToSet(q[c]) \cap ToSet(q[b]) = {}
      BY DEF Queues
    <3> QED BY <2>0, <2>2, <3>1
  <2>4. S \subseteq Pending /\ S \in SUBSET Node
    BY <2>0, <2>1 DEF Pending
  <2> QED BY <1>2, <1>3, <2>3, <2>4, DropStep
<1>4. ASSUME NEW b \in Base, q' = [q EXCEPT ![b] = <<>>], UNCHANGED <<tv, quick, cur, clock>>
      PROVE  Service!SNext
  <2>1. ToSet(<<>>) = {} /\ <<>> \in Seq(Node)
    BY EmptyQueue
  <2> QED BY <1>3, <1>4, <2>1
<1>5. ASSUME NEW b \in Base, NEW n \in Node, NEW t \in Times, AddNode(b, n, t) PROVE Service!SNext
  <2>1. {b} \in {{c} : c \in Base} /\ t \in 0..MaxTime
    BY DEF Times
  <2> QED BY <1>5, <2>1, AddNodeServes DEF Service!SNext
<1>6. ASSUME NEW b \in Base, NEW i \in DOMAIN q[b], DelNode(b, i) PROVE Service!SNext
  <2>1. q[b] \in Seq(Node) /\ Distinct(q[b]) /\ i \in 1..Len(q[b]) /\ q[b][i] \in ToSet(q[b])
    BY InToSet DEF TypeOK, Queues
  <2>2. RemoveAt(q[b], i) \in Seq(Node) /\ ToSet(RemoveAt(q[b], i)) = ToSet(q[b]) \ {q[b][i]}
    BY <2>1, RemoveDistinct
  <2>3. q' = [q EXCEPT ![b] = RemoveAt(q[b], i)] /\ UNCHANGED <<tv, quick, cur, clock>>
    BY <1>6 DEF DelNode, run
  <2> QED BY <1>3, <2>1, <2>2, <2>3
<1>7. ASSUME NEW b \in Base, NEW n \in Node, QuickDelNode(b, n) PROVE Service!SNext
  <2>1. home[n] # {}
    BY <1>7 DEF home, HomeOf, QuickDelNode, Live
  <2>2. Service!Strike(n)
    BY <1>7, <2>1, SameHome DEF Service!Strike, QuickDelNode, run, home
  <2> QED BY <2>2 DEF Service!SNext
<1>8. ASSUME NEW b \in Base, DelBase(b) PROVE [Service!SNext]_(Service!svars)
  BY <1>1, <1>4, <1>8 DEF DelBase, Destroy
<1>9. CASE Client
  BY <1>1, <1>5, <1>6, <1>7, <1>8, <1>9 DEF Client, AddBase, QuickDelBase, run
<1>10. CASE Tick
  <2>1. cur = NoNode /\ home' = home
    BY <1>10, SameHome DEF Tick, queues, Running
  <2>2. Service!Advance
    BY <1>10, <2>1 DEF Service!Advance, Tick, queues, run, home
  <2> QED BY <2>2 DEF Service!SNext
<1>11. CASE Reap
  <2>1. norm[pos] \in Base /\ q[norm[pos]] # <<>> /\ q' = [q EXCEPT ![norm[pos]] = Tail(q[norm[pos]])]
    BY <1>11, InToSet DEF Reap, AtBase, TypeOK
  <2>2. q[norm[pos]] \in Seq(Node) /\ Distinct(q[norm[pos]])
    BY <2>1 DEF TypeOK, Queues
  <2>3. Tail(q[norm[pos]]) = RemoveAt(q[norm[pos]], 1) /\ 1 \in 1..Len(q[norm[pos]])
    BY <2>1, <2>2, TailIsRemove
  <2>4. /\ Tail(q[norm[pos]]) \in Seq(Node) /\ q[norm[pos]][1] \in ToSet(q[norm[pos]])
        /\ ToSet(Tail(q[norm[pos]])) = ToSet(q[norm[pos]]) \ {q[norm[pos]][1]}
    BY <2>2, <2>3, RemoveDistinct, InToSet
  <2>5. UNCHANGED <<tv, quick, cur, clock>>
    BY <1>11 DEF Reap, run
  <2> QED BY <1>3, <2>1, <2>4, <2>5
<1>12. CASE CallbackReturn
  <2>1. cur # NoNode /\ home' = home
    BY <1>12, SameHome DEF CallbackReturn, queues, Running
  <2>2. Service!Return
    BY <1>12, <2>1 DEF Service!Return, CallbackReturn, queues, home
  <2> QED BY <2>2 DEF Service!SNext
<1>13. CASE LeaveBase
  <2>1. norm[pos] \in Base /\ UNCHANGED <<tv, quick, cur, clock>>
    BY <1>13, InToSet DEF LeaveBase, AtBase, TypeOK
  <2> QED BY <1>1, <1>4, <1>13, <2>1 DEF LeaveBase, Destroy
<1>14. CASE Fire
  <2>1. PICK b, h : b = norm[pos] /\ h = Head(q[b])
    OBVIOUS
  <2> QED BY <1>14, <2>1, FireServes DEF Service!SNext
<1>15. CASE RunNorm \/ FirstTimeval \/ RunAll \/ MoveBack \/ StartScan \/ CallAll \/ EnterBase \/ EndNodes \/ RunEnd
  BY <1>1, <1>15 DEF RunNorm, FirstTimeval, Begin, RunAll, MoveBack, StartScan, CallAll, EnterBase, EndNodes, RunEnd,
     queues
<1>16. CASE UNCHANGED vars
  BY <1>1, <1>16 DEF vars
<1> QED BY <1>9, <1>10, <1>11, <1>12, <1>13, <1>14, <1>15, <1>16 DEF Next, RunStep

\* Whatever the program and its call backs add and delete, a node is called at
\* most once per scheduling, not before its time, not after it was deleted, and
\* after the nodes of its base that are due earlier.
THEOREM TheServiceIsKept == Spec => ServiceSpec
<1>1. Init => Service!SInit
  <2> SUFFICES ASSUME Init PROVE Service!SInit
    OBVIOUS
  <2>1. \A n \in Node : HomeOf(n) = {}
    BY DEF Init, HomeOf, ToSet
  <2> QED BY <2>1 DEF Init, Service!SInit
<1>2. Serving /\ [Next]_vars => [Service!SNext]_(Service!svars)
  BY ServiceStep
<1> QED BY <1>1, <1>2, ServingInvariance, PTL DEF Spec, ServiceSpec, Service!ServiceSpec
=============================================================================
