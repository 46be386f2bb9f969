--------------------------- MODULE Channels_proofs ---------------------------
(***************************************************************************)
(* Theorems about the channels, for any channels and players: the three    *)
(* kinds of list agree, the count that a save asserts is right, and a      *)
(* restart loses nothing but what is marked.  As long as no node is        *)
(* removed that has lost its prev, that is: with one the code fails.       *)
(***************************************************************************)
EXTENDS Channels, SequenceTheorems, FiniteSetTheorems, WellFoundedInduction, TLAPS

(***************************************************************************)
(* Induction over the natural numbers, as the least of a set of them.      *)
(***************************************************************************)
LEMMA LeastOf ==
  ASSUME NEW T \in SUBSET Nat, T # {}
  PROVE  \E n \in T : \A m \in T : n <= m
<1> DEFINE R == OpToRel(<, Nat)
<1>1. IsWellFoundedOn(R, Nat)
  BY NatLessThanWellFounded
<1>2. \A m, n \in Nat : m < n => <<m, n>> \in R
  BY DEF OpToRel
<1> HIDE DEF R
<1>3. \E n \in T : \A m \in T : ~ (<<m, n>> \in R)
  BY <1>1, WFMin, Zenon
<1>4. PICK n \in T : \A m \in T : ~ (<<m, n>> \in R)
  BY <1>3
<1>5. \A m \in T : m \in Nat /\ n \in Nat /\ ~ (m < n)
  BY <1>2, <1>4
<1>6. \A m \in T : n <= m
  BY <1>5
<1> QED BY <1>6

(***************************************************************************)
(* The least and the greatest of some channels.                            *)
(***************************************************************************)
LEMMA ChannelFacts == /\ Channel \subseteq Nat /\ None \notin Channel
                      /\ IsFiniteSet(Channel) /\ Cardinality(Channel) \in Nat
                      /\ Kept \subseteq Channel /\ Main \in Kept
                      /\ Redos \in Nat
  BY ConstAssumption, FS_CardinalityType DEF None

LEMMA MinFacts ==
  ASSUME NEW cs \in SUBSET Channel, cs # {}
  PROVE  Min(cs) \in cs /\ \A d \in cs : Min(cs) <= d
<1>1. \E n \in cs : \A m \in cs : n <= m
  BY LeastOf, ChannelFacts
<1> QED BY <1>1 DEF Min

\* The greatest is the one that fewest are above.
LEMMA MaxFacts ==
  ASSUME NEW cs \in SUBSET Channel, cs # {}
  PROVE  Max(cs) \in cs /\ \A d \in cs : d <= Max(cs)
<1> DEFINE Above(c) == {d \in cs : d > c}
           T == {Cardinality(Above(c)) : c \in cs}
<1>1. IsFiniteSet(cs)
  BY FS_Subset, ChannelFacts
<1>2. ASSUME NEW c \in cs
      PROVE  IsFiniteSet(Above(c)) /\ Cardinality(Above(c)) \in Nat
  BY <1>1, FS_Subset, FS_CardinalityType
<1>3. T \in SUBSET Nat /\ T # {}
  BY <1>2
<1>4. PICK n \in T : \A m \in T : n <= m
  BY <1>3, LeastOf
<1>5. PICK c \in cs : n = Cardinality(Above(c))
  BY <1>4
<1>6. ASSUME NEW d \in cs, d > c PROVE FALSE
  <2>1. c \in Nat /\ d \in Nat
    BY ChannelFacts
  <2>2. Above(d) \in SUBSET Above(c)
    <3>1. ASSUME NEW e \in cs, e > d PROVE e > c
      BY <3>1, <2>1, <1>6, ChannelFacts
    <3> QED BY <3>1
  <2>3. d \in Above(c) /\ d \notin Above(d)
    BY <2>1, <1>6
  <2> HIDE DEF Above
  <2>4. Cardinality(Above(d)) <= Cardinality(Above(c)) /\ Above(d) # Above(c)
    BY <2>2, <2>3, <1>2, FS_Subset
  <2>5. Cardinality(Above(d)) # Cardinality(Above(c))
    BY <2>2, <2>4, <1>2, FS_Subset
  <2> QED BY <2>4, <2>5, <1>4, <1>5, <1>2
<1>7. \A d \in cs : c >= d
  BY <1>6, ChannelFacts
<1>8. \E x \in cs : \A y \in cs : x >= y
  BY <1>7
<1>9. Max(cs) \in cs /\ \A d \in cs : Max(cs) >= d
  BY <1>8 DEF Max
<1> QED BY <1>9, ChannelFacts

(***************************************************************************)
(* A list of the channels cs: start and next are right, prev is right or   *)
(* was forgotten.                                                          *)
(***************************************************************************)
Starts(l, cs) == /\ cs = {} => l.start = None
                 /\ cs # {} => l.start \in cs /\ \A d \in cs : l.start <= d

Follows(l, cs, c) == \/ l.next[c] = None /\ \A d \in cs : d <= c
                     \/ /\ l.next[c] \in cs /\ l.next[c] > c
                        /\ \A d \in cs : d > c => l.next[c] <= d

Precedes(l, cs, c) == \/ l.prev[c] = None
                      \/ /\ l.prev[c] \in cs /\ l.prev[c] < c
                         /\ \A d \in cs : d < c => d <= l.prev[c]

Lists(l, cs) == /\ l \in List /\ cs \in SUBSET Channel
                /\ Starts(l, cs)
                /\ \A c \in cs : Follows(l, cs, c) /\ Precedes(l, cs, c)
(***************************************************************************)
(* What a walk of the list visits.                                         *)
(***************************************************************************)
Walking(f, n, l) ==
  f = [i \in 1..n |-> IF i = 1 THEN l.start
                      ELSE IF f[i - 1] = None THEN None ELSE l.next[f[i - 1]]]

\* There is such a walk, of any length.
LEMMA WalkingExists ==
  ASSUME NEW l, NEW n \in Nat PROVE \E f : Walking(f, n, l)
<1> DEFINE T == {m \in Nat : ~ \E f : Walking(f, m, l)}
<1>1. SUFFICES ASSUME T # {} PROVE FALSE
  OBVIOUS
<1>2. PICK m \in T : \A k \in T : m <= k
  BY LeastOf, <1>1
<1>3. m # 0
  <2>1. Walking([i \in 1..0 |-> None], 0, l)
    BY DEF Walking
  <2> QED BY <2>1
<1>4. m - 1 \in Nat /\ m \in Nat /\ m - 1 \notin T
  BY <1>2, <1>3
<1>5. PICK f : Walking(f, m - 1, l)
  BY <1>4
<1> DEFINE step(h, i) == IF i = 1 THEN l.start
                         ELSE IF h[i - 1] = None THEN None ELSE l.next[h[i - 1]]
           g == [i \in 1..m |-> IF i = m THEN step(f, m) ELSE f[i]]
<1>6. ASSUME NEW i \in 1..m PROVE g[i] = step(g, i)
  <2>1. i # 1 => i - 1 \in 1..m /\ i - 1 # m /\ g[i - 1] = f[i - 1]
    BY <1>4
  <2>2. CASE i = m
    BY <2>1, <2>2
  <2>3. CASE i # m
    <3>1. i \in 1..(m - 1) /\ g[i] = f[i]
      BY <2>3, <1>4
    <3>2. f[i] = step(f, i)
      BY <3>1, <1>5 DEF Walking
    <3> QED BY <2>1, <3>1, <3>2
  <2> QED BY <2>2, <2>3
<1>7. Walking(g, m, l)
  BY <1>6 DEF Walking
<1> QED BY <1>7

LEMMA WalkIs ==
  ASSUME NEW l
  PROVE  \E f : /\ Walking(f, Cardinality(Channel), l)
                /\ Walk(l) = SubSeq(f, 1, Cardinality({i \in 1..Cardinality(Channel) : f[i] # None}))
<1> DEFINE n == Cardinality(Channel)
           F == CHOOSE f : Walking(f, n, l)
<1>1. Walking(F, n, l)
  BY WalkingExists, ChannelFacts
<1>2. Walk(l) = SubSeq(F, 1, Cardinality({i \in 1..n : F[i] # None}))
  BY DEF Walk, Walking
<1> QED BY <1>1, <1>2

\* The place of c among the channels cs.
Place(cs, c) == Cardinality({d \in cs : d <= c})

LEMMA PlaceFacts ==
  ASSUME NEW cs \in SUBSET Channel, NEW c \in cs
  PROVE  /\ IsFiniteSet(cs) /\ Cardinality(cs) \in Nat
         /\ Place(cs, c) \in 1..Cardinality(cs)
         /\ (\A d \in cs : c <= d) => Place(cs, c) = 1
         /\ (\A d \in cs : d <= c) => Place(cs, c) = Cardinality(cs)
         /\ \A e \in cs : c < e => Place(cs, c) < Place(cs, e)
         /\ \A e \in cs : c < e /\ (\A d \in cs : d > c => e <= d) =>
                            Place(cs, e) = Place(cs, c) + 1
<1> DEFINE Upto(e) == {d \in cs : d <= e}
<1>0. cs \subseteq Nat /\ IsFiniteSet(cs) /\ Cardinality(cs) \in Nat
  BY ChannelFacts, FS_Subset, FS_CardinalityType
<1>1. ASSUME NEW e \in cs
      PROVE  /\ Upto(e) \in SUBSET cs /\ IsFiniteSet(Upto(e))
             /\ Cardinality(Upto(e)) \in Nat /\ Cardinality(Upto(e)) <= Cardinality(cs)
             /\ e \in Upto(e)
  BY <1>0, FS_Subset, FS_CardinalityType
<1>2. Cardinality(Upto(c)) # 0
  <2>1. Upto(c) # {} /\ IsFiniteSet(Upto(c))
    BY <1>1
  <2> HIDE DEF Upto
  <2>2. Cardinality(Upto(c)) = 0 <=> Upto(c) = {}
    BY <2>1, FS_EmptySet, Zenon
  <2> QED BY <2>1, <2>2
<1>3. ASSUME \A d \in cs : c <= d PROVE Cardinality(Upto(c)) = 1
  <2>1. ASSUME NEW d \in cs PROVE d <= c <=> d = c
    <3>1. d \in Nat /\ c \in Nat /\ c <= d
      BY <1>3, <1>0
    <3> QED BY <3>1
  <2>2. Upto(c) = {c}
    BY <2>1
  <2> QED BY <2>2, FS_Singleton
<1>4. ASSUME \A d \in cs : d <= c PROVE Cardinality(Upto(c)) = Cardinality(cs)
  <2>1. Upto(c) = cs
    BY <1>4
  <2> QED BY <2>1
<1>5. ASSUME NEW e \in cs, c < e PROVE Cardinality(Upto(c)) < Cardinality(Upto(e))
  <2>1. e \notin Upto(c) /\ e \in Upto(e)
    BY <1>5, <1>0
  <2>2. ASSUME NEW d \in Upto(c) PROVE d \in Upto(e)
    <3>1. d \in Nat /\ c \in Nat /\ e \in Nat /\ d <= c
      BY <1>0
    <3> QED BY <3>1, <1>5
  <2>3. Upto(c) \in SUBSET Upto(e)
    BY <2>2
  <2>4. IsFiniteSet(Upto(e)) /\ Cardinality(Upto(e)) \in Nat /\ Cardinality(Upto(c)) \in Nat
    BY <1>1
  <2> HIDE DEF Upto
  <2>5. Cardinality(Upto(c)) <= Cardinality(Upto(e)) /\ Cardinality(Upto(c)) # Cardinality(Upto(e))
    BY <2>1, <2>3, <2>4, FS_Subset
  <2> QED BY <2>4, <2>5
<1>6. ASSUME NEW e \in cs, c < e, \A d \in cs : d > c => e <= d
      PROVE  Cardinality(Upto(e)) = Cardinality(Upto(c)) + 1
  <2>1. Upto(e) = Upto(c) \cup {e}
    <3>1. ASSUME NEW d \in cs PROVE d <= e <=> d <= c \/ d = e
      <4>1. d \in Nat /\ c \in Nat /\ e \in Nat
        BY <1>0
      <4> QED BY <4>1, <1>6
    <3> QED BY <3>1
  <2>2. e \notin Upto(c)
    BY <1>6, <1>0
  <2> HIDE DEF Upto
  <2> QED BY <2>1, <2>2, <1>1, FS_AddElement
<1> HIDE DEF Upto
<1>7. \A e \in cs : Place(cs, e) = Cardinality(Upto(e))
  BY DEF Place, Upto
<1> QED BY <1>0, <1>1, <1>2, <1>3, <1>4, <1>5, <1>6, <1>7
LEMMA WalkFacts ==
  ASSUME NEW l, NEW cs, Lists(l, cs)
  PROVE  /\ Walk(l) \in Seq(cs) /\ Len(Walk(l)) = Cardinality(cs)
         /\ Range(Walk(l)) = cs
         /\ \A i \in 2..Len(Walk(l)) :
              /\ Walk(l)[i - 1] < Walk(l)[i]
              /\ l.prev[Walk(l)[i]] \in {Walk(l)[i - 1], None}
         /\ Walk(l) # <<>> => l.prev[Walk(l)[1]] = None
<1> DEFINE n == Cardinality(Channel)
           k == Cardinality(cs)
           w == Walk(l)
<1>0. /\ cs \in SUBSET Channel /\ Channel \subseteq Nat /\ None \notin Channel
      /\ n \in Nat /\ IsFiniteSet(cs) /\ k \in Nat /\ k <= n
      /\ cs = {} <=> k = 0
  BY ChannelFacts, FS_Subset, FS_CardinalityType, FS_EmptySet DEF Lists
<1>1. PICK f : /\ Walking(f, n, l)
               /\ w = SubSeq(f, 1, Cardinality({i \in 1..n : f[i] # None}))
  BY WalkIs
<1>2. \A i \in 1..n : f[i] = IF i = 1 THEN l.start
                             ELSE IF f[i - 1] = None THEN None ELSE l.next[f[i - 1]]
  BY <1>1 DEF Walking
<1>3. \A c \in cs : Follows(l, cs, c) /\ Precedes(l, cs, c)
  BY DEF Lists
<1> DEFINE At(i) == IF f[i] = None THEN i > k ELSE f[i] \in cs /\ Place(cs, f[i]) = i
<1>4. \A i \in 1..n : At(i)
  <2> DEFINE T == {i \in 1..n : ~ At(i)}
  <2>1. SUFFICES ASSUME T # {} PROVE FALSE
    OBVIOUS
  <2>2. PICK m \in T : \A i \in T : m <= i
    <3>1. T \in SUBSET Nat
      BY <1>0
    <3> HIDE DEF T
    <3> QED BY <3>1, <2>1, LeastOf
  <2>3. m \in 1..n /\ m \in Nat /\ m - 1 \in Nat /\ ~ At(m)
    BY <2>2, <1>0
  <2>4. CASE m = 1
    <3>1. f[m] = l.start
      BY <2>3, <2>4, <1>2
    <3>2. CASE cs = {}
      BY <3>1, <3>2, <2>3, <2>4, <1>0 DEF Lists, Starts
    <3>3. CASE cs # {}
      <4>1. f[m] \in cs /\ f[m] # None /\ \A d \in cs : f[m] <= d
        BY <3>1, <3>3, <1>0 DEF Lists, Starts
      <4>2. Place(cs, f[m]) = 1
        BY <4>1, <1>0, PlaceFacts
      <4> QED BY <4>1, <4>2, <2>3, <2>4
    <3> QED BY <3>2, <3>3
  <2>5. CASE m # 1
    <3>1. m - 1 \in 1..n /\ m - 1 \notin T /\ At(m - 1)
      BY <2>2, <2>3, <2>5, <1>0
    <3>2. f[m] = IF f[m - 1] = None THEN None ELSE l.next[f[m - 1]]
      BY <2>3, <2>5, <1>2
    <3>3. CASE f[m - 1] = None
      BY <3>1, <3>2, <3>3, <2>3, <1>0
    <3>4. CASE f[m - 1] # None
      <4> DEFINE c == f[m - 1]
      <4>1. c \in cs /\ Place(cs, c) = m - 1 /\ f[m] = l.next[c] /\ Follows(l, cs, c)
        BY <3>1, <3>2, <3>4, <1>3
      <4> HIDE DEF c
      <4>2. CASE l.next[c] = None /\ \A d \in cs : d <= c
        <5>1. m - 1 = k
          BY <4>1, <4>2, <1>0, PlaceFacts
        <5> QED BY <5>1, <4>1, <4>2, <2>3, <1>0
      <4>3. CASE /\ l.next[c] \in cs /\ l.next[c] > c
                 /\ \A d \in cs : d > c => l.next[c] <= d
        <5> DEFINE e == l.next[c]
        <5>1. e \in cs /\ c < e /\ e # None /\ c \in Nat /\ e \in Nat
          BY <4>1, <4>3, <1>0
        <5>2. Place(cs, e) = Place(cs, c) + 1
          BY <5>1, <4>1, <4>3, <1>0, PlaceFacts
        <5> QED BY <5>1, <5>2, <4>1, <2>3
      <4> QED BY <4>1, <4>2, <4>3 DEF Follows
    <3> QED BY <3>3, <3>4
  <2> QED BY <2>4, <2>5
<1>5. \A i \in 1..n : f[i] # None <=> i \in 1..k
  <2> TAKE i \in 1..n
  <2>1. CASE f[i] = None
    BY <2>1, <1>4, <1>0
  <2>2. CASE f[i] # None
    <3>1. f[i] \in cs /\ Place(cs, f[i]) = i
      BY <2>2, <1>4
    <3>2. Place(cs, f[i]) \in 1..k
      BY <3>1, <1>0, PlaceFacts
    <3> QED BY <2>2, <3>1, <3>2
  <2> QED BY <2>1, <2>2
<1>6. \A i \in 1..k : f[i] \in cs /\ Place(cs, f[i]) = i
  BY <1>4, <1>5, <1>0
<1>7. w \in Seq(cs) /\ Len(w) = k /\ \A i \in 1..k : w[i] = f[i]
  <2>1. {i \in 1..n : f[i] # None} = 1..k
    BY <1>5, <1>0
  <2>2. Cardinality(1..k) = k
    BY <1>0, FS_Interval
  <2>3. w = SubSeq(f, 1, k)
    BY <1>1, <2>1, <2>2
  <2>4. SubSeq(f, 1, k) = [i \in 1..k |-> f[i]]
    <3>1. f \in Seq(Channel \cup {None}) /\ Len(f) = n
      <4>1. \A i \in 1..n : f[i] \in Channel \cup {None}
        BY <1>4, <1>0
      <4>2. f = [i \in 1..n |-> f[i]]
        BY <1>1 DEF Walking
      <4> HIDE DEF n
      <4>3. f \in [1..n -> Channel \cup {None}]
        BY <4>1, <4>2
      <4> QED BY <4>3, <1>0
    <3> QED BY <3>1, <1>0
  <2> QED BY <2>3, <2>4, <1>6, <1>0
<1> HIDE DEF w, k, n, At
<1>8. Range(w) = cs
  <2>1. DOMAIN w = 1..k
    BY <1>7, <1>0
  <2>2. ASSUME NEW c \in cs PROVE \E i \in 1..k : w[i] = c
    <3> DEFINE i == Place(cs, c)
    <3>1. i \in 1..k
      BY <1>0, PlaceFacts DEF k
    <3>2. f[i] \in cs /\ Place(cs, f[i]) = i
      BY <3>1, <1>6
    <3>3. f[i] \in Nat /\ c \in Nat
      BY <3>2, <1>0
    <3>4. ~ (f[i] < c) /\ ~ (c < f[i])
      <4>1. Place(cs, c) \in Nat
        BY <3>1, <1>0
      <4>2. f[i] < c => Place(cs, f[i]) < Place(cs, c)
        BY <3>2, <1>0, PlaceFacts
      <4>3. c < f[i] => Place(cs, c) < Place(cs, f[i])
        BY <3>2, <1>0, PlaceFacts
      <4> QED BY <4>1, <4>2, <4>3, <3>2
    <3>5. f[i] = c
      BY <3>3, <3>4
    <3> QED BY <3>1, <3>5, <1>7
  <2> QED BY <2>1, <2>2, <1>7, <1>6 DEF Range
<1>9. ASSUME NEW i \in 2..k
      PROVE  w[i - 1] < w[i] /\ l.prev[w[i]] \in {w[i - 1], None}
  <2>1. /\ i \in 1..n /\ i - 1 \in 1..n /\ i # 1 /\ i \in 1..k /\ i - 1 \in 1..k
    BY <1>0
  <2> DEFINE c == f[i - 1]
             e == f[i]
  <2>2. c \in cs /\ e \in cs /\ c # None /\ e # None /\ w[i - 1] = c /\ w[i] = e
    BY <2>1, <1>0, <1>6, <1>7
  <2>3. e = l.next[c]
    BY <2>1, <2>2, <1>2
  <2> HIDE DEF c, e
  <2>4. e > c /\ \A d \in cs : d > c => e <= d
    BY <2>2, <2>3, <1>3 DEF Follows
  <2>5. c \in Nat /\ e \in Nat /\ cs \subseteq Nat
    BY <2>2, <1>0
  <2>6. l.prev[e] # None => l.prev[e] = c
    <3>1. SUFFICES ASSUME l.prev[e] # None PROVE l.prev[e] = c
      OBVIOUS
    <3>2. l.prev[e] \in cs /\ l.prev[e] < e /\ \A d \in cs : d < e => d <= l.prev[e]
      BY <3>1, <2>2, <1>3 DEF Precedes
    <3>3. l.prev[e] \in Nat /\ c <= l.prev[e]
      BY <3>2, <2>2, <2>4, <2>5
    <3>4. ~ (l.prev[e] > c)
      BY <3>2, <3>3, <2>4, <2>5
    <3> QED BY <3>3, <3>4, <2>5
  <2> QED BY <2>2, <2>4, <2>5, <2>6
<1>10. ASSUME w # <<>> PROVE l.prev[w[1]] = None
  <2>1. 1 \in 1..k /\ 1 \in 1..n
    BY <1>7, <1>10, <1>0, EmptySeq
  <2>2. w[1] = l.start /\ w[1] \in cs
    BY <2>1, <1>2, <1>6, <1>7
  <2>3. \A d \in cs : w[1] <= d
    BY <2>2 DEF Lists, Starts
  <2>4. ASSUME l.prev[w[1]] \in cs, l.prev[w[1]] < w[1] PROVE FALSE
    <3>1. l.prev[w[1]] \in Nat /\ w[1] \in Nat /\ w[1] <= l.prev[w[1]]
      BY <2>2, <2>3, <2>4, <1>0
    <3> QED BY <3>1, <2>4
  <2> QED BY <2>2, <2>4, <1>3 DEF Precedes
<1> QED BY <1>7, <1>8, <1>9, <1>10 DEF w, k
(***************************************************************************)
(* What linking and unlinking do to a list.                                *)
(***************************************************************************)
LEMMA EmptyLists == Lists(Empty, {})
  BY DEF Lists, Starts, Empty, List

LEMMA LinkedLists ==
  ASSUME NEW cs \in SUBSET Channel PROVE Lists(Linked(cs), cs)
<1> DEFINE l == Linked(cs)
           later(c) == {d \in cs : d > c}
           earlier(c) == {d \in cs : d < c}
<1>1. ASSUME NEW c \in cs
      PROVE  /\ later(c) \in SUBSET Channel /\ earlier(c) \in SUBSET Channel
             /\ c \in Channel /\ c \in Nat
  BY ChannelFacts
<1>2. /\ cs # {} => Min(cs) \in cs /\ \A d \in cs : Min(cs) <= d
      /\ \A c \in cs : later(c) # {} =>
           Min(later(c)) \in later(c) /\ \A d \in later(c) : Min(later(c)) <= d
      /\ \A c \in cs : earlier(c) # {} =>
           Max(earlier(c)) \in earlier(c) /\ \A d \in earlier(c) : d <= Max(earlier(c))
  BY <1>1, MinFacts, MaxFacts
<1>3. /\ l.start = IF cs = {} THEN None ELSE Min(cs)
      /\ l.next = [c \in Channel |-> IF c \in cs /\ later(c) # {} THEN Min(later(c)) ELSE None]
      /\ l.prev = [c \in Channel |-> IF c \in cs /\ earlier(c) # {} THEN Max(earlier(c)) ELSE None]
      /\ l = [start |-> l.start, next |-> l.next, prev |-> l.prev]
  BY DEF Linked
<1>4. l \in List
  <2>1. l.start \in Channel \cup {None}
    BY <1>2, <1>3
  <2>2. \A c \in cs : later(c) # {} => Min(later(c)) \in Channel
    BY <1>1, <1>2
  <2>3. \A c \in cs : earlier(c) # {} => Max(earlier(c)) \in Channel
    BY <1>1, <1>2
  <2> HIDE DEF l, later, earlier
  <2>4. l.next \in [Channel -> Channel \cup {None}]
    BY <2>2, <1>3
  <2>5. l.prev \in [Channel -> Channel \cup {None}]
    BY <2>3, <1>3
  <2> QED BY <2>1, <2>4, <2>5, <1>3 DEF List
<1>5. Starts(l, cs)
  BY <1>2, <1>3 DEF Starts
<1> HIDE DEF l
<1>6. ASSUME NEW c \in cs PROVE Follows(l, cs, c) /\ Precedes(l, cs, c)
  <2>1. ASSUME later(c) = {} PROVE Follows(l, cs, c)
    <3>1. l.next[c] = None
      BY <2>1, <1>3, <1>1
    <3>2. ASSUME NEW d \in cs PROVE d <= c
      <4>1. d \in Nat /\ c \in Nat /\ ~ (d > c)
        BY <2>1, <1>1, ChannelFacts
      <4> QED BY <4>1
    <3> QED BY <3>1, <3>2 DEF Follows
  <2>2. ASSUME later(c) # {} PROVE Follows(l, cs, c)
    <3>1. l.next[c] = Min(later(c))
      BY <2>2, <1>3, <1>1
    <3>2. Min(later(c)) \in later(c) /\ \A d \in later(c) : Min(later(c)) <= d
      BY <2>2, <1>2
    <3> QED BY <3>1, <3>2 DEF Follows
  <2>3. Follows(l, cs, c)
    BY <2>1, <2>2
  <2>4. ASSUME earlier(c) = {} PROVE Precedes(l, cs, c)
    BY <2>4, <1>3, <1>1 DEF Precedes
  <2>5. ASSUME earlier(c) # {} PROVE Precedes(l, cs, c)
    <3>1. l.prev[c] = Max(earlier(c))
      BY <2>5, <1>3, <1>1
    <3>2. Max(earlier(c)) \in earlier(c) /\ \A d \in earlier(c) : d <= Max(earlier(c))
      BY <2>5, <1>2
    <3> QED BY <3>1, <3>2 DEF Precedes
  <2> QED BY <2>3, <2>4, <2>5
<1> QED BY <1>4, <1>5, <1>6 DEF Lists, l

LEMMA LinkInLists ==
  ASSUME NEW l, NEW cs, Lists(l, cs), NEW c \in Channel \ cs
  PROVE  Lists(LinkIn(l, c), cs \cup {c})
<1> DEFINE k == LinkIn(l, c)
           ds == cs \cup {c}
<1>0. /\ cs \in SUBSET Channel /\ Channel \subseteq Nat /\ None \notin Channel
      /\ c \in Channel /\ c \notin cs /\ c \in Nat /\ cs \subseteq Nat
      /\ l \in List
  BY ChannelFacts DEF Lists
<1>1. /\ l.start \in Channel \cup {None}
      /\ l.next \in [Channel -> Channel \cup {None}]
      /\ l.prev \in [Channel -> Channel \cup {None}]
      /\ l = [start |-> l.start, next |-> l.next, prev |-> l.prev]
  BY <1>0 DEF List
<1>2. \A d \in cs : Follows(l, cs, d) /\ Precedes(l, cs, d)
  BY DEF Lists
<1>3. Starts(l, cs)
  BY DEF Lists
<1>4. CASE l.start = None \/ l.start > c
  <2>1. \A d \in cs : c < d
    <3> TAKE d \in cs
    <3>1. l.start \in cs /\ l.start <= d
      BY <1>3 DEF Starts
    <3>2. l.start > c /\ l.start \in Nat /\ d \in Nat
      BY <3>1, <1>4, <1>0
    <3> QED BY <3>1, <3>2, <1>0
  <2>2. /\ k.start = c
        /\ k.next = [l.next EXCEPT ![c] = l.start]
        /\ k.prev = [l.prev EXCEPT ![c] = None]
        /\ k = [start |-> k.start, next |-> k.next, prev |-> k.prev]
    BY <1>1, <1>4 DEF LinkIn
  <2> HIDE DEF k
  <2>3. k \in List
    BY <2>2, <1>1, <1>0 DEF List
  <2>4. Starts(k, ds)
    BY <2>1, <2>2, <1>0 DEF Starts
  <2>5. Follows(k, ds, c)
    <3>1. k.next[c] = l.start
      BY <2>2, <1>0, <1>1
    <3>2. CASE cs = {}
      BY <3>1, <3>2, <1>3, <1>0 DEF Starts, Follows
    <3>3. CASE cs # {}
      <4>1. l.start \in cs /\ \A d \in cs : l.start <= d
        BY <3>3, <1>3 DEF Starts
      <4>2. l.start \in Nat /\ c < l.start
        BY <4>1, <2>1, <1>0
      <4>3. \A d \in ds : d > c => l.start <= d
        BY <4>1, <1>0
      <4>4. l.start \in ds /\ l.start > c
        BY <4>1, <4>2, <1>0
      <4> QED BY <3>1, <4>3, <4>4 DEF Follows
    <3> QED BY <3>2, <3>3
  <2>6. Precedes(k, ds, c)
    BY <2>2, <1>0, <1>1 DEF Precedes
  <2>7. ASSUME NEW d \in cs PROVE Follows(k, ds, d) /\ Precedes(k, ds, d)
    <3>1. k.next[d] = l.next[d] /\ k.prev[d] = l.prev[d]
      BY <2>2, <1>0, <1>1
    <3>2. c < d /\ d \in Nat
      BY <2>1, <1>0
    <3>3. Follows(k, ds, d)
      BY <3>1, <3>2, <1>2, <1>0 DEF Follows
    <3>4. Precedes(k, ds, d)
      <4>1. CASE l.prev[d] = None
        BY <4>1, <3>1 DEF Precedes
      <4>2. CASE l.prev[d] # None
        <5>1. l.prev[d] \in cs /\ l.prev[d] < d /\ \A e \in cs : e < d => e <= l.prev[d]
          BY <4>2, <1>2 DEF Precedes
        <5>2. c < l.prev[d] /\ l.prev[d] \in Nat
          BY <5>1, <2>1, <1>0
        <5>3. \A e \in ds : e < d => e <= l.prev[d]
          BY <5>1, <5>2, <1>0
        <5> QED BY <5>1, <5>3, <3>1 DEF Precedes
      <4> QED BY <4>1, <4>2
    <3> QED BY <3>3, <3>4
  <2>8. ds \in SUBSET Channel
    BY <1>0
  <2>9. Lists(k, ds)
    BY <2>3, <2>4, <2>5, <2>6, <2>7, <2>8 DEF Lists
  <2> QED BY <2>9 DEF k
<1>5. CASE ~ (l.start = None \/ l.start > c)
  <2> DEFINE before == {d \in cs : d < c}
             scan == Max(before)
             after == l.next[scan]
  <2>1. l.start \in cs /\ l.start < c /\ l.start \in Nat
    <3>1. cs # {}
      BY <1>5, <1>3 DEF Starts
    <3>2. l.start \in cs
      BY <3>1, <1>3 DEF Starts
    <3>3. l.start \in Nat /\ l.start # c /\ ~ (l.start > c)
      BY <3>2, <1>5, <1>0
    <3> QED BY <3>2, <3>3, <1>0
  <2>2. scan \in before /\ \A d \in before : d <= scan
    <3>1. before \in SUBSET Channel /\ before # {}
      BY <2>1, <1>0
    <3> HIDE DEF before
    <3> QED BY <3>1, MaxFacts
  <2>3. On(l) = cs
    BY WalkFacts DEF On
  <2>4. /\ k.start = l.start
        /\ k.next = [l.next EXCEPT ![c] = after, ![scan] = c]
        /\ k.prev = [d \in Channel |-> IF d = c THEN scan
                                       ELSE IF d = after THEN c ELSE l.prev[d]]
        /\ k = [start |-> k.start, next |-> k.next, prev |-> k.prev]
    BY <2>3, <1>1, <1>5 DEF LinkIn
  <2> HIDE DEF k, scan
  <2>5. /\ scan \in cs /\ scan < c /\ scan \in Channel /\ scan \in Nat /\ scan # c
        /\ \A d \in cs : d < c => d <= scan
    BY <2>2, <1>0
  <2>6. \/ after = None /\ \A d \in cs : d <= scan
        \/ after \in cs /\ after > c /\ \A d \in cs : d > scan => after <= d
    <3>1. Follows(l, cs, scan)
      BY <2>5, <1>2
    <3>2. ASSUME after \in cs, after > scan, \A d \in cs : d > scan => after <= d
          PROVE  after > c
      <4>1. after \in Nat /\ after # c
        BY <3>2, <1>0
      <4>2. ~ (after < c)
        BY <3>2, <2>5, <4>1
      <4> QED BY <4>1, <4>2, <1>0
    <3> QED BY <3>1, <3>2 DEF Follows
  <2> HIDE DEF after, before
  <2>7. after \in Channel \cup {None}
    BY <2>6, <1>0
  <2>8. k \in List
    BY <2>4, <2>5, <2>7, <1>1, <1>0 DEF List
  <2>9. Starts(k, ds)
    <3>1. \A d \in cs : l.start <= d
      BY <2>1, <1>3 DEF Starts
    <3> QED BY <3>1, <2>1, <2>4, <1>0 DEF Starts
  <2>10. Follows(k, ds, c)
    <3>1. k.next[c] = after
      BY <2>4, <2>5, <1>0, <1>1
    <3>2. CASE after = None /\ \A d \in cs : d <= scan
      <4>1. \A d \in ds : d <= c
        BY <3>2, <2>5, <1>0
      <4> QED BY <3>1, <3>2, <4>1 DEF Follows
    <3>3. CASE after \in cs /\ after > c /\ \A d \in cs : d > scan => after <= d
      <4>1. \A d \in ds : d > c => after <= d
        BY <3>3, <2>5, <1>0
      <4> QED BY <3>1, <3>3, <4>1 DEF Follows
    <3> QED BY <2>6, <3>2, <3>3
  <2>11. Precedes(k, ds, c)
    <3>1. k.prev[c] = scan
      BY <2>4, <1>0
    <3>2. \A d \in ds : d < c => d <= scan
      BY <2>5, <1>0
    <3> QED BY <3>1, <3>2, <2>5 DEF Precedes
  <2>12. ASSUME NEW d \in cs PROVE Follows(k, ds, d)
    <3>0. d \in Nat /\ d \in Channel /\ d # c
      BY <1>0
    <3>1. CASE d = scan
      <4>1. k.next[d] = c
        BY <3>1, <2>4, <2>5, <1>1
      <4>2. \A e \in ds : e > d => c <= e
        BY <3>1, <2>5, <1>0
      <4> QED BY <4>1, <4>2, <3>1, <2>5 DEF Follows
    <3>2. CASE d # scan
      <4>1. k.next[d] = l.next[d] /\ Follows(l, cs, d)
        BY <3>0, <3>2, <2>4, <1>1, <1>2
      <4>2. CASE l.next[d] = None /\ \A e \in cs : e <= d
        <5>1. d > c
          <6>1. scan <= d
            BY <4>2, <2>5
          <6>2. d > scan
            BY <6>1, <3>0, <3>2, <2>5
          <6> QED BY <6>2, <3>0, <2>5, <1>0
        <5>2. \A e \in ds : e <= d
          BY <4>2, <5>1, <3>0, <1>0
        <5> QED BY <4>1, <4>2, <5>2 DEF Follows
      <4>3. CASE l.next[d] \in cs /\ l.next[d] > d /\ \A e \in cs : e > d => l.next[d] <= e
        <5>1. ASSUME d < c PROVE l.next[d] <= c
          <6>1. d <= scan /\ scan > d
            BY <5>1, <2>5, <3>0, <3>2
          <6>2. l.next[d] <= scan /\ l.next[d] \in Nat
            BY <6>1, <4>3, <2>5, <1>0
          <6> QED BY <6>2, <2>5, <1>0
        <5>2. \A e \in ds : e > d => l.next[d] <= e
          BY <4>3, <5>1, <3>0, <1>0
        <5> QED BY <4>1, <4>3, <5>2 DEF Follows
      <4> QED BY <4>1, <4>2, <4>3 DEF Follows
    <3> QED BY <3>1, <3>2
  <2>13. ASSUME NEW d \in cs PROVE Precedes(k, ds, d)
    <3>0. d \in Nat /\ d \in Channel /\ d # c
      BY <1>0
    <3>1. CASE d = after
      <4>1. k.prev[d] = c
        BY <3>0, <3>1, <2>4
      <4>2. d > c /\ \A e \in cs : e > scan => d <= e
        BY <3>1, <3>0, <2>6, <1>0
      <4>3. ASSUME NEW e \in ds, e < d PROVE e <= c
        <5>1. CASE e = c
          BY <5>1, <1>0
        <5>2. CASE e \in cs
          <6>1. e \in Nat /\ ~ (e > scan)
            BY <5>2, <4>2, <4>3, <3>0, <1>0
          <6> QED BY <6>1, <2>5, <1>0
        <5> QED BY <5>1, <5>2
      <4> QED BY <4>1, <4>2, <4>3 DEF Precedes
    <3>2. CASE d # after
      <4>1. k.prev[d] = l.prev[d] /\ Precedes(l, cs, d)
        BY <3>0, <3>2, <2>4, <1>2
      <4>2. CASE l.prev[d] = None
        BY <4>1, <4>2 DEF Precedes
      <4>3. CASE l.prev[d] \in cs /\ l.prev[d] < d /\ \A e \in cs : e < d => e <= l.prev[d]
        <5>0. l.prev[d] \in Nat
          BY <4>3, <1>0
        <5>1. ASSUME c < d PROVE c <= l.prev[d]
          <6>1. after \in cs /\ after > c /\ after <= d
            <7>1. d > scan
              BY <5>1, <3>0, <2>5, <1>0
            <7>2. ~ (\A e \in cs : e <= scan)
              BY <7>1, <3>0, <2>5
            <7> QED BY <7>1, <7>2, <2>6
          <6>2. after < d /\ after \in Nat
            BY <6>1, <3>0, <3>2, <1>0
          <6>3. after <= l.prev[d]
            BY <6>1, <6>2, <4>3
          <6> QED BY <6>1, <6>2, <6>3, <5>0, <1>0
        <5>2. \A e \in ds : e < d => e <= l.prev[d]
          BY <4>3, <5>1
        <5> QED BY <4>1, <4>3, <5>2 DEF Precedes
      <4> QED BY <4>1, <4>2, <4>3 DEF Precedes
    <3> QED BY <3>1, <3>2
  <2>14. ds \in SUBSET Channel
    BY <1>0
  <2>15. Lists(k, ds)
    BY <2>8, <2>9, <2>10, <2>11, <2>12, <2>13, <2>14 DEF Lists
  <2> QED BY <2>15 DEF k
<1> QED BY <1>4, <1>5
LEMMA UnlinkLists ==
  ASSUME NEW l, NEW cs, Lists(l, cs), NEW c \in cs, ~ Stale(l, c)
  PROVE  Lists(Unlink(l, c), cs \ {c})
<1> DEFINE k == Unlink(l, c)
           ds == cs \ {c}
           before == l.prev[c]
           after == l.next[c]
<1>0. /\ cs \in SUBSET Channel /\ Channel \subseteq Nat /\ None \notin Channel
      /\ c \in Channel /\ c \in Nat /\ cs \subseteq Nat /\ l \in List
      /\ ds \in SUBSET Channel /\ c \notin ds
  BY ChannelFacts DEF Lists
<1>1. /\ l.start \in Channel \cup {None}
      /\ l.next \in [Channel -> Channel \cup {None}]
      /\ l.prev \in [Channel -> Channel \cup {None}]
  BY <1>0 DEF List
<1>2. \A d \in cs : Follows(l, cs, d) /\ Precedes(l, cs, d)
  BY DEF Lists
<1>3. l.start \in cs /\ \A d \in cs : l.start <= d
  BY DEF Lists, Starts
<1>4. /\ k.start = IF before = None THEN after ELSE l.start
      /\ k.next = [d \in Channel |-> IF d = c THEN None
                                     ELSE IF d = before THEN after ELSE l.next[d]]
      /\ k.prev = [d \in Channel |-> IF d = c THEN None
                                     ELSE IF d = after THEN before ELSE l.prev[d]]
      /\ k = [start |-> k.start, next |-> k.next, prev |-> k.prev]
  BY DEF Unlink
<1>5. \/ before = None /\ l.start = c
      \/ before \in cs /\ before < c /\ \A d \in cs : d < c => d <= before
  BY <1>2 DEF Stale, Precedes
<1>6. \/ after = None /\ \A d \in cs : d <= c
      \/ after \in cs /\ after > c /\ \A d \in cs : d > c => after <= d
  BY <1>2 DEF Follows
<1> HIDE DEF k, ds, before, after
<1>7. k \in List
  <2>1. before \in Channel \cup {None} /\ after \in Channel \cup {None}
    BY <1>5, <1>6, <1>0
  <2> QED BY <2>1, <1>1, <1>4 DEF List
<1>8. Starts(k, ds)
  <2>1. CASE before = None
    <3>1. k.start = after /\ l.start = c
      BY <2>1, <1>4, <1>5, <1>0
    <3>2. ASSUME NEW d \in ds PROVE d > c
      <4>1. d \in cs /\ d # c /\ c <= d /\ d \in Nat
        BY <3>1, <1>3, <1>0 DEF ds
      <4> QED BY <4>1, <1>0
    <3>3. CASE after = None /\ \A d \in cs : d <= c
      <4>1. ds = {}
        <5>1. ASSUME NEW d \in ds PROVE FALSE
          <6>1. d > c /\ d <= c /\ d \in Nat
            BY <3>2, <3>3, <1>0 DEF ds
          <6> QED BY <6>1, <1>0
        <5> QED BY <5>1
      <4> QED BY <4>1, <3>1, <3>3 DEF Starts
    <3>4. CASE after \in cs /\ after > c /\ \A d \in cs : d > c => after <= d
      <4>1. after \in ds
        BY <3>4, <1>0 DEF ds
      <4>2. \A d \in ds : after <= d
        BY <3>2, <3>4 DEF ds
      <4> QED BY <4>1, <4>2, <3>1 DEF Starts
    <3> QED BY <1>6, <3>3, <3>4
  <2>2. CASE before # None
    <3>1. before \in cs /\ before < c
      BY <2>2, <1>5
    <3>2. l.start <= before /\ l.start \in Nat /\ before \in Nat
      BY <3>1, <1>3, <1>0
    <3>3. l.start # c
      BY <3>1, <3>2, <1>0
    <3>4. k.start = l.start /\ l.start \in ds
      BY <3>3, <2>2, <1>3, <1>4 DEF ds
    <3>5. \A d \in ds : l.start <= d
      BY <1>3 DEF ds
    <3> QED BY <3>4, <3>5 DEF Starts
  <2> QED BY <2>1, <2>2
<1>9. ASSUME NEW d \in ds PROVE Follows(k, ds, d)
  <2>0. d \in cs /\ d # c /\ d \in Nat /\ d \in Channel
    BY <1>0 DEF ds
  <2>1. CASE d = before
    <3>1. k.next[d] = after /\ d < c
      BY <2>0, <2>1, <1>4, <1>5, <1>0
    <3>2. CASE after = None /\ \A e \in cs : e <= c
      <4>1. ASSUME NEW e \in ds PROVE e <= d
        <5>1. e \in cs /\ e # c /\ e <= c /\ e \in Nat
          BY <3>2, <1>0 DEF ds
        <5>2. e < c
          BY <5>1, <1>0
        <5> QED BY <5>1, <5>2, <2>0, <2>1, <1>5, <1>0
      <4> QED BY <3>1, <3>2, <4>1 DEF Follows
    <3>3. CASE after \in cs /\ after > c /\ \A e \in cs : e > c => after <= e
      <4>1. after \in ds /\ after \in Nat /\ after > d
        BY <3>1, <3>3, <2>0, <1>0 DEF ds
      <4>2. ASSUME NEW e \in ds, e > d PROVE after <= e
        <5>1. e \in cs /\ e # c /\ e \in Nat
          BY <1>0 DEF ds
        <5>2. ~ (e < c)
          BY <5>1, <4>2, <2>0, <2>1, <1>5, <1>0
        <5>3. e > c
          BY <5>1, <5>2, <1>0
        <5> QED BY <5>1, <5>3, <3>3
      <4> QED BY <3>1, <4>1, <4>2 DEF Follows
    <3> QED BY <1>6, <3>2, <3>3
  <2>2. CASE d # before
    <3>1. k.next[d] = l.next[d] /\ Follows(l, cs, d)
      BY <2>0, <2>2, <1>2, <1>4
    <3>2. CASE l.next[d] = None /\ \A e \in cs : e <= d
      <4>1. \A e \in ds : e <= d
        BY <3>2 DEF ds
      <4> QED BY <3>1, <3>2, <4>1 DEF Follows
    <3>3. CASE l.next[d] \in cs /\ l.next[d] > d /\ \A e \in cs : e > d => l.next[d] <= e
      <4>1. l.next[d] # c
        <5>1. SUFFICES ASSUME l.next[d] = c PROVE FALSE
          OBVIOUS
        <5>2. d < c
          BY <5>1, <3>3, <2>0, <1>0
        <5>3. CASE before = None /\ l.start = c
          <6>1. c <= d
            BY <5>3, <1>3, <2>0
          <6> QED BY <6>1, <5>2, <2>0, <1>0
        <5>4. CASE before \in cs /\ before < c /\ \A e \in cs : e < c => e <= before
          <6>1. d <= before /\ before \in Nat
            BY <5>2, <5>4, <2>0, <1>0
          <6>2. before > d
            BY <6>1, <2>0, <2>2
          <6>3. c <= before
            BY <6>2, <5>1, <5>4, <3>3
          <6> QED BY <6>1, <6>3, <5>4, <1>0
        <5> QED BY <1>5, <5>3, <5>4
      <4>2. l.next[d] \in ds /\ \A e \in ds : e > d => l.next[d] <= e
        BY <4>1, <3>3 DEF ds
      <4> QED BY <3>1, <3>3, <4>2 DEF Follows
    <3> QED BY <3>1, <3>2, <3>3 DEF Follows
  <2> QED BY <2>1, <2>2
<1>10. ASSUME NEW d \in ds PROVE Precedes(k, ds, d)
  <2>0. d \in cs /\ d # c /\ d \in Nat /\ d \in Channel
    BY <1>0 DEF ds
  <2>1. CASE d = after
    <3>1. k.prev[d] = before /\ d > c /\ \A e \in cs : e > c => d <= e
      BY <2>0, <2>1, <1>4, <1>6, <1>0
    <3>2. CASE before = None
      BY <3>1, <3>2 DEF Precedes
    <3>3. CASE before \in cs /\ before < c /\ \A e \in cs : e < c => e <= before
      <4>1. before \in ds /\ before \in Nat /\ before < d
        BY <3>1, <3>3, <2>0, <1>0 DEF ds
      <4>2. ASSUME NEW e \in ds, e < d PROVE e <= before
        <5>1. e \in cs /\ e # c /\ e \in Nat
          BY <1>0 DEF ds
        <5>2. ~ (e > c)
          BY <5>1, <4>2, <3>1, <2>0
        <5>3. e < c
          BY <5>1, <5>2, <1>0
        <5> QED BY <5>1, <5>3, <3>3
      <4> QED BY <3>1, <4>1, <4>2 DEF Precedes
    <3> QED BY <1>5, <3>2, <3>3
  <2>2. CASE d # after
    <3>1. k.prev[d] = l.prev[d] /\ Precedes(l, cs, d)
      BY <2>0, <2>2, <1>2, <1>4
    <3>2. CASE l.prev[d] = None
      BY <3>1, <3>2 DEF Precedes
    <3>3. CASE l.prev[d] \in cs /\ l.prev[d] < d /\ \A e \in cs : e < d => e <= l.prev[d]
      <4>1. l.prev[d] # c
        <5>1. SUFFICES ASSUME l.prev[d] = c PROVE FALSE
          OBVIOUS
        <5>2. d > c
          BY <5>1, <3>3, <2>0, <1>0
        <5>3. after \in cs /\ after > c /\ \A e \in cs : e > c => after <= e
          <6>1. ~ (\A e \in cs : e <= c)
            BY <5>2, <2>0, <1>0
          <6> QED BY <6>1, <1>6
        <5>4. after <= d /\ after \in Nat
          BY <5>2, <5>3, <2>0, <1>0
        <5>5. after < d
          BY <5>4, <2>0, <2>2
        <5>6. after <= c
          BY <5>1, <5>3, <5>5, <3>3
        <5> QED BY <5>3, <5>4, <5>6, <1>0
      <4>2. l.prev[d] \in ds /\ \A e \in ds : e < d => e <= l.prev[d]
        BY <4>1, <3>3 DEF ds
      <4> QED BY <3>1, <3>3, <4>2 DEF Precedes
    <3> QED BY <3>1, <3>2, <3>3 DEF Precedes
  <2> QED BY <2>1, <2>2
<1>11. Lists(k, ds)
  BY <1>0, <1>7, <1>8, <1>9, <1>10 DEF Lists
<1> QED BY <1>11 DEF k, ds
----------------------------------------------------------------------------
(***************************************************************************)
(* The invariant.                                                          *)
(***************************************************************************)
\* No node is removed that has lost its prev.
Tidy == "stale" \notin Exercised

\* The channels of p.
Theirs(p) == {c \in Channel : p \in members[c]}

AllLinked == /\ Lists(bases, made)
             /\ \A p \in Player : Lists(chans[p], Theirs(p))

Peopled == \A c \in Channel : /\ members[c] \subseteq resident
                              /\ members[c] # {} => c \in made

Standing == /\ state = "up" => Kept \subseteq made
            /\ isync => timed

IInv == TypeOK /\ AllLinked /\ Peopled /\ Standing

LEMMA Visits ==
  ASSUME IInv
  PROVE  /\ On(bases) = made /\ Walk(bases) \in Seq(Channel)
         /\ Len(Walk(bases)) = Cardinality(made) /\ Range(Walk(bases)) = made
         /\ \A p \in Player : On(chans[p]) = Theirs(p)
<1>1. Lists(bases, made) /\ \A p \in Player : Lists(chans[p], Theirs(p))
  BY DEF IInv, AllLinked
<1>2. Walk(bases) \in Seq(made) /\ made \subseteq Channel
  BY <1>1, WalkFacts DEF Lists
<1>3. Walk(bases) \in Seq(Channel)
  BY <1>2, SeqMonotonic
<1>4. \A p \in Player : On(chans[p]) = Theirs(p)
  BY <1>1, WalkFacts DEF On
<1> QED BY <1>1, <1>3, <1>4, WalkFacts DEF On

\* One of a player's lists gets or loses a channel, the others do not.
LEMMA JoinedLists ==
  ASSUME IInv, NEW p \in Player, NEW c \in Channel, p \notin members[c], AddNode(p, c)
  PROVE  /\ \A q \in Player : Lists(chans'[q], Theirs(q)')
         /\ chans' \in [Player -> List] /\ members' \in [Channel -> SUBSET Player]
         /\ \A d \in Channel : members'[d] = IF d = c THEN members[c] \cup {p} ELSE members[d]
<1>0. /\ chans \in [Player -> List] /\ members \in [Channel -> SUBSET Player]
      /\ \A q \in Player : Lists(chans[q], Theirs(q))
  BY DEF IInv, TypeOK, AllLinked
<1>1. members' \in [Channel -> SUBSET Player]
  BY <1>0 DEF AddNode
<1>2. \A d \in Channel : members'[d] = IF d = c THEN members[c] \cup {p} ELSE members[d]
  BY <1>0 DEF AddNode
<1>3. chans' = [q \in Player |-> IF q = p THEN LinkIn(chans[p], c) ELSE chans[q]]
  BY <1>0 DEF AddNode
<1>4. Theirs(p)' = Theirs(p) \cup {c} /\ c \in Channel \ Theirs(p)
  BY <1>2 DEF Theirs
<1>5. \A q \in Player \ {p} : Theirs(q)' = Theirs(q)
  BY <1>2 DEF Theirs
<1> HIDE DEF Theirs
<1>6. Lists(LinkIn(chans[p], c), Theirs(p) \cup {c})
  BY <1>0, <1>4, LinkInLists
<1>7. ASSUME NEW q \in Player PROVE Lists(chans'[q], Theirs(q)')
  <2>1. CASE q = p
    BY <2>1, <1>3, <1>4, <1>6
  <2>2. CASE q # p
    BY <2>2, <1>0, <1>3, <1>5
  <2> QED BY <2>1, <2>2
<1>8. \A q \in Player : chans'[q] \in List
  BY <1>7 DEF Lists
<1> QED BY <1>1, <1>2, <1>3, <1>7, <1>8

LEMMA LeftLists ==
  ASSUME IInv, Tidy, NEW p \in Player, NEW c \in Channel, p \in members[c], DelNode(p, c)
  PROVE  /\ \A q \in Player : Lists(chans'[q], Theirs(q)')
         /\ chans' \in [Player -> List] /\ members' \in [Channel -> SUBSET Player]
         /\ \A d \in Channel : members'[d] = IF d = c THEN members[c] \ {p} ELSE members[d]
<1>0. /\ chans \in [Player -> List] /\ members \in [Channel -> SUBSET Player]
      /\ \A q \in Player : Lists(chans[q], Theirs(q))
  BY DEF IInv, TypeOK, AllLinked
<1>1. members' \in [Channel -> SUBSET Player]
  BY <1>0 DEF DelNode
<1>2. \A d \in Channel : members'[d] = IF d = c THEN members[c] \ {p} ELSE members[d]
  BY <1>0 DEF DelNode
<1>3. chans' = [q \in Player |-> IF q = p THEN Unlink(chans[p], c) ELSE chans[q]]
  BY <1>0 DEF DelNode
<1>4. Theirs(p)' = Theirs(p) \ {c} /\ c \in Theirs(p)
  BY <1>2 DEF Theirs
<1>5. \A q \in Player \ {p} : Theirs(q)' = Theirs(q)
  BY <1>2 DEF Theirs
<1>6. ~ Stale(chans[p], c)
  BY DEF DelNode, MayRemove, Tidy
<1> HIDE DEF Theirs
<1>7. Lists(Unlink(chans[p], c), Theirs(p) \ {c})
  BY <1>0, <1>4, <1>6, UnlinkLists
<1>8. ASSUME NEW q \in Player PROVE Lists(chans'[q], Theirs(q)')
  <2>1. CASE q = p
    BY <2>1, <1>3, <1>4, <1>7
  <2>2. CASE q # p
    BY <2>2, <1>0, <1>3, <1>5
  <2> QED BY <2>1, <2>2
<1>9. \A q \in Player : chans'[q] \in List
  BY <1>8 DEF Lists
<1> QED BY <1>1, <1>2, <1>3, <1>8, <1>9

\* The talker dies.
LEMMA DieIInv ==
  ASSUME IInv, NEW how \in {"down", "aborted"}, Die(how), UNCHANGED resident,
         Kept \subseteq index', index' \subseteq Channel,
         Kept \subseteq DOMAIN file', DOMAIN file' \subseteq Channel,
         \A c \in DOMAIN file' : file'[c] \subseteq Player
  PROVE  IInv'
<1>1. Lists(Empty, {})
  BY EmptyLists
<1>2. AllLinked'
  <2>1. bases' = Empty /\ made' = {} /\ \A p \in Player : chans'[p] = Empty
    BY DEF Die
  <2>2. \A p \in Player : Theirs(p)' = {}
    BY DEF Die, Theirs
  <2> QED BY <1>1, <2>1, <2>2 DEF AllLinked
<1>3. Peopled'
  BY DEF Die, Peopled
<1>4. Standing'
  BY DEF Die, Standing
<1>5. TypeOK'
  <2>1. Empty \in List
    BY <1>1 DEF Lists
  <2>2. resident' \subseteq Player
    BY DEF TypeOK, IInv
  <2>3. /\ state' \in {"up", "down", "aborted"}
        /\ made' \subseteq Channel /\ bases' \in List
        /\ members' \in [Channel -> SUBSET Player]
        /\ dirty' \subseteq Channel
        /\ isync' \in BOOLEAN /\ timed' \in BOOLEAN
    BY <2>1 DEF Die
  <2>4. redos' \in 0..Redos
    BY ChannelFacts DEF Die
  <2>5. chans' \in [Player -> List]
    BY <2>1 DEF Die
  <2> QED BY <2>2, <2>3, <2>4, <2>5 DEF TypeOK
<1> QED BY <1>2, <1>3, <1>4, <1>5 DEF IInv
----------------------------------------------------------------------------
(***************************************************************************)
(* The steps.                                                              *)
(***************************************************************************)
TimerIsRight == /\ isync \in BOOLEAN /\ timed \in BOOLEAN /\ redos \in 0..Redos
                /\ isync => timed

LEMMA TimerFacts ==
  ASSUME IInv, NotTimed \/ \E withIndex \in BOOLEAN : TimedSave(withIndex)
  PROVE  TimerIsRight'
<1>1. TimerIsRight
  BY DEF IInv, TypeOK, Standing, TimerIsRight
<1>2. CASE NotTimed
  BY <1>1, <1>2 DEF NotTimed, TimerIsRight
<1>3. ASSUME NEW withIndex \in BOOLEAN, TimedSave(withIndex) PROVE TimerIsRight'
  BY <1>1, <1>3, ChannelFacts DEF TimedSave, TimerIsRight
<1> QED BY <1>2, <1>3

\* What is common to all steps by which p gets onto channel c.
LEMMA EntersIInv ==
  ASSUME IInv, NEW p \in Player, NEW c \in Channel, p \notin members[c], AddNode(p, c),
         p \in resident', resident \subseteq resident', resident' \subseteq Player,
         Lists(bases', made'), made' = made \cup {c},
         state' = state, dirty' = dirty \cup {c}, TimerIsRight', UNCHANGED disk
  PROVE  IInv'
<1>1. /\ \A q \in Player : Lists(chans'[q], Theirs(q)')
      /\ chans' \in [Player -> List] /\ members' \in [Channel -> SUBSET Player]
      /\ \A d \in Channel : members'[d] = IF d = c THEN members[c] \cup {p} ELSE members[d]
  BY JoinedLists
<1>2. AllLinked'
  BY <1>1 DEF AllLinked
<1>3. Peopled'
  <2>1. \A d \in Channel : members[d] \subseteq resident /\ (members[d] # {} => d \in made)
    BY DEF IInv, Peopled
  <2>2. ASSUME NEW d \in Channel
        PROVE  members'[d] \subseteq resident' /\ (members'[d] # {} => d \in made')
    BY <1>1, <2>1
  <2> QED BY <2>2 DEF Peopled
<1>4. Standing'
  BY DEF IInv, Standing, TimerIsRight
<1>5. TypeOK'
  <2>1. /\ Kept \subseteq index' /\ index' \subseteq Channel
        /\ Kept \subseteq DOMAIN file' /\ DOMAIN file' \subseteq Channel
        /\ \A d \in DOMAIN file' : file'[d] \subseteq Player
        /\ state' \in {"up", "down", "aborted"} /\ dirty' \subseteq Channel
    BY DEF IInv, TypeOK, disk
  <2>2. made' \subseteq Channel /\ bases' \in List
    BY DEF Lists
  <2> QED BY <1>1, <2>1, <2>2 DEF TypeOK, TimerIsRight
<1> QED BY <1>2, <1>3, <1>4, <1>5 DEF IInv

LEMMA CreateIInv ==
  ASSUME IInv, NEW p \in Player, NEW c \in Channel, Create(p, c) PROVE IInv'
<1>1. Lists(bases', made')
  <2>1. Lists(bases, made) /\ c \in Channel \ made
    BY DEF IInv, AllLinked, Create
  <2>2. bases' = LinkIn(bases, c) /\ made' = made \cup {c}
    BY DEF Create
  <2> QED BY <2>1, <2>2, LinkInLists
<1>2. p \notin members[c]
  BY DEF Create, IInv, Peopled
<1>3. TimerIsRight'
  BY TimerFacts DEF Create
<1>4. resident' \subseteq Player /\ p \in resident'
  BY DEF Create, IInv, TypeOK
<1> QED BY <1>1, <1>2, <1>3, <1>4, EntersIInv DEF Create

LEMMA JoinIInv ==
  ASSUME IInv, NEW p \in Player, NEW c \in Channel, Join(p, c) \/ SystemAdd(p, c) PROVE IInv'
<1>1. c \in made
  BY Visits DEF Join, SystemAdd
<1>2. Lists(bases', made') /\ made' = made \cup {c}
  BY <1>1 DEF IInv, AllLinked, Join, SystemAdd
<1>3. TimerIsRight'
  BY TimerFacts DEF Join, SystemAdd
<1>4. resident' \subseteq Player /\ p \in resident /\ resident' = resident
  BY DEF Join, SystemAdd, IInv, TypeOK
<1>5. /\ p \notin members[c] /\ AddNode(p, c)
      /\ state' = state /\ dirty' = dirty \cup {c} /\ UNCHANGED disk
  BY DEF Join, SystemAdd
<1> QED BY <1>2, <1>3, <1>4, <1>5, EntersIInv

LEMMA MakeIInv == ASSUME IInv, NEW p \in Player, Make(p) PROVE IInv'
<1>1. Main \in made /\ Main \in Channel
  BY Visits, ChannelFacts DEF Make
<1>2. Lists(bases', made') /\ made' = made \cup {Main}
  BY <1>1 DEF IInv, AllLinked, Make
<1>3. TimerIsRight'
  BY TimerFacts DEF Make
<1>4. resident' \subseteq Player /\ resident \subseteq resident' /\ p \in resident'
  BY DEF Make, IInv, TypeOK
<1>5. /\ p \notin members[Main] /\ AddNode(p, Main)
      /\ state' = state /\ dirty' = dirty \cup {Main} /\ UNCHANGED disk
  BY DEF Make
<1> QED BY <1>1, <1>2, <1>3, <1>4, <1>5, EntersIInv

\* What is common to all steps by which p gets off channel c, which may go too.
LEMMA LeavesIInv ==
  ASSUME IInv, Tidy, NEW p \in Player, NEW c \in Channel, p \in members[c], DelNode(p, c),
         Lists(bases', made'), made \ {c} \subseteq made', made' \subseteq made,
         members'[c] # {} => c \in made', state = "up" => Kept \subseteq made',
         state' = state, dirty' \subseteq dirty \cup {c}, TimerIsRight', UNCHANGED <<resident, disk>>
  PROVE  IInv'
<1>1. /\ \A q \in Player : Lists(chans'[q], Theirs(q)')
      /\ chans' \in [Player -> List] /\ members' \in [Channel -> SUBSET Player]
      /\ \A d \in Channel : members'[d] = IF d = c THEN members[c] \ {p} ELSE members[d]
  BY LeftLists
<1>2. AllLinked'
  BY <1>1 DEF AllLinked
<1>3. Peopled'
  <2>1. \A d \in Channel : members[d] \subseteq resident /\ (members[d] # {} => d \in made)
    BY DEF IInv, Peopled
  <2>2. ASSUME NEW d \in Channel
        PROVE  members'[d] \subseteq resident' /\ (members'[d] # {} => d \in made')
    BY <1>1, <2>1
  <2> QED BY <2>2 DEF Peopled
<1>4. Standing'
  BY DEF IInv, Standing, TimerIsRight
<1>5. TypeOK'
  <2>1. /\ Kept \subseteq index' /\ index' \subseteq Channel
        /\ Kept \subseteq DOMAIN file' /\ DOMAIN file' \subseteq Channel
        /\ \A d \in DOMAIN file' : file'[d] \subseteq Player
        /\ state' \in {"up", "down", "aborted"} /\ dirty' \subseteq Channel
        /\ resident' \subseteq Player
    BY DEF IInv, TypeOK, disk
  <2>2. made' \subseteq Channel /\ bases' \in List
    BY DEF Lists
  <2> QED BY <1>1, <2>1, <2>2 DEF TypeOK, TimerIsRight
<1> QED BY <1>2, <1>3, <1>4, <1>5 DEF IInv

LEMMA LeaveIInv ==
  ASSUME IInv, Tidy, NEW p \in Player, NEW c \in Channel, Leave(p, c) PROVE IInv'
<1>1. /\ p \in members[c] /\ DelNode(p, c) /\ state' = state /\ state = "up"
      /\ UNCHANGED <<resident, disk>>
  BY DEF Leave
<1>2. c \in made /\ Lists(bases, made) /\ Kept \subseteq made
  BY <1>1 DEF IInv, Peopled, AllLinked, Standing
<1>3. TimerIsRight'
  BY TimerFacts DEF Leave
<1>4. CASE members'[c] # {} \/ c \in Kept
  <2>1. dirty' = dirty \cup {c} /\ made' = made /\ bases' = bases
    BY <1>4 DEF Leave
  <2> QED BY <1>1, <1>2, <1>3, <2>1, LeavesIInv
<1>5. CASE ~ (members'[c] # {} \/ c \in Kept)
  <2>1. /\ dirty' = dirty \ {c} /\ made' = made \ {c} /\ bases' = Unlink(bases, c)
        /\ MayRemove(bases, c)
    BY <1>5 DEF Leave
  <2>2. ~ Stale(bases, c)
    BY <2>1 DEF MayRemove, Tidy
  <2>3. Lists(bases', made')
    BY <1>2, <2>1, <2>2, UnlinkLists
  <2>4. Kept \subseteq made'
    BY <1>2, <1>5, <2>1
  <2> QED BY <1>1, <1>3, <1>5, <2>1, <2>3, <2>4, LeavesIInv
<1> QED BY <1>4, <1>5

LEMMA SystemDelIInv ==
  ASSUME IInv, Tidy, NEW p \in Player, NEW c \in Channel, SystemDel(p, c) PROVE IInv'
<1>1. p \in members[c]
  BY Visits DEF SystemDel, Theirs
<1>2. c \in made /\ Lists(bases', made') /\ Kept \subseteq made'
  BY <1>1 DEF IInv, Peopled, AllLinked, Standing, SystemDel
<1>3. TimerIsRight'
  BY TimerFacts DEF SystemDel
<1> QED BY <1>1, <1>2, <1>3, LeavesIInv DEF SystemDel

LEMMA BootIInv ==
  ASSUME IInv, Tidy, NEW q \in Player, NEW p \in Player, NEW c \in Channel, Boot(q, p, c) PROVE IInv'
<1>1. p \in members[c] /\ state = "up" /\ UNCHANGED <<resident, disk>>
  BY DEF Boot
<1>2. CASE Die("down")
  BY <1>1, <1>2, DieIInv DEF IInv, TypeOK, disk
<1>3. CASE /\ DelNode(p, c) /\ dirty' = dirty \cup {c}
           /\ UNCHANGED <<state, made, bases>> /\ NotTimed
  <2>1. c \in made /\ Lists(bases', made') /\ Kept \subseteq made'
    BY <1>1, <1>3 DEF IInv, Peopled, AllLinked, Standing
  <2>2. TimerIsRight'
    BY <1>3, TimerFacts
  <2> QED BY <1>1, <1>3, <2>1, <2>2, LeavesIInv
<1> QED BY <1>2, <1>3 DEF Boot
LEMMA ConfigIInv ==
  ASSUME IInv, NEW p \in Player, NEW c \in Channel, Config(p, c) PROVE IInv'
<1>1. TimerIsRight'
  BY TimerFacts DEF Config
<1>2. AllLinked'
  BY DEF Config, IInv, AllLinked, Theirs
<1>3. Peopled' /\ Standing'
  BY <1>1 DEF Config, IInv, Peopled, Standing, TimerIsRight
<1>4. TypeOK'
  BY <1>1 DEF Config, IInv, TypeOK, TimerIsRight, disk
<1> QED BY <1>2, <1>3, <1>4 DEF IInv

LEMMA PutOffIInv == ASSUME IInv, PutOff PROVE IInv'
<1>1. AllLinked'
  BY DEF PutOff, IInv, AllLinked, Theirs
<1>2. Peopled' /\ Standing'
  BY DEF PutOff, IInv, Peopled, Standing
<1>3. redos' \in 0..Redos
  BY ChannelFacts DEF PutOff, IInv, TypeOK
<1>4. TypeOK'
  BY <1>3 DEF PutOff, IInv, TypeOK, disk
<1> QED BY <1>1, <1>2, <1>4 DEF IInv

LEMMA NukeIInv == ASSUME IInv, NEW p \in Player, Nuke(p) PROVE IInv'
<1>1. On(chans[p]) = Theirs(p) /\ On(bases) = made
  BY Visits
<1>2. On(chans[p]) \subseteq On(bases)
  BY <1>1 DEF IInv, Peopled, Theirs
<1>3. /\ members' = [c \in Channel |-> members[c] \ (IF c \in Theirs(p) THEN {p} ELSE {})]
      /\ chans' = [chans EXCEPT ![p] = Empty]
      /\ dirty' = dirty \cup Theirs(p) /\ resident' = resident \ {p}
      /\ UNCHANGED <<state, made, bases, disk>> /\ NotTimed
  BY <1>1, <1>2 DEF Nuke
<1>4. /\ chans \in [Player -> List] /\ members \in [Channel -> SUBSET Player]
      /\ \A q \in Player : Lists(chans[q], Theirs(q))
  BY DEF IInv, TypeOK, AllLinked
<1>5. \A c \in Channel : members'[c] = members[c] \ {p}
  BY <1>3 DEF Theirs
<1>6. Lists(Empty, {}) /\ Empty \in List
  BY EmptyLists DEF Lists
<1>7. AllLinked'
  <2>1. ASSUME NEW q \in Player PROVE Lists(chans'[q], Theirs(q)')
    <3>1. CASE q = p
      <4>1. Theirs(q)' = {} /\ chans'[q] = Empty
        BY <3>1, <1>3, <1>4, <1>5 DEF Theirs
      <4> QED BY <4>1, <1>6
    <3>2. CASE q # p
      <4>1. Theirs(q)' = Theirs(q) /\ chans'[q] = chans[q]
        BY <3>2, <1>3, <1>4, <1>5 DEF Theirs
      <4> QED BY <4>1, <1>4
    <3> QED BY <3>1, <3>2
  <2>2. Lists(bases', made')
    BY <1>3 DEF IInv, AllLinked
  <2> QED BY <2>1, <2>2 DEF AllLinked
<1>8. Peopled' /\ Standing'
  BY <1>3, <1>5 DEF IInv, Peopled, Standing, NotTimed
<1>9. TypeOK'
  <2>1. members' \in [Channel -> SUBSET Player]
    BY <1>3, <1>4
  <2>2. chans' \in [Player -> List]
    BY <1>3, <1>4, <1>6
  <2>3. dirty' \subseteq Channel
    BY <1>3 DEF Theirs, IInv, TypeOK
  <2> QED BY <1>3, <2>1, <2>2, <2>3 DEF IInv, TypeOK, NotTimed, disk
<1> QED BY <1>7, <1>8, <1>9 DEF IInv

\* What a write does to the disk, n channels of the list far.
LEMMA WriteFacts ==
  ASSUME IInv, state = "up", NEW n \in 0..Len(Walk(bases)), NEW failed, Write(n, failed)
  PROVE  /\ Kept \subseteq index' /\ index' \subseteq Channel
         /\ Kept \subseteq DOMAIN file' /\ DOMAIN file' \subseteq Channel
         /\ \A c \in DOMAIN file' : file'[c] \subseteq Player
<1> DEFINE written == (Range(SubSeq(Walk(bases), 1, n)) \cap dirty) \ failed
<1>1. written \subseteq Channel
  BY DEF IInv, TypeOK
<1>2. /\ index' = IF isync /\ None \notin failed THEN made ELSE index
      /\ file' = [c \in DOMAIN file \cup written |-> IF c \in written THEN members[c] ELSE file[c]]
  BY Visits DEF Write
<1> HIDE DEF written
<1> QED BY <1>1, <1>2 DEF IInv, TypeOK, Standing

LEMMA CountIsRight == ASSUME IInv PROVE Counted
  BY Visits DEF Counted

LEMMA SyncIInv == ASSUME IInv, Sync PROVE IInv'
<1>1. PICK failed \in IF "disk" \in Exercised THEN SUBSET (Channel \cup {None}) ELSE {{}} :
        \E unopened \in SUBSET failed :
          Write(Len(Walk(bases)), failed) /\ dirty' = dirty \cap unopened
  BY CountIsRight DEF Sync
<1>2. UNCHANGED <<state, resident, made, bases, members, chans>> /\ state = "up"
  BY CountIsRight DEF Sync
<1>3. timed' = FALSE /\ isync' = FALSE /\ redos' = 0
  BY DEF Sync
<1>4. Len(Walk(bases)) \in 0..Len(Walk(bases))
  BY Visits
<1>5. /\ Kept \subseteq index' /\ index' \subseteq Channel
      /\ Kept \subseteq DOMAIN file' /\ DOMAIN file' \subseteq Channel
      /\ \A c \in DOMAIN file' : file'[c] \subseteq Player
  BY <1>1, <1>2, <1>4, WriteFacts
<1>6. AllLinked'
  BY <1>2 DEF IInv, AllLinked, Theirs
<1>7. Peopled' /\ Standing'
  BY <1>2, <1>3 DEF IInv, Peopled, Standing
<1>8. dirty' \subseteq Channel
  BY <1>1 DEF IInv, TypeOK
<1>9. TypeOK'
  <2>1. isync' \in BOOLEAN /\ timed' \in BOOLEAN
    BY <1>3
  <2>2. redos' \in 0..Redos
    BY <1>3, ChannelFacts
  <2> QED BY <2>1, <2>2, <1>2, <1>5, <1>8 DEF IInv, TypeOK
<1> QED BY <1>6, <1>7, <1>9 DEF IInv

LEMMA SyncCutIInv == ASSUME IInv, SyncCut PROVE IInv'
<1>1. PICK n \in 0..Len(Walk(bases)) : Write(n, {})
  BY DEF SyncCut
<1>2. /\ Kept \subseteq index' /\ index' \subseteq Channel
      /\ Kept \subseteq DOMAIN file' /\ DOMAIN file' \subseteq Channel
      /\ \A c \in DOMAIN file' : file'[c] \subseteq Player
  BY <1>1, WriteFacts DEF SyncCut
<1> QED BY <1>2, DieIInv DEF SyncCut

LEMMA CrashIInv == ASSUME IInv, Crash PROVE IInv'
  BY DieIInv DEF Crash, disk, IInv, TypeOK

LEMMA RestartIInv == ASSUME IInv, Restart PROVE IInv'
<1> DEFINE back(p) == {c \in made' : p \in Saved(c)}
<1>0. /\ Kept \subseteq index /\ index \subseteq Channel
      /\ Kept \subseteq DOMAIN file /\ DOMAIN file \subseteq Channel
      /\ \A c \in DOMAIN file : file[c] \subseteq Player
      /\ resident \subseteq Player
  BY DEF IInv, TypeOK
<1>1. /\ made' = {c \in Channel : Loads(c)}
      /\ bases' = Linked(made')
      /\ members' = [c \in Channel |-> Saved(c)]
      /\ chans' = [p \in Player |-> Linked(back(p))]
      /\ dirty' = {c \in Channel : Saved(c) # {}}
      /\ state' = "up"
      /\ UNCHANGED <<resident, isync, timed, redos, disk>>
  BY DEF Restart
<1>2. \A c \in Channel : Saved(c) \subseteq resident /\ (Saved(c) # {} => Loads(c))
  BY DEF Saved, Loads
<1>3. Kept \subseteq made'
  BY <1>0, <1>1, ChannelFacts DEF Loads
<1>4. \A p \in Player : back(p) \in SUBSET Channel /\ Theirs(p)' = back(p)
  <2> TAKE p \in Player
  <2>1. Theirs(p)' = {c \in Channel : p \in Saved(c)}
    BY <1>1 DEF Theirs
  <2>2. \A c \in Channel : p \in Saved(c) => c \in made'
    BY <1>1, <1>2
  <2> QED BY <2>1, <2>2, <1>1
<1> HIDE DEF back
<1>5. AllLinked'
  <2>1. \A p \in Player : Lists(chans'[p], Theirs(p)')
    BY <1>1, <1>4, LinkedLists
  <2>2. Lists(bases', made')
    BY <1>1, LinkedLists
  <2> QED BY <2>1, <2>2 DEF AllLinked
<1>6. Peopled'
  BY <1>1, <1>2 DEF Peopled
<1>7. Standing'
  BY <1>1, <1>3 DEF IInv, Standing
<1>8. TypeOK'
  <2>1. /\ \A p \in Player : chans'[p] \in List
        /\ bases' \in List
    BY <1>5 DEF AllLinked, Lists
  <2>2. chans' \in [Player -> List]
    BY <2>1, <1>1
  <2>3. members' \in [Channel -> SUBSET Player]
    BY <1>0, <1>1, <1>2
  <2>4. made' \subseteq Channel /\ dirty' \subseteq Channel /\ state' \in {"up", "down", "aborted"}
    BY <1>1
  <2>5. /\ resident' = resident /\ isync' = isync /\ timed' = timed /\ redos' = redos
        /\ index' = index /\ file' = file
    BY <1>1 DEF disk
  <2> QED BY <2>1, <2>2, <2>3, <2>4, <2>5 DEF IInv, TypeOK
<1> QED BY <1>5, <1>6, <1>7, <1>8 DEF IInv

----------------------------------------------------------------------------
LEMMA InitIInv == ASSUME Init PROVE IInv
<1>1. Lists(Empty, {}) /\ Empty \in List /\ Lists(Linked(Kept), Kept) /\ Linked(Kept) \in List
  BY EmptyLists, LinkedLists, ChannelFacts DEF Lists
<1>2. AllLinked
  <2>1. \A p \in Player : chans[p] = Empty /\ Theirs(p) = {}
    BY DEF Init, Theirs
  <2> QED BY <2>1, <1>1 DEF Init, AllLinked
<1>3. Peopled /\ Standing
  BY DEF Init, Peopled, Standing
<1>4. chans \in [Player -> List] /\ redos \in 0..Redos
  BY <1>1, ChannelFacts DEF Init
<1>5. TypeOK
  BY <1>1, <1>4, ChannelFacts DEF Init, TypeOK
<1> QED BY <1>2, <1>3, <1>5 DEF IInv

LEMMA NextIInv == ASSUME Tidy, IInv, [Next]_vars PROVE IInv'
<1>1. CASE Fire
  BY <1>1, PutOffIInv, SyncIInv DEF Fire
<1>2. CASE SyncCut \/ Crash \/ Restart
  BY <1>2, SyncCutIInv, CrashIInv, RestartIInv
<1>3. ASSUME NEW p \in Player, Nuke(p) \/ Make(p) PROVE IInv'
  BY <1>3, NukeIInv, MakeIInv
<1>4. ASSUME NEW p \in Player, NEW c \in Channel,
             \/ Create(p, c) \/ Join(p, c) \/ Leave(p, c) \/ Config(p, c)
             \/ SystemAdd(p, c) \/ SystemDel(p, c)
             \/ \E q \in Player : Boot(q, p, c)
      PROVE  IInv'
  BY <1>4, CreateIInv, JoinIInv, LeaveIInv, ConfigIInv, SystemDelIInv, BootIInv
<1>5. CASE UNCHANGED vars
  BY <1>5 DEF vars, disk, IInv, TypeOK, AllLinked, Theirs, Peopled, Standing
<1> QED BY <1>1, <1>2, <1>3, <1>4, <1>5 DEF Next

LEMMA AlwaysIInv == ASSUME Tidy PROVE Spec => []IInv
<1>1. Init => IInv
  BY InitIInv
<1>2. IInv /\ [Next]_vars => IInv'
  BY NextIInv
<1> QED BY <1>1, <1>2, PTL DEF Spec

\* Types of the variables (TypeOK), for any channels and players, as long as no
\* node is removed that has lost its prev.
THEOREM TypeInvariance == ASSUME Tidy PROVE Spec => []TypeOK
<1>1. IInv => TypeOK
  BY DEF IInv
<1> QED BY <1>1, AlwaysIInv, PTL

\* The list of channels, and each player's, are in order, have what they ought to
\* have, and prev is right wherever it is set, whatever order channels are made,
\* joined and left in (channels_add_base, channels_del_base and the same for nodes).
THEOREM ListsStayTogether == ASSUME Tidy PROVE Spec => []ListsAgree
<1>1. IInv => ListsAgree
  <2>1. SUFFICES ASSUME IInv PROVE ListsAgree
    OBVIOUS
  <2>2. Lists(bases, made) /\ \A p \in Player : Lists(chans[p], Theirs(p))
    BY <2>1 DEF IInv, AllLinked
  <2>3. On(bases) = made /\ \A p \in Player : On(chans[p]) = Theirs(p)
    BY <2>1, Visits
  <2>4. ASSUME NEW l, NEW cs, Lists(l, cs)
        PROVE  LET w == Walk(l) IN
                 /\ \A i \in 2..Len(w) : w[i - 1] < w[i] /\ l.prev[w[i]] \in {w[i - 1], None}
                 /\ w # <<>> => l.prev[w[1]] = None
    BY <2>4, WalkFacts
  <2> QED BY <2>2, <2>3, <2>4 DEF ListsAgree, Theirs
<1> QED BY <1>1, AlwaysIInv, PTL

\* The assertions of channels_save_index and channels_save_all never stop the
\* talker, as long as no node is removed that has lost its prev: it is nothing
\* else that makes channels_lists fail.
THEOREM SavesDoNotAbort == ASSUME Tidy PROVE Spec => []NeverAborts
<1>1. IInv /\ NeverAborts /\ [Next]_vars => NeverAborts'
  <2>1. SUFFICES ASSUME IInv, NeverAborts, [Next]_vars PROVE NeverAborts'
    OBVIOUS
  <2>2. CASE Sync
    BY <2>1, <2>2, CountIsRight DEF Sync, NeverAborts
  <2>3. CASE UNCHANGED vars
    BY <2>1, <2>3 DEF vars, NeverAborts
  <2>4. CASE PutOff \/ SyncCut \/ Crash \/ Restart
    BY <2>1, <2>4 DEF NeverAborts, PutOff, SyncCut, Crash, Restart, Die
  <2>5. ASSUME NEW p \in Player, Nuke(p) \/ Make(p) PROVE NeverAborts'
    BY <2>1, <2>5 DEF NeverAborts, Nuke, Make, Die
  <2>6. ASSUME NEW p \in Player, NEW c \in Channel,
               \/ Create(p, c) \/ Join(p, c) \/ Leave(p, c) \/ Config(p, c)
               \/ SystemAdd(p, c) \/ SystemDel(p, c)
               \/ \E q \in Player : Boot(q, p, c)
        PROVE  NeverAborts'
    <3>1. state' = state \/ state' = "down"
      BY <2>6 DEF Create, Join, Leave, Config, SystemAdd, SystemDel, Boot, Die
    <3> QED BY <2>1, <3>1 DEF NeverAborts
  <2> QED BY <2>1, <2>2, <2>3, <2>4, <2>5, <2>6 DEF Next, Fire
<1>2. Init => NeverAborts
  BY DEF Init, NeverAborts
<1> QED BY <1>1, <1>2, AlwaysIInv, PTL DEF Spec
----------------------------------------------------------------------------
(***************************************************************************)
(* What memory and disk have in common, when no newcomer has the name of   *)
(* somebody nuked and no file fails.                                       *)
(***************************************************************************)
Sound == Tidy /\ "namesake" \notin Exercised /\ "disk" \notin Exercised

\* Who is in the file of c, whether or not the index has c.
InFile(c) == IF c \in DOMAIN file THEN file[c] \cap resident ELSE {}

FilesAreRight == \A c \in made : c \in dirty \/ InFile(c) = members[c]

IndexIsRight == state = "up" /\ ~ isync =>
                  made \subseteq index /\ \A c \in index \ made : Saved(c) = {}

Recorded == FilesAreRight /\ IndexIsRight

LEMMA NothingIsLost == ASSUME IInv, Recorded PROVE NothingLost
<1>1. SUFFICES ASSUME state = "up", NEW c \in Channel, Saved(c) # members[c],
                      c \notin dirty, ~ (isync /\ timed)
               PROVE  FALSE
  BY DEF NothingLost
<1>2. ~ isync
  BY <1>1 DEF IInv, Standing
<1>3. made \subseteq index /\ \A d \in index \ made : Saved(d) = {}
  BY <1>1, <1>2 DEF Recorded, IndexIsRight
<1>4. CASE c \in made
  <2>1. InFile(c) = members[c] /\ c \in index
    BY <1>1, <1>3, <1>4 DEF Recorded, FilesAreRight
  <2> QED BY <2>1, <1>1 DEF InFile, Saved
<1>5. CASE c \notin made
  <2>1. members[c] = {}
    BY <1>5 DEF IInv, Peopled
  <2>2. Saved(c) = {}
    BY <1>3, <1>5 DEF Saved
  <2> QED BY <2>1, <2>2, <1>1
<1> QED BY <1>4, <1>5

\* A step that leaves the disk alone, and changes a channel only to mark it.
LEMMA MarksRecorded ==
  ASSUME IInv, Recorded, NEW c \in Channel,
         \A d \in made' \ {c} : d \in made /\ members'[d] = members[d] /\ (d \in dirty => d \in dirty'),
         c \in made' => c \in dirty',
         isync' \/ (made' = made /\ isync' = isync),
         state' = state, UNCHANGED <<resident, disk>>
  PROVE  Recorded'
<1>1. \A d \in Channel : InFile(d)' = InFile(d) /\ Saved(d)' = Saved(d)
  BY DEF InFile, Saved, disk
<1>2. made \subseteq Channel
  BY DEF IInv, TypeOK
<1>3. FilesAreRight'
  <2>1. SUFFICES ASSUME NEW d \in made', d \notin dirty' PROVE InFile(d)' = members'[d]
    BY DEF FilesAreRight
  <2>2. d \in made /\ d \notin dirty /\ members'[d] = members[d] /\ d \in Channel
    BY <2>1, <1>2
  <2>3. InFile(d) = members[d]
    BY <2>2 DEF Recorded, FilesAreRight
  <2> QED BY <1>1, <2>2, <2>3
<1>4. IndexIsRight'
  <2>1. SUFFICES ASSUME state' = "up", ~ isync'
                 PROVE  made' \subseteq index' /\ \A d \in index' \ made' : Saved(d)' = {}
    BY DEF IndexIsRight
  <2>2. made' = made /\ ~ isync /\ state = "up" /\ index' = index
    BY <2>1 DEF disk
  <2>3. made \subseteq index /\ \A d \in index \ made : Saved(d) = {}
    BY <2>2 DEF Recorded, IndexIsRight
  <2>4. index \subseteq Channel
    BY DEF IInv, TypeOK
  <2> QED BY <1>1, <2>2, <2>3, <2>4
<1> QED BY <1>3, <1>4 DEF Recorded

\* A talker that is down has nothing to be wrong.
LEMMA DownRecorded == ASSUME NEW how \in {"down", "aborted"}, Die(how) PROVE Recorded'
  BY DEF Die, Recorded, FilesAreRight, IndexIsRight

LEMMA CommandRecorded ==
  ASSUME IInv, Recorded, Tidy, NEW p \in Player, NEW c \in Channel,
         \/ Create(p, c) \/ Join(p, c) \/ Leave(p, c) \/ Config(p, c)
         \/ SystemAdd(p, c) \/ SystemDel(p, c)
         \/ \E q \in Player : Boot(q, p, c)
  PROVE  Recorded'
<1>0. members \in [Channel -> SUBSET Player] /\ made \subseteq Channel
  BY DEF IInv, TypeOK
<1>1. CASE \E how \in {"down", "aborted"} : Die(how)
  BY <1>1, DownRecorded
<1>2. ASSUME ~ Die("down")
      PROVE  /\ \A d \in Channel \ {c} : members'[d] = members[d]
             /\ \A d \in made' \ {c} : d \in made /\ (d \in dirty => d \in dirty')
             /\ c \in made' => c \in dirty'
             /\ isync' \/ (made' = made /\ isync' = isync)
             /\ state' = state /\ UNCHANGED <<resident, disk>>
  <2>1. CASE Create(p, c)
    <3>1. isync'
      BY <2>1 DEF Create, TimedSave
    <3>2. members' = [members EXCEPT ![c] = @ \cup {p}] /\ made' = made \cup {c}
      BY <2>1 DEF Create, AddNode
    <3> QED BY <2>1, <3>1, <3>2, <1>0 DEF Create
  <2>2. CASE Join(p, c) \/ SystemAdd(p, c)
    <3>1. isync' = isync
      BY <2>2 DEF Join, SystemAdd, TimedSave, NotTimed, IInv, TypeOK
    <3>2. members' = [members EXCEPT ![c] = @ \cup {p}] /\ made' = made
      BY <2>2 DEF Join, SystemAdd, AddNode
    <3>3. dirty' = dirty \cup {c} /\ state' = state /\ UNCHANGED <<resident, disk>>
      BY <2>2 DEF Join, SystemAdd
    <3> QED BY <3>1, <3>2, <3>3, <1>0
  <2>3. CASE Leave(p, c)
    <3>1. members' = [members EXCEPT ![c] = @ \ {p}] /\ state' = state /\ UNCHANGED <<resident, disk>>
      BY <2>3 DEF Leave, DelNode
    <3>2. CASE members'[c] # {} \/ c \in Kept
      <4>1. isync' = isync
        BY <2>3, <3>2 DEF Leave, TimedSave, IInv, TypeOK
      <4>2. made' = made /\ dirty' = dirty \cup {c}
        BY <2>3, <3>2 DEF Leave
      <4> QED BY <3>1, <4>1, <4>2, <1>0
    <3>3. CASE ~ (members'[c] # {} \/ c \in Kept)
      <4>1. isync'
        BY <2>3, <3>3 DEF Leave, TimedSave
      <4>2. made' = made \ {c} /\ dirty' = dirty \ {c}
        BY <2>3, <3>3 DEF Leave
      <4> QED BY <3>1, <4>1, <4>2, <1>0
    <3> QED BY <3>2, <3>3
  <2>4. CASE Config(p, c)
    <3>1. isync' = isync
      BY <2>4 DEF Config, TimedSave, IInv, TypeOK
    <3> QED BY <2>4, <3>1, <1>0 DEF Config
  <2>5. CASE SystemDel(p, c)
    BY <2>5, <1>0 DEF SystemDel, DelNode, NotTimed
  <2>6. CASE \E q \in Player : Boot(q, p, c)
    BY <2>6, <1>2, <1>0 DEF Boot, DelNode, NotTimed
  <2> QED BY <2>1, <2>2, <2>3, <2>4, <2>5, <2>6
<1>3. CASE ~ Die("down")
  <2>1. made' \subseteq Channel
    BY <1>2, <1>3, <1>0
  <2> QED BY <1>2, <1>3, <2>1, MarksRecorded
<1> QED BY <1>1, <1>3

LEMMA NukeRecorded == ASSUME IInv, Recorded, NEW p \in Player, Nuke(p) PROVE Recorded'
<1>1. On(chans[p]) = Theirs(p) /\ On(bases) = made
  BY Visits
<1>2. On(chans[p]) \subseteq On(bases)
  BY <1>1 DEF IInv, Peopled, Theirs
<1>3. /\ members' = [c \in Channel |-> members[c] \ (IF c \in Theirs(p) THEN {p} ELSE {})]
      /\ dirty' = dirty \cup Theirs(p) /\ resident' = resident \ {p}
      /\ UNCHANGED <<state, made, bases, disk>> /\ NotTimed
  BY <1>1, <1>2 DEF Nuke
<1>4. made \subseteq Channel /\ index \subseteq Channel
  BY DEF IInv, TypeOK
<1>5. \A c \in Channel : InFile(c)' = InFile(c) \ {p} /\ Saved(c)' = Saved(c) \ {p}
  BY <1>3 DEF InFile, Saved, disk
<1>6. FilesAreRight'
  <2>1. SUFFICES ASSUME NEW c \in made', c \notin dirty' PROVE InFile(c)' = members'[c]
    BY DEF FilesAreRight
  <2>2. c \in made /\ c \notin dirty /\ p \notin members[c] /\ c \in Channel
    BY <2>1, <1>3, <1>4 DEF Theirs
  <2>3. InFile(c) = members[c]
    BY <2>2 DEF Recorded, FilesAreRight
  <2>4. members'[c] = members[c]
    BY <2>2, <1>3 DEF Theirs
  <2> QED BY <2>2, <2>3, <2>4, <1>5
<1>7. IndexIsRight'
  BY <1>3, <1>4, <1>5 DEF Recorded, IndexIsRight, disk, NotTimed
<1> QED BY <1>6, <1>7 DEF Recorded

LEMMA MakeRecorded ==
  ASSUME IInv, Recorded, "namesake" \notin Exercised, NEW p \in Player, Make(p) PROVE Recorded'
<1>1. /\ \A c \in DOMAIN file : p \notin file[c]
      /\ resident' = resident \cup {p} /\ dirty' = dirty \cup {Main}
      /\ members' = [members EXCEPT ![Main] = @ \cup {p}]
      /\ UNCHANGED <<state, made, bases, disk>> /\ NotTimed
  BY DEF Make, AddNode
<1>2. \A c \in Channel : InFile(c)' = InFile(c) /\ Saved(c)' = Saved(c)
  BY <1>1 DEF InFile, Saved, disk
<1>3. made \subseteq Channel /\ index \subseteq Channel /\ members \in [Channel -> SUBSET Player]
  BY DEF IInv, TypeOK
<1>4. FilesAreRight'
  <2>1. SUFFICES ASSUME NEW c \in made', c \notin dirty' PROVE InFile(c)' = members'[c]
    BY DEF FilesAreRight
  <2>2. c \in made /\ c \notin dirty /\ c # Main /\ c \in Channel
    BY <2>1, <1>1, <1>3
  <2>3. InFile(c) = members[c]
    BY <2>2 DEF Recorded, FilesAreRight
  <2> QED BY <2>2, <2>3, <1>1, <1>2, <1>3
<1>5. IndexIsRight'
  BY <1>1, <1>2, <1>3 DEF Recorded, IndexIsRight, disk, NotTimed
<1> QED BY <1>4, <1>5 DEF Recorded

LEMMA SyncRecorded ==
  ASSUME IInv, Recorded, "disk" \notin Exercised, Sync PROVE Recorded'
<1>1. Write(Len(Walk(bases)), {}) /\ dirty' = {}
  BY CountIsRight DEF Sync
<1>2. UNCHANGED <<state, resident, made, bases, members, chans>> /\ state = "up" /\ isync' = FALSE
  BY CountIsRight DEF Sync
<1>3. SubSeq(Walk(bases), 1, Len(Walk(bases))) = Walk(bases)
  BY Visits
<1>4. /\ index' = IF isync THEN made ELSE index
      /\ file' = [c \in DOMAIN file \cup (made \cap dirty) |->
                    IF c \in made \cap dirty THEN members[c] ELSE file[c]]
  BY <1>1, <1>3, Visits DEF Write
<1>5. /\ made \subseteq Channel /\ index \subseteq Channel
      /\ \A c \in Channel : members[c] \subseteq resident
  BY DEF IInv, TypeOK, Peopled
<1>6. \A c \in Channel : InFile(c)' = IF c \in made \cap dirty THEN members[c] ELSE InFile(c)
  BY <1>2, <1>4, <1>5 DEF InFile
<1>7. FilesAreRight'
  BY <1>2, <1>5, <1>6 DEF Recorded, FilesAreRight
<1>8. IndexIsRight'
  <2>1. CASE isync
    BY <2>1, <1>2, <1>4 DEF IndexIsRight
  <2>2. CASE ~ isync
    <3>1. index' = index /\ made \subseteq index /\ \A c \in index \ made : Saved(c) = {}
      BY <2>2, <1>2, <1>4 DEF Recorded, IndexIsRight
    <3>2. \A c \in index \ made : Saved(c)' = Saved(c)
      BY <1>2, <1>4, <3>1 DEF Saved
    <3> QED BY <1>2, <3>1, <3>2 DEF IndexIsRight
  <2> QED BY <2>1, <2>2
<1> QED BY <1>7, <1>8 DEF Recorded

LEMMA RestartRecorded == ASSUME IInv, Restart PROVE Recorded'
<1>1. /\ made' = {c \in Channel : Loads(c)}
      /\ members' = [c \in Channel |-> Saved(c)]
      /\ dirty' = {c \in Channel : Saved(c) # {}}
      /\ UNCHANGED <<resident, disk>>
  BY DEF Restart
<1>2. index \subseteq Channel
  BY DEF IInv, TypeOK
<1>3. \A c \in Channel : InFile(c)' = InFile(c) /\ Saved(c)' = Saved(c)
  BY <1>1 DEF InFile, Saved, disk
<1>4. FilesAreRight'
  <2>1. SUFFICES ASSUME NEW c \in made', c \notin dirty' PROVE InFile(c)' = members'[c]
    BY DEF FilesAreRight
  <2>2. c \in Channel /\ Loads(c) /\ members'[c] = Saved(c)
    BY <2>1, <1>1
  <2>3. InFile(c) = Saved(c)
    BY <2>2 DEF InFile, Saved, Loads
  <2> QED BY <2>2, <2>3, <1>3
<1>5. IndexIsRight'
  <2>1. made' \subseteq index
    BY <1>1 DEF Loads
  <2>2. \A c \in index \ made' : Saved(c) = {}
    BY <1>1, <1>2 DEF Loads, Saved
  <2>3. index' = index
    BY <1>1 DEF disk
  <2> QED BY <2>1, <2>2, <2>3, <1>2, <1>3 DEF IndexIsRight
<1> QED BY <1>4, <1>5 DEF Recorded

LEMMA NextRecorded == ASSUME Sound, IInv, Recorded, [Next]_vars PROVE Recorded'
<1>1. CASE PutOff \/ UNCHANGED vars
  BY <1>1 DEF PutOff, vars, disk, Recorded, FilesAreRight, IndexIsRight, InFile, Saved
<1>2. CASE Sync
  BY <1>2, SyncRecorded DEF Sound
<1>3. CASE SyncCut \/ Crash
  BY <1>3, DownRecorded DEF SyncCut, Crash
<1>4. CASE Restart
  BY <1>4, RestartRecorded
<1>5. ASSUME NEW p \in Player, Nuke(p) \/ Make(p) PROVE Recorded'
  BY <1>5, NukeRecorded, MakeRecorded DEF Sound
<1>6. ASSUME NEW p \in Player, NEW c \in Channel,
             \/ Create(p, c) \/ Join(p, c) \/ Leave(p, c) \/ Config(p, c)
             \/ SystemAdd(p, c) \/ SystemDel(p, c)
             \/ \E q \in Player : Boot(q, p, c)
      PROVE  Recorded'
  BY <1>6, CommandRecorded DEF Sound
<1> QED BY <1>1, <1>2, <1>3, <1>4, <1>5, <1>6 DEF Next, Fire

\* A restart loses nothing but channels that are marked, and those that come and go
\* while the index is to be written (channels_load after channels_save_index and
\* channels_save_chan), for any channels and players.
THEOREM RestartKeepsMembers == ASSUME Sound PROVE Spec => []NothingLost
<1>1. Init => Recorded
  <2>1. SUFFICES ASSUME Init PROVE Recorded
    OBVIOUS
  <2>2. \A c \in Channel : InFile(c) = {} /\ Saved(c) = {}
    BY <2>1 DEF Init, InFile, Saved
  <2> QED BY <2>1, <2>2, ChannelFacts DEF Init, Recorded, FilesAreRight, IndexIsRight
<1>2. Tidy
  BY DEF Sound
<1>3. Spec => []IInv
  BY <1>2, AlwaysIInv
<1>4. IInv /\ Recorded /\ [Next]_vars => Recorded'
  BY NextRecorded
<1>5. IInv /\ Recorded => NothingLost
  BY NothingIsLost
<1> QED BY <1>1, <1>3, <1>4, <1>5, PTL DEF Spec
=============================================================================
