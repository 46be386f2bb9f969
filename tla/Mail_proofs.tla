----------------------------- MODULE Mail_proofs -----------------------------
(***************************************************************************)
(* Theorems about the letters of an author, for any readers, any number of *)
(* letters and any limit on them: whoever reads a letter reads its text,   *)
(* what is not marked is in the file, and a timer is of a letter there is. *)
(***************************************************************************)
EXTENDS Mail, SequenceTheorems, FiniteSetTheorems, WellFoundedInduction, TLAPS

(***************************************************************************)
(* Induction over the natural numbers, as the least of a set of them.      *)
(***************************************************************************)
LEMMA LeastOf ==
  ASSUME NEW T \in SUBSET Nat, T # {}
  PROVE  \E n \in T : \A m \in T : n <= m
<1> DEFINE R == OpToRel(<, Nat)
<1>1. IsWellFoundedOn(R, Nat)
  BY NatLessThanWellFounded
<1>2. \A m, n \in Nat : m < n => <<m, n>> \in R
  BY DEF OpToRel
<1> HIDE DEF R
<1>3. \E n \in T : \A m \in T : ~ (<<m, n>> \in R)
  BY <1>1, WFMin, Zenon
<1>4. PICK n \in T : \A m \in T : ~ (<<m, n>> \in R)
  BY <1>3
<1>5. \A m \in T : m \in Nat /\ n \in Nat /\ ~ (m < n)
  BY <1>2, <1>4
<1>6. \A m \in T : n <= m
  BY <1>5
<1> QED BY <1>6

\* The elements of a list from place a to place b.
LEMMA SliceFacts ==
  ASSUME NEW S, NEW s \in Seq(S), NEW a \in Nat, NEW b \in Nat,
         1 <= a, a <= b + 1, b <= Len(s)
  PROVE  /\ SubSeq(s, a, b) \in Seq(S)
         /\ Len(SubSeq(s, a, b)) = b - a + 1
         /\ \A j \in 1..(b - a + 1) : SubSeq(s, a, b)[j] = s[a + j - 1]
  OBVIOUS

(***************************************************************************)
(* Lists of letters, in the order of their stamps.                         *)
(***************************************************************************)
LEMMA ListFacts ==
  ASSUME NEW S \in SUBSET Nat, NEW s \in Seq(S)
  PROVE  /\ s \in Seq(Nat) /\ Len(s) \in Nat /\ DOMAIN s = 1..Len(s)
         /\ \A n \in 1..Len(s) : s[n] \in S /\ s[n] \in Nat
<1>1. s \in Seq(Nat)
  BY SeqMonotonic
<1>2. Len(s) \in Nat /\ DOMAIN s = 1..Len(s)
  OBVIOUS
<1>3. \A n \in 1..Len(s) : s[n] \in S
  BY ElementOfSeq
<1> QED BY <1>1, <1>2, <1>3

Increasing(s) == \A i, j \in DOMAIN s : i < j => s[i] < s[j]

\* What each step of unlinking letters ls leaves: f[n] of the first n.
Unlinking(f, m, s, ls) ==
  f = [n \in 0..m |-> IF n = 0 THEN <<>>
                      ELSE IF s[n] \in ls THEN f[n - 1] ELSE Append(f[n - 1], s[n])]

\* There are such steps for every list.
LEMMA UnlinkingExists ==
  ASSUME NEW s \in Seq(Nat), NEW ls
  PROVE  \E f : Unlinking(f, Len(s), s, ls) /\ Without(s, ls) = f[Len(s)]
<1>1. \E f : Unlinking(f, Len(s), s, ls)
  <2> DEFINE T == {m \in Nat : ~ \E f : Unlinking(f, m, s, ls)}
  <2>0. Len(s) \in Nat
    OBVIOUS
  <2>1. SUFFICES T = {}
    BY <2>0
  <2>2. SUFFICES ASSUME T # {} PROVE FALSE
    OBVIOUS
  <2>3. PICK m \in T : \A k \in T : m <= k
    BY LeastOf, <2>2
  <2>4. m # 0
    <3>1. Unlinking([n \in 0..0 |-> <<>>], 0, s, ls)
      BY DEF Unlinking
    <3> QED BY <3>1
  <2>5. m - 1 \in Nat /\ m \in Nat /\ m - 1 \notin T
    BY <2>3, <2>4
  <2>6. PICK f : Unlinking(f, m - 1, s, ls)
    BY <2>5
  <2> DEFINE g == [n \in 0..m |->
                     IF n = m THEN IF s[m] \in ls THEN f[m - 1] ELSE Append(f[m - 1], s[m])
                     ELSE f[n]]
  <2>7. ASSUME NEW n \in 0..m
        PROVE  g[n] = IF n = 0 THEN <<>>
                      ELSE IF s[n] \in ls THEN g[n - 1] ELSE Append(g[n - 1], s[n])
    <3>1. CASE n = m
      BY <3>1, <2>5, <2>4
    <3>2. CASE n # m
      <4>1. n \in 0..(m - 1) /\ g[n] = f[n]
        BY <3>2, <2>5
      <4>2. n # 0 => n - 1 \in 0..m /\ n - 1 # m
        BY <4>1, <2>5
      <4>3. n # 0 => g[n - 1] = f[n - 1]
        BY <4>2
      <4>4. f[n] = IF n = 0 THEN <<>>
                   ELSE IF s[n] \in ls THEN f[n - 1] ELSE Append(f[n - 1], s[n])
        BY <4>1, <2>6 DEF Unlinking
      <4> QED BY <4>1, <4>3, <4>4
    <3> QED BY <3>1, <3>2
  <2>8. Unlinking(g, m, s, ls)
    BY <2>7 DEF Unlinking
  <2> QED BY <2>8
<1> DEFINE F == CHOOSE f : Unlinking(f, Len(s), s, ls)
<1>2. Unlinking(F, Len(s), s, ls)
  BY <1>1
<1>3. Without(s, ls) = F[Len(s)]
  BY DEF Without, Unlinking
<1> QED BY <1>2, <1>3

\* Unlinking leaves the other letters, in their order.
LEMMA WithoutFacts ==
  ASSUME NEW S \in SUBSET Nat, NEW s \in Seq(S), Increasing(s), NEW ls
  PROVE  /\ Without(s, ls) \in Seq(S)
         /\ Increasing(Without(s, ls))
         /\ Range(Without(s, ls)) = Range(s) \ ls
<1>0. /\ s \in Seq(Nat) /\ Len(s) \in Nat /\ DOMAIN s = 1..Len(s)
      /\ \A n \in 1..Len(s) : s[n] \in S /\ s[n] \in Nat
  BY ListFacts
<1>1. PICK f : Unlinking(f, Len(s), s, ls) /\ Without(s, ls) = f[Len(s)]
  BY <1>0, UnlinkingExists
<1> DEFINE Left(n) == /\ f[n] \in Seq(S)
                      /\ Increasing(f[n])
                      /\ Range(f[n]) = {s[i] : i \in 1..n} \ ls
<1>2. Left(0)
  BY <1>0, <1>1 DEF Unlinking, Increasing, Range
<1>3. ASSUME NEW n \in 1..Len(s), Left(n - 1) PROVE Left(n)
  <2> DEFINE t == f[n - 1]
  <2>0. f[n] = IF s[n] \in ls THEN t ELSE Append(t, s[n])
    <3>1. n \in 0..Len(s) /\ n # 0
      BY <1>0
    <3> QED BY <3>1, <1>1 DEF Unlinking
  <2>1. t \in Seq(S) /\ Increasing(t) /\ Range(t) = {s[i] : i \in 1..(n - 1)} \ ls
    BY <1>3
  <2>2. {s[i] : i \in 1..n} = {s[i] : i \in 1..(n - 1)} \cup {s[n]}
    <3>1. 1..n = 1..(n - 1) \cup {n}
      BY <1>0
    <3> QED BY <3>1
  <2> HIDE DEF t
  <2>3. CASE s[n] \in ls
    BY <2>0, <2>1, <2>2, <2>3
  <2>4. CASE s[n] \notin ls
    <3>1. f[n] = Append(t, s[n]) /\ s[n] \in S
      BY <2>0, <2>4, <1>0
    <3>2. /\ Append(t, s[n]) \in Seq(S) /\ Len(Append(t, s[n])) = Len(t) + 1
          /\ \A i \in 1..Len(t) : Append(t, s[n])[i] = t[i]
          /\ Append(t, s[n])[Len(t) + 1] = s[n]
      BY <3>1, <2>1
    <3>3. DOMAIN Append(t, s[n]) = 1..(Len(t) + 1) /\ DOMAIN t = 1..Len(t) /\ Len(t) \in Nat
      BY <3>2, <2>1
    <3>4. \A i \in 1..Len(t) : t[i] < s[n]
      <4> SUFFICES ASSUME NEW i \in 1..Len(t) PROVE t[i] < s[n]
        OBVIOUS
      <4>1. t[i] \in Range(t)
        BY <3>3 DEF Range
      <4>2. PICK j \in 1..(n - 1) : t[i] = s[j]
        BY <4>1, <2>1
      <4>3. j \in DOMAIN s /\ n \in DOMAIN s /\ j < n
        BY <1>0
      <4> QED BY <4>2, <4>3 DEF Increasing
    <3>5. Increasing(Append(t, s[n]))
      <4> SUFFICES ASSUME NEW i \in 1..(Len(t) + 1), NEW j \in 1..(Len(t) + 1), i < j
                   PROVE  Append(t, s[n])[i] < Append(t, s[n])[j]
        BY <3>3 DEF Increasing
      <4>1. i \in 1..Len(t)
        BY <3>3
      <4>2. CASE j = Len(t) + 1
        BY <4>1, <4>2, <3>2, <3>4
      <4>3. CASE j # Len(t) + 1
        BY <4>1, <4>3, <3>2, <3>3, <2>1 DEF Increasing
      <4> QED BY <4>2, <4>3
    <3>6. Range(Append(t, s[n])) = Range(t) \cup {s[n]}
      <4>1. 1..(Len(t) + 1) = 1..Len(t) \cup {Len(t) + 1}
        BY <3>3
      <4>2. Range(Append(t, s[n])) = {Append(t, s[n])[i] : i \in 1..Len(t)} \cup {Append(t, s[n])[Len(t) + 1]}
        BY <3>3, <4>1 DEF Range
      <4>3. Range(t) = {t[i] : i \in 1..Len(t)}
        BY <3>3 DEF Range
      <4> QED BY <4>2, <4>3, <3>2
    <3> QED BY <3>1, <3>2, <3>5, <3>6, <2>1, <2>2, <2>4
  <2> QED BY <2>3, <2>4
<1> DEFINE T == {n \in 0..Len(s) : ~ Left(n)}
<1>4. T = {}
  <2> SUFFICES ASSUME T # {} PROVE FALSE
    OBVIOUS
  <2>1. T \in SUBSET Nat
    BY <1>0
  <2> HIDE DEF T, Left
  <2>2. PICK n \in T : \A m \in T : n <= m
    BY <2>1, LeastOf
  <2>3. n \in 0..Len(s) /\ ~ Left(n) /\ n # 0
    BY <1>2, <2>2 DEF T
  <2>4. n - 1 \in 0..Len(s) /\ n - 1 \notin T
    BY <1>0, <2>2, <2>3
  <2>5. Left(n - 1)
    BY <2>4 DEF T
  <2>6. n \in 1..Len(s)
    BY <1>0, <2>3
  <2>7. Left(n)
    BY <1>3, <2>5, <2>6
  <2> QED BY <2>3, <2>7
<1>5. Left(Len(s))
  <2>1. Len(s) \in 0..Len(s)
    BY <1>0
  <2> HIDE DEF Left
  <2> QED BY <2>1, <1>4
<1>6. Range(s) = {s[i] : i \in 1..Len(s)}
  BY <1>0 DEF Range
<1> QED BY <1>1, <1>5, <1>6
\* A list without the draft at its end.
LEMMA CutFacts ==
  ASSUME NEW S \in SUBSET Nat, NEW s \in Seq(S), Increasing(s), NEW e, e => s # <<>>,
         NEW f, f = IF e THEN Front(s) ELSE s
  PROVE  /\ f \in Seq(S) /\ Increasing(f)
         /\ Len(f) = IF e THEN Len(s) - 1 ELSE Len(s)
         /\ \A n \in 1..Len(f) : f[n] = s[n]
         /\ e => /\ Last(s) \in S /\ Last(s) = s[Len(s)]
                 /\ Range(s) = Range(f) \cup {Last(s)}
                 /\ \A x \in Range(f) : x < Last(s)
         /\ ~e => Range(f) = Range(s)
<1>0. Len(s) \in Nat /\ DOMAIN s = 1..Len(s) /\ \A n \in 1..Len(s) : s[n] \in S /\ s[n] \in Nat
  BY ListFacts
<1>a. \A i, j \in 1..Len(s) : i < j => s[i] < s[j]
  BY <1>0 DEF Increasing
<1>1. CASE ~e
  BY <1>0, <1>1
<1>2. CASE e
  <2>1. Len(s) > 0 /\ f = SubSeq(s, 1, Len(s) - 1)
    BY <1>2, <1>0 DEF Front
  <2>2. /\ f \in Seq(S) /\ Len(f) = Len(s) - 1
        /\ \A n \in 1..(Len(s) - 1) : f[n] = s[n]
    <3>1. /\ Len(s) - 1 \in Nat /\ 1 <= (Len(s) - 1) + 1 /\ Len(s) - 1 <= Len(s)
          /\ (Len(s) - 1) - 1 + 1 = Len(s) - 1
          /\ \A n \in 1..(Len(s) - 1) : 1 + n - 1 = n
      BY <1>0, <2>1
    <3>2. /\ SubSeq(s, 1, Len(s) - 1) \in Seq(S)
          /\ Len(SubSeq(s, 1, Len(s) - 1)) = (Len(s) - 1) - 1 + 1
          /\ \A j \in 1..((Len(s) - 1) - 1 + 1) : SubSeq(s, 1, Len(s) - 1)[j] = s[1 + j - 1]
      BY <3>1, SliceFacts
    <3> QED BY <3>1, <3>2, <2>1
  <2>3. DOMAIN f = 1..(Len(s) - 1)
    BY <2>2
  <2>4. Last(s) = s[Len(s)] /\ Last(s) \in S
    BY <1>0, <2>1 DEF Last
  <2>5. Increasing(f)
    <3> SUFFICES ASSUME NEW i \in 1..(Len(s) - 1), NEW j \in 1..(Len(s) - 1), i < j
                 PROVE  f[i] < f[j]
      BY <2>3 DEF Increasing
    <3>1. i \in 1..Len(s) /\ j \in 1..Len(s)
      BY <1>0, <2>1
    <3> QED BY <3>1, <2>2, <1>a
  <2>6. Range(s) = Range(f) \cup {Last(s)}
    <3>1. 1..Len(s) = 1..(Len(s) - 1) \cup {Len(s)}
      BY <1>0, <2>1
    <3>2. Range(s) = {s[i] : i \in 1..(Len(s) - 1)} \cup {s[Len(s)]}
      BY <3>1, <1>0 DEF Range
    <3>3. Range(f) = {f[i] : i \in 1..(Len(s) - 1)}
      BY <2>3 DEF Range
    <3> QED BY <3>2, <3>3, <2>2, <2>4
  <2>7. \A x \in Range(f) : x < Last(s)
    <3> SUFFICES ASSUME NEW i \in 1..(Len(s) - 1) PROVE f[i] < Last(s)
      BY <2>3 DEF Range
    <3>1. i \in 1..Len(s) /\ Len(s) \in 1..Len(s) /\ i < Len(s)
      BY <1>0, <2>1
    <3> QED BY <3>1, <2>2, <2>4, <1>a
  <2> QED BY <1>2, <2>2, <2>4, <2>5, <2>6, <2>7
<1> QED BY <1>1, <1>2

\* There is one such list of the same letters.
LEMMA OneList ==
  ASSUME NEW S \in SUBSET Nat, NEW s \in Seq(S), NEW t \in Seq(S),
         Increasing(s), Increasing(t), Range(s) = Range(t)
  PROVE  s = t
<1>0. /\ Len(s) \in Nat /\ DOMAIN s = 1..Len(s) /\ \A n \in 1..Len(s) : s[n] \in Nat
      /\ Len(t) \in Nat /\ DOMAIN t = 1..Len(t) /\ \A n \in 1..Len(t) : t[n] \in Nat
  BY ListFacts
<1>1. /\ \A i \in 1..Len(s) : \E j \in 1..Len(t) : s[i] = t[j]
      /\ \A i \in 1..Len(t) : \E j \in 1..Len(s) : t[i] = s[j]
  BY <1>0 DEF Range
<1>a. /\ \A i, j \in 1..Len(s) : i < j => s[i] < s[j]
      /\ \A i, j \in 1..Len(t) : i < j => t[i] < t[j]
  BY <1>0 DEF Increasing
<1> DEFINE T == {i \in Nat \ {0} : (i <= Len(s) \/ i <= Len(t))
                                   /\ ~ (i <= Len(s) /\ i <= Len(t) /\ s[i] = t[i])}
<1>2. T = {}
  <2> SUFFICES ASSUME T # {} PROVE FALSE
    OBVIOUS
  <2>1. T \in SUBSET Nat
    OBVIOUS
  <2>2. PICK i \in T : \A k \in T : i <= k
    BY <2>1, LeastOf
  <2>3. /\ i \in Nat /\ i > 0 /\ (i <= Len(s) \/ i <= Len(t))
        /\ ~ (i <= Len(s) /\ i <= Len(t) /\ s[i] = t[i])
    BY <2>2
  <2>4. \A k \in 1..(i - 1) : k <= Len(s) /\ k <= Len(t) /\ s[k] = t[k]
    <3> SUFFICES ASSUME NEW k \in 1..(i - 1) PROVE k <= Len(s) /\ k <= Len(t) /\ s[k] = t[k]
      OBVIOUS
    <3>1. k \in Nat \ {0} /\ k < i /\ (k <= Len(s) \/ k <= Len(t))
      BY <2>3, <1>0
    <3>2. k \notin T
      BY <3>1, <2>2
    <3> QED BY <3>1, <3>2
  <2> HIDE DEF T
  <2>5. CASE i <= Len(s)
    <3>1. i \in 1..Len(s)
      BY <2>3, <2>5, <1>0
    <3>2. PICK j \in 1..Len(t) : s[i] = t[j]
      BY <3>1, <1>1
    <3>3. j >= i
      <4> SUFFICES ASSUME j < i PROVE FALSE
        BY <1>0, <2>3
      <4>1. s[j] = t[j] /\ j \in 1..Len(s)
        BY <2>4, <2>3, <3>1, <1>0
      <4> QED BY <4>1, <3>1, <3>2, <1>0, <1>a
    <3>4. i \in 1..Len(t) /\ j # i
      BY <3>1, <3>2, <3>3, <2>3, <1>0
    <3>5. t[i] < s[i]
      BY <3>2, <3>3, <3>4, <1>0, <1>a
    <3>6. PICK k \in 1..Len(s) : t[i] = s[k]
      BY <3>4, <1>1
    <3>7. k < i
      <4> SUFFICES ASSUME k >= i PROVE FALSE
        BY <1>0, <2>3
      <4> QED BY <3>1, <3>5, <3>6, <1>0, <1>a
    <3>8. s[k] = t[k] /\ k \in 1..Len(t)
      BY <3>7, <2>4, <3>4, <1>0
    <3> QED BY <3>8, <3>6, <3>7, <3>4, <1>0, <1>a
  <2>6. CASE ~ (i <= Len(s))
    <3>1. i \in 1..Len(t)
      BY <2>3, <2>6, <1>0
    <3>2. PICK k \in 1..Len(s) : t[i] = s[k]
      BY <3>1, <1>1
    <3>3. k < i
      BY <2>6, <2>3, <1>0
    <3>4. s[k] = t[k] /\ k \in 1..Len(t)
      BY <3>3, <2>4, <3>1, <1>0
    <3> QED BY <3>2, <3>3, <3>4, <3>1, <1>0, <1>a
  <2> QED BY <2>5, <2>6
<1>3. \A i \in Nat : i >= 1 /\ (i <= Len(s) \/ i <= Len(t)) => i <= Len(s) /\ i <= Len(t) /\ s[i] = t[i]
  <2> SUFFICES ASSUME NEW i \in Nat, i >= 1, i <= Len(s) \/ i <= Len(t),
                      ~ (i <= Len(s) /\ i <= Len(t) /\ s[i] = t[i])
               PROVE  FALSE
    OBVIOUS
  <2>1. i \in T
    OBVIOUS
  <2> QED BY <2>1, <1>2
<1>4. Len(s) = Len(t)
  <2>1. Len(s) >= 1 => Len(s) <= Len(t)
    BY <1>0, <1>3
  <2>2. Len(t) >= 1 => Len(t) <= Len(s)
    BY <1>0, <1>3
  <2>3. Len(s) \in Nat /\ Len(t) \in Nat
    BY <1>0
  <2> QED BY <2>1, <2>2, <2>3
<1> QED BY <1>0, <1>3, <1>4, SeqEqual
-----------------------------------------------------------------------------
(***************************************************************************)
(* The inductive invariant.  What a restart reads back has to be right     *)
(* too, and that a letter is in the file of a clean author is why its text *)
(* may be freed.                                                           *)
(***************************************************************************)

\* Only somebody on the program has a draft, and nobody nuked has letters.
Shape ==
  /\ editing => author = "on" /\ sent # <<>>
  /\ author = "nuked" => sent = <<>>
  /\ \A n \in DOMAIN sent : sent[n] <= begun

\* A recipient has read or deleted a letter: nobody else.
Proper(r) == r.deleted \cup r.read \subseteq r.recips

\* What is not on the list is blank, and a draft but for its recipients.
Blanked ==
  /\ \A l \in Letter : l \notin Range(sent) => mail[l] = Blank
  /\ \A l \in Letter : Proper(mail[l])
  /\ editing => mail[Draft].deleted = {} /\ mail[Draft].read = {} /\ mail[Draft].text = NoText

\* The file has letters in their order, each with its own text.
Filed ==
  /\ \A i, j \in DOMAIN file : i < j => file[i].letter < file[j].letter
  /\ \A n \in DOMAIN file : /\ file[n].letter <= begun
                            /\ file[n].rec.text = file[n].letter
                            /\ Proper(file[n].rec)

IInv == TypeOK /\ Shape /\ Blanked /\ Filed /\ OwnText /\ CleanIsSaved /\ TimersLive

LEMMA LetterFacts == MaxLetters \in Nat /\ Letter \in SUBSET Nat /\ NoText \notin Letter
  BY ConstAssumption DEF Letter, NoText

\* The list and its finished part.
ListIs ==
  /\ sent \in Seq(Letter) /\ Increasing(sent)
  /\ Finished \in Seq(Letter) /\ Increasing(Finished)
  /\ Len(sent) \in Nat /\ DOMAIN sent = 1..Len(sent)
  /\ Len(Finished) \in Nat /\ DOMAIN Finished = 1..Len(Finished)
  /\ \A n \in 1..Len(Finished) : Finished[n] \in Letter /\ Finished[n] \in Posted
                                 /\ Number(Finished[n]) = n
  /\ \A n \in 1..Len(Finished) : n \in 1..Len(sent) /\ Finished[n] = sent[n]
  /\ Posted \subseteq Letter /\ Range(sent) \subseteq Letter
  /\ \A l \in Posted : Number(l) \in 1..Len(Finished) /\ Finished[Number(l)] = l
  /\ editing => /\ Draft \in Letter /\ Draft \notin Posted /\ Draft = sent[Len(sent)]
                /\ Range(sent) = Posted \cup {Draft} /\ Len(Finished) = Len(sent) - 1
                /\ \A l \in Posted : l < Draft
  /\ ~editing => Range(sent) = Posted /\ Finished = sent

LEMMA TheList == ASSUME TypeOK, editing => sent # <<>> PROVE ListIs
<1> DEFINE f == Finished
<1>1. sent \in Seq(Letter) /\ Increasing(sent) /\ f = IF editing THEN Front(sent) ELSE sent
  BY DEF TypeOK, Increasing, Finished
<1>2. /\ f \in Seq(Letter) /\ Increasing(f)
      /\ Len(f) = IF editing THEN Len(sent) - 1 ELSE Len(sent)
      /\ \A n \in 1..Len(f) : f[n] = sent[n]
      /\ editing => /\ Draft \in Letter /\ Draft = sent[Len(sent)]
                    /\ Range(sent) = Range(f) \cup {Draft}
                    /\ \A x \in Range(f) : x < Draft
      /\ ~editing => Range(f) = Range(sent)
  <2> HIDE DEF f
  <2> QED BY <1>1, LetterFacts, CutFacts DEF Draft
<1>3. /\ Len(sent) \in Nat /\ DOMAIN sent = 1..Len(sent)
      /\ \A n \in 1..Len(sent) : sent[n] \in Letter /\ sent[n] \in Nat
  BY <1>1, LetterFacts, ListFacts
<1>4. /\ Len(f) \in Nat /\ DOMAIN f = 1..Len(f)
      /\ \A n \in 1..Len(f) : f[n] \in Letter /\ f[n] \in Nat
  BY <1>2, LetterFacts, ListFacts
<1> HIDE DEF f
<1>5. Posted = Range(f)
  BY DEF Posted, f
<1>6. \A n \in 1..Len(f) : n \in 1..Len(sent)
  <2>0. Len(f) = IF editing THEN Len(sent) - 1 ELSE Len(sent)
    BY <1>2
  <2>1. Len(f) \in Nat /\ Len(sent) \in Nat
    BY <1>3, <1>4
  <2>2. Len(f) <= Len(sent)
    BY <2>0, <2>1
  <2> QED BY <2>1, <2>2
<1>7. \A i, j \in 1..Len(f) : f[i] = f[j] => i = j
  <2> SUFFICES ASSUME NEW i \in 1..Len(f), NEW j \in 1..Len(f), f[i] = f[j], i # j PROVE FALSE
    OBVIOUS
  <2>1. i < j \/ j < i
    BY <1>4
  <2>2. f[i] < f[j] \/ f[j] < f[i]
    BY <2>1, <1>2, <1>4 DEF Increasing
  <2> QED BY <2>2, <1>4
<1>8. \A l : Number(l) = CHOOSE n \in 1..Len(f) : f[n] = l
  BY <1>4 DEF Number, f
<1>9. \A n \in 1..Len(f) : Number(f[n]) = n
  BY <1>7, <1>8
<1>10. Range(f) = {f[n] : n \in 1..Len(f)}
  BY <1>4 DEF Range
<1>11. \A l \in Range(f) : Number(l) \in 1..Len(f) /\ f[Number(l)] = l
  BY <1>9, <1>10
<1>12. Range(sent) \subseteq Letter
  BY <1>3 DEF Range
<1>13. editing => Draft \notin Range(f)
  <2>1. editing => Draft \in Nat
    BY <1>2, LetterFacts
  <2>2. editing /\ Draft \in Range(f) => Draft < Draft
    BY <1>2
  <2> QED BY <2>1, <2>2
<1>14. ~editing => f = sent
  BY <1>1
<1>15. \A n \in 1..Len(f) : f[n] \in Letter /\ f[n] \in Posted /\ Number(f[n]) = n
  BY <1>4, <1>5, <1>9, <1>10
<1>16. \A n \in 1..Len(f) : n \in 1..Len(sent) /\ f[n] = sent[n]
  BY <1>2, <1>6
<1>17. Posted \subseteq Letter
  BY <1>4, <1>5, <1>10
<1>18. \A l \in Posted : Number(l) \in 1..Len(f) /\ f[Number(l)] = l
  BY <1>5, <1>11
<1>19. editing => /\ Draft \in Letter /\ Draft \notin Posted /\ Draft = sent[Len(sent)]
                  /\ Range(sent) = Posted \cup {Draft} /\ Len(f) = Len(sent) - 1
                  /\ \A l \in Posted : l < Draft
  BY <1>2, <1>5, <1>13
<1>20. ~editing => Range(sent) = Posted /\ f = sent
  BY <1>2, <1>5, <1>14
<1> QED
  BY <1>1, <1>2, <1>3, <1>4, <1>12, <1>15, <1>16, <1>17, <1>18, <1>19, <1>20 DEF ListIs, f
\* Loading finds the text of every letter that is posted.
LEMMA Texts ==
  ASSUME IInv, NEW ls \in SUBSET Posted
  PROVE  /\ WithTexts(ls) \in [Letter -> MailRec]
         /\ \A l \in Letter :
              /\ WithTexts(ls)[l].recips = mail[l].recips
              /\ WithTexts(ls)[l].deleted = mail[l].deleted
              /\ WithTexts(ls)[l].read = mail[l].read
              /\ WithTexts(ls)[l].text = IF l \in ls THEN l ELSE mail[l].text
              /\ l \notin ls => WithTexts(ls)[l] = mail[l]
<1>1. ListIs /\ mail \in [Letter -> MailRec]
  BY TheList DEF IInv, Shape, TypeOK
<1>2. ASSUME NEW l \in ls, ~InCore(l)
      PROVE  Number(l) \in DOMAIN file /\ file[Number(l)].rec.text = l
  <2>1. l \in Posted /\ Number(l) \in 1..Len(Finished) /\ Finished[Number(l)] = l
        /\ DOMAIN Finished = 1..Len(Finished)
    BY <1>1 DEF ListIs
  <2> QED BY <2>1, <1>2 DEF IInv, OwnText
<1>3. ASSUME NEW l \in ls, InCore(l) PROVE mail[l].text = l
  <2>1. l \in Posted /\ Number(l) \in 1..Len(Finished) /\ Finished[Number(l)] = l
        /\ DOMAIN Finished = 1..Len(Finished)
    BY <1>1 DEF ListIs
  <2> QED BY <2>1, <1>3 DEF IInv, OwnText
<1>4. ls \subseteq Letter
  BY <1>1 DEF ListIs
<1>5. ASSUME NEW l \in Letter
      PROVE  WithTexts(ls)[l] = IF l \notin ls \/ InCore(l) THEN mail[l]
                                ELSE [mail[l] EXCEPT !.text = l]
  BY <1>2 DEF WithTexts
<1>6. \A l \in Letter : mail[l] \in MailRec /\ [mail[l] EXCEPT !.text = l] \in MailRec
  BY <1>1 DEF MailRec
<1>7. WithTexts(ls) \in [Letter -> MailRec]
  <2>1. \A l \in Letter : WithTexts(ls)[l] \in MailRec
    BY <1>5, <1>6
  <2>2. WithTexts(ls) = [l \in Letter |-> WithTexts(ls)[l]]
    BY DEF WithTexts
  <2> QED BY <2>1, <2>2
<1>8. ASSUME NEW l \in Letter
      PROVE  /\ WithTexts(ls)[l].recips = mail[l].recips
             /\ WithTexts(ls)[l].deleted = mail[l].deleted
             /\ WithTexts(ls)[l].read = mail[l].read
             /\ WithTexts(ls)[l].text = IF l \in ls THEN l ELSE mail[l].text
             /\ l \notin ls => WithTexts(ls)[l] = mail[l]
  <2>1. CASE l \notin ls \/ InCore(l)
    BY <2>1, <1>5, <1>3
  <2>2. CASE l \in ls /\ ~InCore(l)
    <3>1. WithTexts(ls)[l] = [mail[l] EXCEPT !.text = l]
      BY <2>2, <1>5
    <3> QED BY <3>1, <2>2, <1>1 DEF MailRec
  <2> QED BY <2>1, <2>2
<1> QED BY <1>7, <1>8

\* The sections of the mail file.
LEMMA TheFile ==
  ASSUME TypeOK
  PROVE  /\ Len(file) \in Nat /\ DOMAIN file = 1..Len(file)
         /\ \A n \in DOMAIN file : file[n].letter \in Letter /\ file[n].rec \in MailRec
<1> DEFINE S == [letter : Letter, rec : MailRec]
<1>1. file \in Seq(S)
  BY DEF TypeOK
<1>2. \A r \in S : r.letter \in Letter /\ r.rec \in MailRec
  OBVIOUS
<1> HIDE DEF S
<1>3. Len(file) \in Nat /\ DOMAIN file = 1..Len(file) /\ \A n \in 1..Len(file) : file[n] \in S
  BY <1>1, LenProperties, ElementOfSeq
<1> QED BY <1>2, <1>3

\* A step that leaves what is posted and the file alone: texts may be loaded, and
\* those of a clean author freed.
LEMMA SameFinished ==
  ASSUME IInv, TypeOK', Shape', Blanked',
         Finished' = Finished, UNCHANGED file, begun <= begun',
         author = "nuked" => author' = "nuked" \/ dirty',
         dirty => dirty',
         \A l \in Posted :
           /\ \/ mail'[l].text \in {mail[l].text, l}
              \/ ~dirty /\ author # "nuked" /\ mail'[l].text = NoText
           /\ ~dirty' =>
                /\ mail'[l].recips \subseteq mail[l].recips
                /\ mail'[l].deleted = mail[l].deleted \cap mail'[l].recips
                /\ mail'[l].read = mail[l].read \cap mail'[l].recips,
         timed' \subseteq Posted
  PROVE  IInv'
<1>1. ListIs
  BY TheList DEF IInv, Shape
<1>2. Posted' = Posted
  BY DEF Posted
<1>3. Filed'
  <2>1. /\ begun \in Nat /\ begun' \in Nat
        /\ \A n \in DOMAIN file : file[n].letter \in Nat
    <3>1. begun \in 0..MaxLetters /\ begun' \in 0..MaxLetters
      BY DEF IInv, TypeOK
    <3>2. \A n \in DOMAIN file : file[n].letter \in Letter
      BY TheFile DEF IInv
    <3>3. begun \in Nat /\ begun' \in Nat
      BY <3>1
    <3>4. \A n \in DOMAIN file : file[n].letter \in Nat
      BY <3>2, LetterFacts
    <3> QED BY <3>3, <3>4
  <2> QED BY <2>1 DEF IInv, Filed
<1>4. \A n \in DOMAIN Finished : Finished[n] \in Letter /\ Finished[n] \in Posted
  BY <1>1 DEF ListIs
<1>5. ASSUME ~dirty, author # "nuked"
      PROVE  /\ Len(file) = Len(Finished)
             /\ \A n \in DOMAIN Finished :
                  /\ n \in DOMAIN file
                  /\ file[n].letter = Finished[n] /\ file[n].rec.text = Finished[n]
                  /\ mail[Finished[n]].recips \subseteq file[n].rec.recips
                  /\ mail[Finished[n]].deleted = file[n].rec.deleted \cap mail[Finished[n]].recips
                  /\ mail[Finished[n]].read = file[n].rec.read \cap mail[Finished[n]].recips
  <2>1. /\ Len(file) = Len(Finished)
        /\ \A n \in DOMAIN Finished :
             /\ file[n].letter = Finished[n]
             /\ mail[Finished[n]].recips \subseteq file[n].rec.recips
             /\ mail[Finished[n]].deleted = file[n].rec.deleted \cap mail[Finished[n]].recips
             /\ mail[Finished[n]].read = file[n].rec.read \cap mail[Finished[n]].recips
    BY <1>5 DEF IInv, CleanIsSaved
  <2>2. DOMAIN Finished = 1..Len(Finished)
    BY <1>1 DEF ListIs
  <2>3. DOMAIN file = 1..Len(file)
    BY DEF IInv, TypeOK
  <2>4. \A n \in DOMAIN Finished : n \in DOMAIN file
    BY <2>1, <2>2, <2>3
  <2>5. \A n \in DOMAIN Finished : file[n].rec.text = Finished[n]
    BY <2>1, <2>4 DEF IInv, Filed
  <2> QED BY <2>1, <2>4, <2>5
<1>6. OwnText'
  <2> SUFFICES ASSUME NEW n \in DOMAIN Finished
               PROVE  IF mail'[Finished[n]].text # NoText THEN mail'[Finished[n]].text = Finished[n]
                      ELSE /\ n \in DOMAIN file /\ file[n].letter = Finished[n]
                           /\ file[n].rec.text = Finished[n]
    BY DEF OwnText, InCore
  <2> DEFINE l == Finished[n]
  <2>1. l \in Letter /\ l \in Posted /\ l # NoText
    BY <1>4, LetterFacts
  <2>2. IF mail[l].text # NoText THEN mail[l].text = l
        ELSE n \in DOMAIN file /\ file[n].letter = l /\ file[n].rec.text = l
    BY DEF IInv, OwnText, InCore
  <2>3. CASE mail'[l].text \in {mail[l].text, l}
    BY <2>1, <2>2, <2>3
  <2>4. CASE ~dirty /\ author # "nuked" /\ mail'[l].text = NoText
    BY <2>4, <1>5
  <2> HIDE DEF l
  <2> QED BY <2>1, <2>3, <2>4 DEF l
<1>7. CleanIsSaved'
  <2> SUFFICES ASSUME ~dirty', author' # "nuked" PROVE CleanIsSaved'
    BY DEF CleanIsSaved
  <2>1. ~dirty /\ author # "nuked"
    OBVIOUS
  <2>2. ASSUME NEW n \in DOMAIN Finished
        PROVE  /\ file[n].letter = Finished[n]
               /\ mail'[Finished[n]].recips \subseteq file[n].rec.recips
               /\ mail'[Finished[n]].deleted = file[n].rec.deleted \cap mail'[Finished[n]].recips
               /\ mail'[Finished[n]].read = file[n].rec.read \cap mail'[Finished[n]].recips
    <3> DEFINE l == Finished[n]
    <3>1. /\ mail'[l].recips \subseteq mail[l].recips
          /\ mail'[l].deleted = mail[l].deleted \cap mail'[l].recips
          /\ mail'[l].read = mail[l].read \cap mail'[l].recips
      BY <1>4
    <3>2. /\ file[n].letter = l
          /\ mail[l].recips \subseteq file[n].rec.recips
          /\ mail[l].deleted = file[n].rec.deleted \cap mail[l].recips
          /\ mail[l].read = file[n].rec.read \cap mail[l].recips
      BY <2>1, <1>5
    <3> HIDE DEF l
    <3> QED BY <3>1, <3>2 DEF l
  <2> QED BY <2>1, <2>2, <1>5 DEF CleanIsSaved
<1>8. TimersLive'
  BY <1>2 DEF TimersLive
<1> QED BY <1>3, <1>6, <1>7, <1>8 DEF IInv

\* A step that leaves the list, with its draft, and the file alone.
LEMMA SameList ==
  ASSUME IInv, TypeOK',
         UNCHANGED <<sent, editing, file, begun>>,
         author' = "nuked" => author = "nuked",
         author = "nuked" => author' = "nuked" \/ dirty',
         editing => author' = "on",
         dirty => dirty',
         \A l \in Letter :
           /\ l \notin Range(sent) => mail'[l] = Blank
           /\ Proper(mail'[l])
           /\ l \in Posted => mail'[l].text \in {mail[l].text, l}
           /\ l \in Posted /\ ~dirty' =>
                /\ mail'[l].recips \subseteq mail[l].recips
                /\ mail'[l].deleted = mail[l].deleted \cap mail'[l].recips
                /\ mail'[l].read = mail[l].read \cap mail'[l].recips,
         editing => /\ mail'[Draft].deleted = {} /\ mail'[Draft].read = {}
                    /\ mail'[Draft].text = NoText,
         timed' \subseteq Posted
  PROVE  IInv'
<1>1. Finished' = Finished /\ Draft' = Draft
  BY DEF Finished, Draft
<1>2. Shape'
  BY DEF IInv, Shape
<1>3. Blanked'
  BY <1>1 DEF Blanked
<1>4. Posted \subseteq Letter
  BY TheList DEF IInv, Shape, ListIs
<1>5. begun <= begun'
  BY DEF IInv, TypeOK
<1> QED BY <1>1, <1>2, <1>3, <1>4, <1>5, SameFinished

\* The list is one in the next state too.
LEMMA TheNextList == TypeOK' /\ (editing' => sent' # <<>>) => ListIs'
<1> DEFINE Drafted == editing => sent # <<>>
<1>1. TypeOK /\ Drafted => ListIs
  BY TheList
<1> HIDE DEF Drafted
<1>2. TypeOK' /\ Drafted' => ListIs'
  BY <1>1, PTL
<1> QED BY <1>2 DEF Drafted

-----------------------------------------------------------------------------
(* The steps that leave the list and the file alone. *)

\* Mails changed in the fields given, as TypeOK has them.
LEMMA MailTypes ==
  ASSUME IInv
  PROVE  /\ mail \in [Letter -> MailRec]
         /\ \A l \in Letter : /\ mail[l].recips \in SUBSET Reader /\ mail[l].deleted \in SUBSET Reader
                              /\ mail[l].read \in SUBSET Reader
                              /\ mail[l].text \in Letter \cup {NoText}
                              /\ Proper(mail[l])
         /\ \A l \in Posted : l \in Letter /\ l \in Range(sent)
         /\ editing => Draft \in Letter /\ Draft \notin Posted /\ Draft \in Range(sent)
<1>1. ListIs /\ mail \in [Letter -> MailRec]
  BY TheList DEF IInv, Shape, TypeOK
<1>2. /\ \A l \in Posted : l \in Letter /\ l \in Range(sent)
      /\ editing => Draft \in Letter /\ Draft \notin Posted /\ Draft \in Range(sent)
  BY <1>1 DEF ListIs
<1> QED BY <1>1, <1>2 DEF MailRec, IInv, Blanked

LEMMA LogonIInv == ASSUME IInv, Logon PROVE IInv'
<1>1. TypeOK'
  BY DEF IInv, TypeOK, Logon
<1>2. \A l \in Letter :
        /\ l \notin Range(sent) => mail'[l] = Blank
        /\ Proper(mail'[l])
        /\ mail'[l].text = mail[l].text
        /\ mail'[l].recips = mail[l].recips
        /\ mail'[l].deleted = mail[l].deleted /\ mail[l].deleted \subseteq mail[l].recips
        /\ mail'[l].read = mail[l].read /\ mail[l].read \subseteq mail[l].recips
  BY DEF IInv, Blanked, Logon, Proper
<1>3. editing => /\ mail'[Draft].deleted = {} /\ mail'[Draft].read = {}
                 /\ mail'[Draft].text = NoText
  BY DEF IInv, Blanked, Logon
<1>4. timed' \subseteq Posted
  BY DEF IInv, TimersLive, Logon
<1>5. author = "off" /\ author' = "on" /\ UNCHANGED <<sent, editing, file, begun, dirty>>
  BY DEF Logon
<1>6. \A l \in Letter :
        mail'[l].deleted = mail[l].deleted \cap mail'[l].recips
        /\ mail'[l].read = mail[l].read \cap mail'[l].recips
  BY <1>2
<1> QED BY <1>1, <1>2, <1>3, <1>4, <1>5, <1>6, SameList

LEMMA NewReaderIInv == ASSUME IInv, NEW p \in Reader, NewReader(p) PROVE IInv'
<1>1. TypeOK'
  BY DEF IInv, TypeOK, NewReader
<1>2. UNCHANGED <<author, sent, editing, mail, dirty, timed, file, begun>>
  BY DEF NewReader
<1> QED BY <1>1, <1>2 DEF IInv, Shape, Blanked, Filed, OwnText, CleanIsSaved, TimersLive,
                           Finished, Posted, Draft, InCore

LEMMA AddressIInv == ASSUME IInv, NEW p \in Reader, Address(p) PROVE IInv'
<1>0. /\ author = "on" /\ author' = "on" /\ editing
      /\ UNCHANGED <<sent, editing, dirty, timed, file, resident, begun>>
      /\ mail' = [mail EXCEPT ![Draft].recips = @ \cup {p}]
  BY DEF Address
<1>a. ListIs
  BY TheList DEF IInv, Shape
<1>1. Draft \in Letter /\ Draft \notin Posted /\ Draft \in Range(sent)
  BY MailTypes, <1>0
<1>2. /\ mail' \in [Letter -> MailRec]
      /\ \A l \in Letter : l # Draft => mail'[l] = mail[l]
      /\ mail'[Draft].recips = mail[Draft].recips \cup {p}
      /\ mail'[Draft].deleted = mail[Draft].deleted
      /\ mail'[Draft].read = mail[Draft].read
      /\ mail'[Draft].text = mail[Draft].text
  BY <1>0, <1>1, MailTypes DEF MailRec
<1>3. TypeOK'
  BY <1>0, <1>2 DEF IInv, TypeOK
<1>4. \A l \in Letter : l \notin Range(sent) => mail'[l] = Blank
  BY <1>1, <1>2 DEF IInv, Blanked
<1>5. \A l \in Letter : Proper(mail'[l])
  BY <1>1, <1>2, MailTypes DEF Proper
<1>6. \A l \in Posted : mail'[l] = mail[l] /\ Proper(mail[l])
  BY <1>1, <1>2, MailTypes
<1>7. \A l \in Posted : mail'[l].text \in {mail[l].text, l}
      /\ mail'[l].recips \subseteq mail[l].recips
      /\ mail'[l].deleted = mail[l].deleted \cap mail'[l].recips
      /\ mail'[l].read = mail[l].read \cap mail'[l].recips
  BY <1>6 DEF Proper
<1>8. mail'[Draft].deleted = {} /\ mail'[Draft].read = {} /\ mail'[Draft].text = NoText
  BY <1>0, <1>2 DEF IInv, Blanked
<1>9. timed' \subseteq Posted
  BY <1>0 DEF IInv, TimersLive
<1> QED BY <1>0, <1>3, <1>4, <1>5, <1>7, <1>8, <1>9, SameList
\* Letters are loaded, and marked by readers.
LEMMA ReadsIInv ==
  ASSUME IInv, NEW ls \in SUBSET Posted,
         UNCHANGED <<author, sent, editing, file, resident, begun>>,
         timed' = timed \cup Loaded(ls),
         dirty' \in BOOLEAN, dirty => dirty',
         mail' \in [Letter -> MailRec],
         \A l \in Letter : l \notin ls => mail'[l] = mail[l],
         \A l \in ls : /\ mail'[l].recips = mail[l].recips
                       /\ mail'[l].text = l
                       /\ mail'[l].deleted \cup mail'[l].read \subseteq mail[l].recips
                       /\ ~dirty' => mail'[l].deleted = mail[l].deleted /\ mail'[l].read = mail[l].read
  PROVE  IInv'
<1>a. ListIs
  BY TheList DEF IInv, Shape
<1>b. ls \subseteq Letter /\ \A l \in Posted : l \in Letter /\ l \in Range(sent)
  BY MailTypes
<1>1. TypeOK'
  <2>1. timed' \in SUBSET Letter
    BY <1>b DEF IInv, TypeOK, Loaded
  <2> QED BY <2>1 DEF IInv, TypeOK
<1>2. \A l \in Letter : l \notin Range(sent) => mail'[l] = Blank
  BY <1>b DEF IInv, Blanked
<1>3. \A l \in Letter : Proper(mail'[l])
  BY MailTypes DEF Proper
<1>4. \A l \in Letter : Proper(mail[l])
  BY MailTypes
<1>5. ASSUME NEW l \in Letter, l \in Posted
      PROVE  /\ mail'[l].text \in {mail[l].text, l}
             /\ ~dirty' => /\ mail'[l].recips \subseteq mail[l].recips
                           /\ mail'[l].deleted = mail[l].deleted \cap mail'[l].recips
                           /\ mail'[l].read = mail[l].read \cap mail'[l].recips
  <2>1. mail[l].deleted \subseteq mail[l].recips /\ mail[l].read \subseteq mail[l].recips
    BY <1>4 DEF Proper
  <2>2. CASE l \in ls
    BY <2>1, <2>2
  <2>3. CASE l \notin ls
    BY <2>1, <2>3
  <2> QED BY <2>2, <2>3
<1>6. editing => /\ mail'[Draft].deleted = {} /\ mail'[Draft].read = {}
                 /\ mail'[Draft].text = NoText
  <2>1. editing => Draft \in Letter /\ Draft \notin ls
    BY MailTypes
  <2> QED BY <2>1 DEF IInv, Blanked
<1>7. timed' \subseteq Posted
  BY DEF IInv, TimersLive, Loaded
<1>8. (author = "nuked" => dirty' \/ author' = "nuked") /\ (editing => author' = "on")
  BY DEF IInv, Shape
<1> QED BY <1>1, <1>2, <1>3, <1>5, <1>6, <1>7, <1>8, SameList

LEMMA ReadSentIInv == ASSUME IInv, NEW l \in Letter, ReadSent(l) PROVE IInv'
<1>1. /\ {l} \in SUBSET Posted /\ mail' = WithTexts({l}) /\ timed' = timed \cup Loaded({l})
      /\ UNCHANGED <<author, sent, editing, dirty, file, resident, begun>>
  BY DEF ReadSent
<1>2. Proper(mail[l]) /\ dirty \in BOOLEAN
  BY MailTypes DEF IInv, TypeOK
<1> QED BY <1>1, <1>2, Texts, ReadsIInv DEF Proper

LEMMA ReadLetterIInv == ASSUME IInv, NEW p \in Reader, NEW l \in Letter, ReadLetter(p, l) PROVE IInv'
<1>1. /\ {l} \in SUBSET Posted /\ p \in mail[l].recips
      /\ mail' = [WithTexts({l}) EXCEPT ![l].read = @ \cup {p}]
      /\ timed' = timed \cup Loaded({l})
      /\ dirty' = (dirty \/ p \notin mail[l].read)
      /\ UNCHANGED <<author, sent, editing, file, resident, begun>>
  BY DEF ReadLetter, Received
<1>2. Proper(mail[l]) /\ dirty \in BOOLEAN
  BY MailTypes DEF IInv, TypeOK
<1> DEFINE w == WithTexts({l})
<1>3. /\ w \in [Letter -> MailRec]
      /\ w[l].recips = mail[l].recips /\ w[l].deleted = mail[l].deleted /\ w[l].read = mail[l].read
      /\ w[l].text = l /\ \A k \in Letter : k # l => w[k] = mail[k]
  BY <1>1, Texts
<1> HIDE DEF w
<1>4. /\ mail' \in [Letter -> MailRec]
      /\ \A k \in Letter : k \notin {l} => mail'[k] = mail[k]
      /\ mail'[l].recips = mail[l].recips /\ mail'[l].deleted = mail[l].deleted
      /\ mail'[l].read = mail[l].read \cup {p} /\ mail'[l].text = l
  <2>1. mail' = [w EXCEPT ![l].read = @ \cup {p}]
    BY <1>1 DEF w
  <2>2. w[l] \in MailRec
    BY <1>3
  <2> QED BY <2>1, <2>2, <1>3 DEF MailRec
<1>5. mail'[l].deleted \cup mail'[l].read \subseteq mail[l].recips
  BY <1>1, <1>2, <1>4 DEF Proper
<1>6. ~dirty' => mail'[l].read = mail[l].read
  BY <1>1, <1>4
<1>7. dirty' \in BOOLEAN /\ (dirty => dirty')
  BY <1>1, <1>2
<1> QED BY <1>1, <1>4, <1>5, <1>6, <1>7, ReadsIInv

LEMMA ReplyIInv == ASSUME IInv, NEW p \in Reader, NEW l \in Letter, Reply(p, l) PROVE IInv'
<1>1. /\ {l} \in SUBSET Posted /\ mail' = WithTexts({l}) /\ timed' = timed \cup Loaded({l})
      /\ dirty' = TRUE
      /\ UNCHANGED <<author, sent, editing, file, resident, begun>>
  BY DEF Reply, Received
<1>2. Proper(mail[l])
  BY MailTypes
<1> QED BY <1>1, <1>2, Texts, ReadsIInv DEF Proper

LEMMA DeleteReceivedIInv ==
  ASSUME IInv, NEW p \in Reader, NEW ls \in SUBSET Letter, DeleteReceived(p, ls) PROVE IInv'
<1>1. /\ ls \in SUBSET Posted /\ \A l \in ls : p \in mail[l].recips
      /\ mail' = [l \in Letter |-> IF l \in ls
                    THEN [WithTexts(ls)[l] EXCEPT !.deleted = @ \cup {p}] ELSE mail[l]]
      /\ timed' = timed \cup Loaded(ls)
      /\ dirty' = TRUE
      /\ UNCHANGED <<author, sent, editing, file, resident, begun>>
  BY DEF DeleteReceived, Received
<1> DEFINE w == WithTexts(ls)
<1>3. /\ w \in [Letter -> MailRec]
      /\ \A l \in ls : /\ w[l].recips = mail[l].recips /\ w[l].deleted = mail[l].deleted
                       /\ w[l].read = mail[l].read /\ w[l].text = l
  BY <1>1, Texts
<1> HIDE DEF w
<1>4. \A l \in ls : Proper(mail[l])
  BY MailTypes
<1>5. ASSUME NEW l \in ls
      PROVE  /\ mail'[l] \in MailRec
             /\ mail'[l].recips = mail[l].recips /\ mail'[l].text = l
             /\ mail'[l].deleted \cup mail'[l].read \subseteq mail[l].recips
  <2>1. mail'[l] = [w[l] EXCEPT !.deleted = @ \cup {p}] /\ w[l] \in MailRec
    BY <1>1, <1>3 DEF w
  <2>2. /\ mail'[l] \in MailRec
        /\ mail'[l].recips = w[l].recips /\ mail'[l].text = w[l].text
        /\ mail'[l].read = w[l].read /\ mail'[l].deleted = w[l].deleted \cup {p}
    BY <2>1 DEF MailRec
  <2> QED BY <2>2, <1>1, <1>3, <1>4 DEF Proper
<1>6. mail' \in [Letter -> MailRec] /\ \A l \in Letter : l \notin ls => mail'[l] = mail[l]
  BY <1>1, <1>5, MailTypes
<1> QED BY <1>1, <1>5, <1>6, ReadsIInv

LEMMA NukeReaderIInv == ASSUME IInv, NEW p \in Reader, NukeReader(p) PROVE IInv'
<1>1. /\ resident' = resident \ {p}
      /\ mail' = [l \in Letter |-> [mail[l] EXCEPT !.recips = @ \ {p}, !.deleted = @ \ {p},
                                                   !.read = @ \ {p}]]
      /\ UNCHANGED <<author, sent, editing, dirty, timed, file, begun>>
  BY DEF NukeReader
<1>2. ASSUME NEW l \in Letter
      PROVE  /\ mail'[l] \in MailRec
             /\ mail'[l].recips = mail[l].recips \ {p} /\ mail'[l].deleted = mail[l].deleted \ {p}
             /\ mail'[l].read = mail[l].read \ {p} /\ mail'[l].text = mail[l].text
  <2>1. mail[l] \in MailRec /\ mail'[l] = [mail[l] EXCEPT !.recips = @ \ {p}, !.deleted = @ \ {p},
                                                          !.read = @ \ {p}]
    BY <1>1, MailTypes
  <2> QED BY <2>1 DEF MailRec
<1>3. mail' \in [Letter -> MailRec]
  BY <1>1, <1>2
<1>4. TypeOK'
  BY <1>1, <1>3 DEF IInv, TypeOK
<1>5. ASSUME NEW l \in Letter, l \notin Range(sent) PROVE mail'[l] = Blank
  <2>1. mail[l] = Blank
    BY <1>5 DEF IInv, Blanked
  <2>2. /\ mail'[l] \in MailRec /\ mail'[l].recips = {} /\ mail'[l].deleted = {}
        /\ mail'[l].read = {} /\ mail'[l].text = NoText
    BY <2>1, <1>2 DEF Blank
  <2> QED BY <2>2 DEF Blank, MailRec
<1>6. ASSUME NEW l \in Letter
      PROVE  /\ Proper(mail'[l])
             /\ mail'[l].recips \subseteq mail[l].recips
             /\ mail'[l].deleted = mail[l].deleted \cap mail'[l].recips
             /\ mail'[l].read = mail[l].read \cap mail'[l].recips
  <2>1. Proper(mail[l])
    BY MailTypes
  <2> QED BY <2>1, <1>2 DEF Proper
<1>7. editing => /\ mail'[Draft].deleted = {} /\ mail'[Draft].read = {}
                 /\ mail'[Draft].text = NoText
  <2>1. editing => Draft \in Letter
    BY MailTypes
  <2> QED BY <2>1, <1>2 DEF IInv, Blanked
<1>8. timed' \subseteq Posted /\ (editing => author' = "on")
  BY <1>1 DEF IInv, TimersLive, Shape
<1> QED BY <1>1, <1>2, <1>4, <1>5, <1>6, <1>7, <1>8, SameList
-----------------------------------------------------------------------------
(* Saving and freeing. *)

LEMMA SavesIInv ==
  ASSUME IInv, NEW freed \in SUBSET Posted, NEW queued \in SUBSET Posted,
         SaveAndFree(freed, queued),
         UNCHANGED <<sent, editing, resident, begun>>,
         author # "nuked", author' \in {"on", "leaving", "off"}, editing => author' = "on"
  PROVE  IInv'
<1> DEFINE all == IF dirty THEN WithTexts(Posted) ELSE mail
<1>a. ListIs
  BY TheList DEF IInv, Shape
<1>b. Finished' = Finished /\ Posted' = Posted /\ Draft' = Draft
  BY DEF Finished, Posted, Draft
<1>c. /\ Len(Finished) \in Nat /\ DOMAIN Finished = 1..Len(Finished) /\ Increasing(Finished)
      /\ \A n \in DOMAIN Finished : Finished[n] \in Letter /\ Finished[n] \in Posted
      /\ \A n \in DOMAIN Finished : n \in DOMAIN sent /\ Finished[n] = sent[n]
      /\ \A l \in Posted : l \in Letter /\ l \in Range(sent)
      /\ editing => Draft \in Letter /\ Draft \notin Posted
  BY <1>a, MailTypes DEF ListIs
<1>1. /\ all \in [Letter -> MailRec]
      /\ \A l \in Letter :
           /\ all[l].recips = mail[l].recips
           /\ all[l].deleted = mail[l].deleted
           /\ all[l].read = mail[l].read
           /\ l \notin Posted => all[l] = mail[l]
           /\ l \in Posted => all[l].text = IF dirty THEN l ELSE mail[l].text
  <2>1. CASE dirty
    BY <2>1, Texts
  <2>2. CASE ~dirty
    BY <2>2, MailTypes
  <2> QED BY <2>1, <2>2
<1>2. /\ timed' = queued \cup (IF dirty THEN Loaded(Posted) ELSE {})
      /\ \/ ~dirty /\ UNCHANGED <<dirty, file>>
         \/ dirty /\ dirty' = FALSE /\ file' = Sections(all)
         \/ dirty /\ UNCHANGED <<dirty, file>>
      /\ mail' = [l \in Letter |-> IF l \in freed /\ ~dirty'
                                   THEN [all[l] EXCEPT !.text = NoText] ELSE all[l]]
  BY DEF SaveAndFree
<1> HIDE DEF all
<1>3. ASSUME NEW l \in Letter
      PROVE  /\ mail'[l] \in MailRec
             /\ mail'[l].recips = mail[l].recips
             /\ mail'[l].deleted = mail[l].deleted
             /\ mail'[l].read = mail[l].read
             /\ l \notin Posted => mail'[l] = mail[l]
             /\ l \in Posted => mail'[l].text = IF l \in freed /\ ~dirty' THEN NoText
                                                ELSE IF dirty THEN l ELSE mail[l].text
  <2>1. all[l] \in MailRec
    BY <1>1
  <2>2. CASE l \in freed /\ ~dirty'
    <3>1. mail'[l] = [all[l] EXCEPT !.text = NoText]
      BY <2>2, <1>2
    <3>2. /\ mail'[l] \in MailRec /\ mail'[l].recips = all[l].recips
          /\ mail'[l].deleted = all[l].deleted /\ mail'[l].read = all[l].read
          /\ mail'[l].text = NoText
      BY <3>1, <2>1 DEF MailRec
    <3> QED BY <3>2, <2>2, <1>1
  <2>3. CASE ~ (l \in freed /\ ~dirty')
    <3>1. mail'[l] = all[l]
      BY <2>3, <1>2
    <3> QED BY <3>1, <2>1, <2>3, <1>1
  <2> QED BY <2>2, <2>3
<1>4. mail' \in [Letter -> MailRec] /\ timed' \subseteq Posted /\ dirty' \in BOOLEAN
  <2>1. mail' \in [Letter -> MailRec]
    BY <1>2, <1>3
  <2>2. dirty \in BOOLEAN
    BY DEF IInv, TypeOK
  <2> QED BY <2>1, <2>2, <1>2 DEF Loaded
<1>5. \A l \in Letter : /\ l \notin Range(sent) => mail'[l] = Blank
                        /\ Proper(mail'[l]) /\ Proper(mail[l])
  BY <1>3, <1>c, MailTypes DEF IInv, Blanked, Proper
<1>6. editing => /\ mail'[Draft].deleted = {} /\ mail'[Draft].read = {}
                 /\ mail'[Draft].text = NoText
  BY <1>3, <1>c DEF IInv, Blanked
<1>7. Shape'
  BY DEF IInv, Shape
<1>8. Blanked'
  BY <1>5, <1>6, <1>b DEF Blanked
<1>9. TimersLive'
  BY <1>4, <1>b DEF TimersLive
<1>10. timed' \in SUBSET Letter
  BY <1>4, <1>c
<1>11. CASE dirty /\ UNCHANGED <<dirty, file>>
  <2>1. TypeOK'
    BY <1>4, <1>10, <1>11 DEF IInv, TypeOK
  <2>2. \A l \in Letter : l \in Posted => mail'[l].text \in {mail[l].text, l}
    BY <1>3, <1>11
  <2> QED BY <2>1, <2>2, <1>4, <1>5, <1>6, <1>11, SameList
<1>12. CASE ~dirty /\ UNCHANGED <<dirty, file>>
  <2>1. TypeOK'
    BY <1>4, <1>10, <1>12 DEF IInv, TypeOK
  <2>2. Filed'
    BY <1>12 DEF IInv, Filed
  <2>3. /\ Len(file) = Len(Finished) /\ Len(file) \in Nat /\ DOMAIN file = 1..Len(file)
        /\ \A n \in DOMAIN Finished : file[n].letter = Finished[n]
    BY <1>12, <1>c DEF IInv, CleanIsSaved, TypeOK
  <2>4. OwnText'
    <3> SUFFICES ASSUME NEW n \in DOMAIN Finished
                 PROVE  IF mail'[Finished[n]].text # NoText THEN mail'[Finished[n]].text = Finished[n]
                        ELSE /\ n \in DOMAIN file' /\ file'[n].letter = Finished[n]
                             /\ file'[n].rec.text = Finished[n]
      BY <1>b DEF OwnText, InCore
    <3>1. n \in DOMAIN file /\ file[n].letter = Finished[n] /\ file[n].rec.text = Finished[n]
      BY <2>3, <1>c DEF IInv, Filed
    <3>2. mail[Finished[n]].text # NoText => mail[Finished[n]].text = Finished[n]
      BY DEF IInv, OwnText, InCore
    <3>3. Finished[n] \in Letter /\ Finished[n] \in Posted
      BY <1>c
    <3>4. mail'[Finished[n]].text \in {NoText, mail[Finished[n]].text}
      BY <3>3, <1>3, <1>12
    <3> QED BY <3>1, <3>2, <3>4, <1>12
  <2>5. CleanIsSaved'
    <3>1. \A n \in DOMAIN Finished :
            /\ mail'[Finished[n]].recips = mail[Finished[n]].recips
            /\ mail'[Finished[n]].deleted = mail[Finished[n]].deleted
            /\ mail'[Finished[n]].read = mail[Finished[n]].read
      BY <1>c, <1>3
    <3> QED BY <3>1, <1>b, <1>12 DEF IInv, CleanIsSaved
  <2> QED BY <2>1, <2>2, <2>4, <2>5, <1>7, <1>8, <1>9 DEF IInv
<1>13. CASE dirty /\ dirty' = FALSE /\ file' = Sections(all)
  <2>1. file' = [n \in 1..Len(Finished) |-> [letter |-> Finished[n], rec |-> all[Finished[n]]]]
    BY <1>13, <1>c DEF Sections
  <2>2. /\ DOMAIN file' = 1..Len(Finished) /\ DOMAIN file' = DOMAIN Finished
        /\ \A n \in DOMAIN Finished : /\ file'[n].letter = Finished[n]
                                      /\ file'[n].rec = all[Finished[n]]
                                      /\ file'[n] \in [letter : Letter, rec : MailRec]
    BY <2>1, <1>c, <1>1
  <2>3. file' \in Seq([letter : Letter, rec : MailRec])
    BY <2>1, <2>2, <1>c
  <2>4. Len(file') = Len(Finished)
    BY <2>3, <2>2, <1>c
  <2>5. \A n \in DOMAIN Finished :
          /\ all[Finished[n]].text = Finished[n]
          /\ all[Finished[n]].recips = mail'[Finished[n]].recips
          /\ all[Finished[n]].deleted = mail'[Finished[n]].deleted
          /\ all[Finished[n]].read = mail'[Finished[n]].read
          /\ Proper(mail'[Finished[n]])
    BY <1>1, <1>3, <1>5, <1>c, <1>13
  <2>6. TypeOK'
    BY <2>3, <1>4, <1>10 DEF IInv, TypeOK
  <2>7. Filed'
    <3>1. \A i, j \in DOMAIN file' : i < j => file'[i].letter < file'[j].letter
      BY <2>2, <1>c DEF Increasing
    <3>2. \A n \in DOMAIN file' : file'[n].letter <= begun'
      BY <2>2, <1>c DEF IInv, Shape
    <3>3. \A n \in DOMAIN file' : file'[n].rec.text = file'[n].letter /\ Proper(file'[n].rec)
      BY <2>2, <2>5 DEF Proper
    <3> QED BY <3>1, <3>2, <3>3 DEF Filed
  <2>8. OwnText'
    <3> SUFFICES ASSUME NEW n \in DOMAIN Finished
                 PROVE  IF mail'[Finished[n]].text # NoText THEN mail'[Finished[n]].text = Finished[n]
                        ELSE /\ n \in DOMAIN file' /\ file'[n].letter = Finished[n]
                             /\ file'[n].rec.text = Finished[n]
      BY <1>b DEF OwnText, InCore
    <3>1. mail'[Finished[n]].text \in {NoText, Finished[n]}
      BY <1>3, <1>c, <1>13
    <3> QED BY <3>1, <2>2, <2>5
  <2>9. CleanIsSaved'
    <3>1. \A n \in DOMAIN Finished :
            /\ file'[n].letter = Finished[n]
            /\ mail'[Finished[n]].recips \subseteq file'[n].rec.recips
            /\ mail'[Finished[n]].deleted = file'[n].rec.deleted \cap mail'[Finished[n]].recips
            /\ mail'[Finished[n]].read = file'[n].rec.read \cap mail'[Finished[n]].recips
      BY <2>2, <2>5 DEF Proper
    <3> QED BY <3>1, <2>4, <1>b DEF CleanIsSaved
  <2> QED BY <2>6, <2>7, <2>8, <2>9, <1>7, <1>8, <1>9 DEF IInv
<1> QED BY <1>2, <1>11, <1>12, <1>13

LEMMA TimerFiresIInv == ASSUME IInv, NEW l \in Letter, TimerFires(l) PROVE IInv'
<1>a. ListIs
  BY TheList DEF IInv, Shape
<1>0. /\ l \in timed /\ timed \subseteq Posted
      /\ UNCHANGED <<author, sent, editing, resident, begun>>
  BY DEF TimerFires, IInv, TimersLive
<1>1. author # "nuked" /\ author \in {"on", "leaving", "off"} /\ (editing => author = "on")
  <2>1. Posted # {}
    BY <1>0
  <2>2. editing \/ sent # <<>>
    BY <2>1 DEF Posted, Finished, Range
  <2> QED BY <2>2 DEF IInv, Shape, TypeOK
<1>2. CASE SaveAndFree({l}, timed \ {l})
  BY <1>0, <1>1, <1>2, SavesIInv
<1>3. CASE SaveAndFree({}, timed)
  BY <1>0, <1>1, <1>3, SavesIInv
<1>4. CASE UNCHANGED <<mail, dirty, timed, file>>
  BY <1>0, <1>4 DEF IInv, TypeOK, Shape, Blanked, Filed, OwnText, CleanIsSaved, TimersLive,
                    Finished, Posted, Draft, InCore
<1> QED BY <1>2, <1>3, <1>4 DEF TimerFires

LEMMA LeaveIInv == ASSUME IInv, Leave PROVE IInv'
<1>1. /\ author = "leaving" /\ author' = "off" /\ SaveAndFree({}, timed)
      /\ UNCHANGED <<sent, editing, resident, begun>>
      /\ {} \in SUBSET Posted /\ timed \in SUBSET Posted /\ ~editing
  BY DEF Leave, IInv, TimersLive, Shape
<1> QED BY <1>1, SavesIInv

-----------------------------------------------------------------------------
(* The steps that change the list. *)

\* What is left when posted letters are unlinked, and the draft stays the last.
LEMMA Unlinked ==
  ASSUME IInv, NEW ls \in SUBSET Posted
  PROVE  LET s == Without(sent, ls) IN
           /\ s \in Seq(Letter) /\ Increasing(s) /\ Range(s) = Range(sent) \ ls
           /\ \A i, j \in DOMAIN s : i < j => s[i] < s[j]
           /\ \A n \in DOMAIN s : s[n] <= begun
           /\ editing => s # <<>> /\ Last(s) = Draft
           /\ ls = {} => s = sent
<1> DEFINE s == Without(sent, ls)
<1>1. ListIs
  BY TheList DEF IInv, Shape
<1>2. s \in Seq(Letter) /\ Increasing(s) /\ Range(s) = Range(sent) \ ls
  BY <1>1, WithoutFacts, LetterFacts DEF ListIs
<1> HIDE DEF s
<1>3. /\ Len(s) \in Nat /\ DOMAIN s = 1..Len(s) /\ \A n \in 1..Len(s) : s[n] \in Nat
  BY <1>2, LetterFacts, ListFacts
<1>4. \A n \in DOMAIN s : s[n] <= begun
  <2>1. \A n \in DOMAIN s : s[n] \in Range(sent)
    BY <1>2 DEF Range
  <2>2. \A l \in Range(sent) : l <= begun
    BY DEF Range, IInv, Shape
  <2> QED BY <2>1, <2>2
<1>5. ASSUME editing PROVE s # <<>> /\ Last(s) = Draft
  <2>1. /\ Draft \in Range(sent) \ ls /\ Draft \in Nat
        /\ \A l \in Range(sent) : l = Draft \/ l < Draft
    BY <1>1, <1>5, LetterFacts DEF ListIs
  <2>2. PICK n \in 1..Len(s) : s[n] = Draft
    BY <2>1, <1>2, <1>3 DEF Range
  <2>3. Len(s) \in 1..Len(s) /\ Len(s) \in Nat /\ n \in Nat /\ n <= Len(s)
    BY <2>2, <1>3
  <2>4. s[Len(s)] = Draft \/ s[Len(s)] < Draft
    BY <2>3, <2>1, <1>2, <1>3 DEF Range
  <2>5. n < Len(s) => Draft < s[Len(s)]
    BY <2>2, <2>3, <1>2, <1>3 DEF Increasing
  <2>6. s[Len(s)] = Draft
    <3>1. s[Len(s)] \in Nat
      BY <2>3, <1>3
    <3>2. n = Len(s) \/ n < Len(s)
      BY <2>3
    <3> QED BY <3>1, <3>2, <2>1, <2>2, <2>4, <2>5
  <2>7. s # <<>>
    BY <2>3
  <2> QED BY <2>6, <2>7 DEF Last
<1>6. ls = {} => s = sent
  BY <1>1, <1>2, OneList, LetterFacts DEF ListIs
<1> QED BY <1>2, <1>4, <1>5, <1>6 DEF Increasing, s

\* Letters go when all texts are in memory.
LEMMA AllLoaded ==
  ASSUME IInv, TypeOK', Shape', Blanked', UNCHANGED file, begun <= begun', dirty',
         Posted' \subseteq Posted, \A l \in Posted' : mail'[l].text = l,
         timed' \subseteq Posted'
  PROVE  IInv'
<1>1. Filed'
  <2>1. /\ begun \in Nat /\ begun' \in Nat
        /\ \A n \in DOMAIN file : file[n].letter \in Nat
    <3>1. begun \in 0..MaxLetters /\ begun' \in 0..MaxLetters
      BY DEF IInv, TypeOK
    <3>2. \A n \in DOMAIN file : file[n].letter \in Letter
      BY TheFile DEF IInv
    <3>3. begun \in Nat /\ begun' \in Nat
      BY <3>1
    <3>4. \A n \in DOMAIN file : file[n].letter \in Nat
      BY <3>2, LetterFacts
    <3> QED BY <3>3, <3>4
  <2> QED BY <2>1 DEF IInv, Filed
<1>2. ListIs'
  BY TheNextList DEF Shape
<1>3. \A n \in DOMAIN Finished' : Finished'[n] \in Posted' /\ Finished'[n] \in Letter
  BY <1>2 DEF ListIs
<1>4. OwnText'
  BY <1>3, LetterFacts DEF OwnText, InCore
<1>5. CleanIsSaved' /\ TimersLive'
  BY DEF CleanIsSaved, TimersLive
<1> QED BY <1>1, <1>4, <1>5 DEF IInv

LEMMA DeleteSentIInv == ASSUME IInv, NEW ls \in SUBSET Letter, DeleteSent(ls) PROVE IInv'
<1> DEFINE w == WithTexts(Posted)
<1>1. /\ author = "on" /\ ls \in SUBSET Posted
      /\ sent' = Without(sent, ls)
      /\ mail' = [l \in Letter |-> IF l \in ls THEN Blank ELSE w[l]]
      /\ timed' = (timed \cup Loaded(Posted)) \ ls
      /\ dirty' = TRUE
      /\ UNCHANGED <<author, editing, file, resident, begun>>
  BY DEF DeleteSent, Destroy
<1>2. /\ sent' \in Seq(Letter) /\ Range(sent') = Range(sent) \ ls
      /\ \A i, j \in DOMAIN sent' : i < j => sent'[i] < sent'[j]
      /\ \A n \in DOMAIN sent' : sent'[n] <= begun
      /\ editing => sent' # <<>> /\ Last(sent') = Draft
  BY <1>1, Unlinked
<1>3. ListIs
  BY TheList DEF IInv, Shape
<1>4. /\ w \in [Letter -> MailRec]
      /\ \A l \in Letter :
           /\ w[l].recips = mail[l].recips /\ w[l].deleted = mail[l].deleted
           /\ w[l].read = mail[l].read
           /\ w[l].text = IF l \in Posted THEN l ELSE mail[l].text
           /\ l \notin Posted => w[l] = mail[l]
  BY Texts
<1> HIDE DEF w
<1>5. Blank \in MailRec /\ Proper(Blank)
  BY DEF Blank, MailRec, Proper
<1>6. TypeOK'
  <2>1. mail' \in [Letter -> MailRec]
    BY <1>1, <1>4, <1>5
  <2>2. timed' \in SUBSET Letter
    BY <1>1, <1>3 DEF IInv, TypeOK, Loaded, ListIs
  <2> QED BY <1>1, <1>2, <2>1, <2>2 DEF IInv, TypeOK
<1>7. Shape'
  BY <1>1, <1>2 DEF IInv, Shape
<1>8. ListIs'
  BY <1>6, <1>7, TheNextList DEF Shape
<1>9. (editing => Draft' = Draft) /\ Posted' = Posted \ ls
  <2>1. editing => Draft' = Draft
    BY <1>2 DEF Draft
  <2>2. CASE editing
    <3>1. Range(sent) = Posted \cup {Draft} /\ Draft \notin Posted
      BY <2>2, <1>3 DEF ListIs
    <3>2. Range(sent') = Posted' \cup {Draft'} /\ Draft' \notin Posted'
      BY <2>2, <1>1, <1>8 DEF ListIs
    <3> QED BY <3>1, <3>2, <2>1, <2>2, <1>1, <1>2
  <2>3. CASE ~editing
    <3>1. Range(sent) = Posted
      BY <2>3, <1>3 DEF ListIs
    <3>2. Range(sent') = Posted'
      BY <2>3, <1>1, <1>8 DEF ListIs
    <3> QED BY <3>1, <3>2, <2>3, <1>2
  <2> QED BY <2>1, <2>2, <2>3
<1>10. \A l \in Letter : /\ l \notin Range(sent') => mail'[l] = Blank
                         /\ Proper(mail'[l])
  <2> SUFFICES ASSUME NEW l \in Letter
               PROVE  (l \notin Range(sent') => mail'[l] = Blank) /\ Proper(mail'[l])
    OBVIOUS
  <2>1. CASE l \in ls
    BY <2>1, <1>1, <1>5
  <2>2. CASE l \notin ls
    <3>1. mail'[l] = w[l] /\ Proper(mail[l])
      BY <2>2, <1>1, MailTypes
    <3>2. Proper(w[l])
      BY <3>1, <1>4 DEF Proper
    <3>3. l \notin Range(sent') => l \notin Range(sent) /\ l \notin Posted
      BY <2>2, <1>2, MailTypes
    <3> QED BY <3>1, <3>2, <3>3, <1>4 DEF IInv, Blanked
  <2> QED BY <2>1, <2>2
<1>11. Blanked'
  <2>1. editing => Draft \in Letter /\ Draft \notin Posted
    BY MailTypes
  <2>2. editing => mail'[Draft] = mail[Draft]
    BY <2>1, <1>1, <1>4
  <2> QED BY <2>2, <1>1, <1>9, <1>10 DEF IInv, Blanked
<1>12. \A l \in Posted' : mail'[l].text = l
  BY <1>1, <1>3, <1>4, <1>9 DEF ListIs
<1>13. timed' \subseteq Posted' /\ begun <= begun'
  BY <1>1, <1>9 DEF IInv, TimersLive, Loaded, TypeOK
<1> QED BY <1>1, <1>6, <1>7, <1>9, <1>11, <1>12, <1>13, AllLoaded
\* A draft is put at the end of the list.
LEMMA Appended ==
  ASSUME NEW S \in SUBSET Nat, NEW s \in Seq(S), Increasing(s), NEW x \in S,
         \A n \in DOMAIN s : s[n] < x
  PROVE  /\ Append(s, x) \in Seq(S) /\ Append(s, x) # <<>>
         /\ Increasing(Append(s, x))
         /\ Range(Append(s, x)) = Range(s) \cup {x}
         /\ Front(Append(s, x)) = s /\ Last(Append(s, x)) = x
<1> DEFINE t == Append(s, x)
<1>1. Len(s) \in Nat /\ DOMAIN s = 1..Len(s) /\ \A n \in 1..Len(s) : s[n] \in S /\ s[n] \in Nat
  BY ListFacts
<1>2. /\ t \in Seq(S) /\ t # <<>> /\ Len(t) = Len(s) + 1
      /\ \A n \in 1..Len(s) : t[n] = s[n]
      /\ t[Len(s) + 1] = x
  BY AppendProperties
<1> HIDE DEF t
<1>3. DOMAIN t = 1..(Len(s) + 1) /\ 1..(Len(s) + 1) = 1..Len(s) \cup {Len(s) + 1}
  BY <1>1, <1>2
<1>4. Increasing(t)
  <2> SUFFICES ASSUME NEW i \in 1..(Len(s) + 1), NEW j \in 1..(Len(s) + 1), i < j
               PROVE  t[i] < t[j]
    BY <1>3 DEF Increasing
  <2>1. i \in 1..Len(s)
    BY <1>1
  <2>2. CASE j = Len(s) + 1
    BY <2>1, <2>2, <1>1, <1>2
  <2>3. CASE j \in 1..Len(s)
    BY <2>1, <2>3, <1>1, <1>2 DEF Increasing
  <2> QED BY <2>2, <2>3, <1>3
<1>5. Range(t) = Range(s) \cup {x}
  <2>1. Range(t) = {t[i] : i \in 1..Len(s)} \cup {t[Len(s) + 1]}
    BY <1>3 DEF Range
  <2>2. Range(s) = {s[i] : i \in 1..Len(s)}
    BY <1>1 DEF Range
  <2> QED BY <2>1, <2>2, <1>2
<1>6. Last(t) = x
  BY <1>2 DEF Last
<1>7. Front(t) = s
  <2>1. Len(t) - 1 = Len(s) /\ Front(t) = SubSeq(t, 1, Len(s))
    BY <1>1, <1>2 DEF Front
  <2>2. /\ SubSeq(t, 1, Len(s)) \in Seq(S)
        /\ Len(SubSeq(t, 1, Len(s))) = Len(s) - 1 + 1
        /\ \A j \in 1..(Len(s) - 1 + 1) : SubSeq(t, 1, Len(s))[j] = t[1 + j - 1]
    <3>1. 1 \in Nat /\ 1 <= Len(s) + 1 /\ Len(s) <= Len(t)
      BY <1>1, <1>2
    <3> QED BY <3>1, <1>1, <1>2, SliceFacts
  <2>3. Len(s) - 1 + 1 = Len(s) /\ \A j \in 1..Len(s) : 1 + j - 1 = j
    BY <1>1
  <2>4. \A j \in 1..Len(s) : SubSeq(t, 1, Len(s))[j] = s[j]
    BY <2>2, <2>3, <1>2
  <2> QED BY <2>1, <2>2, <2>3, <2>4, SeqEqual
<1> QED BY <1>2, <1>4, <1>5, <1>6, <1>7 DEF t

LEMMA ReapedArePosted ==
  ASSUME IInv, NEW old \in 0..Len(Finished)
  PROVE  Reaped(old) \subseteq Posted
<1>1. ListIs
  BY TheList DEF IInv, Shape
<1>2. old \in Nat /\ old <= Len(Finished) /\ Len(Finished) \in Nat /\ Finished \in Seq(Letter)
      /\ DOMAIN Finished = 1..Len(Finished)
  <2>1. /\ Len(Finished) \in Nat /\ Finished \in Seq(Letter)
        /\ DOMAIN Finished = 1..Len(Finished)
    BY <1>1 DEF ListIs
  <2>2. old \in Nat /\ old <= Len(Finished)
    BY <2>1
  <2> QED BY <2>1, <2>2
<1> DEFINE s == SubSeq(Finished, 1, old)
<1>3. s \in Seq(Letter) /\ Len(s) = old - 1 + 1 /\ \A j \in 1..(old - 1 + 1) : s[j] = Finished[1 + j - 1]
  BY <1>2, SliceFacts
<1> HIDE DEF s
<1>4. DOMAIN s = 1..old /\ \A j \in 1..old : s[j] = Finished[j] /\ j \in DOMAIN Finished
  <2>1. old - 1 + 1 = old /\ \A j \in 1..old : 1 + j - 1 = j
    BY <1>2
  <2>2. DOMAIN s = 1..old /\ \A j \in 1..old : s[j] = Finished[j]
    BY <2>1, <1>3
  <2> QED BY <2>2, <1>2
<1>5. Range(s) \subseteq Posted
  BY <1>4 DEF Range, Posted
<1> QED BY <1>5 DEF Reaped, s

LEMMA BeginIInv == ASSUME IInv, Begin PROVE IInv'
<1>a. ListIs
  BY TheList DEF IInv, Shape
<1>0. /\ author = "on" /\ editing = FALSE /\ begun < MaxLetters
      /\ UNCHANGED <<author, file, resident>>
  BY DEF Begin, IInv, TypeOK
<1>b. /\ Posted = Range(sent) /\ Finished = sent /\ Posted \subseteq Letter
      /\ sent \in Seq(Letter) /\ Len(sent) \in Nat
  BY <1>a, <1>0 DEF ListIs
<1>1. PICK old \in 0..Len(Finished) :
        LET full == Len(Finished) >= MaxMails
            reaped == IF full THEN Reaped(old) ELSE {}
            room == Len(Finished) - Cardinality(reaped) < MaxMails
            kept == Without(sent, reaped)
            texts == IF full THEN WithTexts(Posted) ELSE mail
        IN /\ sent' = IF room THEN Append(kept, begun + 1) ELSE kept
           /\ editing' = room
           /\ begun' = IF room THEN begun + 1 ELSE begun
           /\ mail' = [l \in Letter |-> IF l \in reaped THEN Blank ELSE texts[l]]
           /\ timed' = (timed \cup (IF full THEN Loaded(Posted) ELSE {})) \ reaped
           /\ dirty' = (dirty \/ reaped # {})
  BY DEF Begin
<1> DEFINE full == Len(Finished) >= MaxMails
           reaped == IF full THEN Reaped(old) ELSE {}
           room == Len(Finished) - Cardinality(reaped) < MaxMails
           kept == Without(sent, reaped)
           texts == IF full THEN WithTexts(Posted) ELSE mail
           x == begun + 1
<1>2. reaped \in SUBSET Posted /\ (reaped # {} => full)
  BY <1>1, ReapedArePosted
<1>3. room \in BOOLEAN
  <2>1. IsFiniteSet(Letter)
    BY FS_Interval, LetterFacts DEF Letter
  <2>2. IsFiniteSet(reaped)
    BY <2>1, <1>2, <1>b, FS_Subset
  <2>3. Cardinality(reaped) \in Nat
    BY <2>2, FS_CardinalityType
  <2> HIDE DEF reaped
  <2> QED BY <2>3, <1>b, ConstAssumption
<1>4. /\ kept \in Seq(Letter) /\ Increasing(kept) /\ Range(kept) = Range(sent) \ reaped
      /\ \A n \in DOMAIN kept : kept[n] <= begun
      /\ reaped = {} => kept = sent
  BY <1>2, Unlinked
<1>5. /\ texts \in [Letter -> MailRec]
      /\ \A l \in Letter :
           /\ texts[l].recips = mail[l].recips /\ texts[l].deleted = mail[l].deleted
           /\ texts[l].read = mail[l].read
           /\ texts[l].text = IF full /\ l \in Posted THEN l ELSE mail[l].text
           /\ l \notin Posted => texts[l] = mail[l]
  <2>1. CASE full
    <3>1. texts = WithTexts(Posted)
      BY <2>1
    <3> HIDE DEF texts, full
    <3> QED BY <3>1, <2>1, Texts
  <2>2. CASE ~full
    <3>1. texts = mail
      BY <2>2
    <3> HIDE DEF texts, full
    <3> QED BY <3>1, <2>2, MailTypes
  <2> QED BY <2>1, <2>2
<1> HIDE DEF full, reaped, room, kept, texts
<1>6. /\ sent' = IF room THEN Append(kept, x) ELSE kept
      /\ editing' = room
      /\ begun' = IF room THEN x ELSE begun
      /\ mail' = [l \in Letter |-> IF l \in reaped THEN Blank ELSE texts[l]]
      /\ timed' = (timed \cup (IF full THEN Loaded(Posted) ELSE {})) \ reaped
      /\ dirty' = (dirty \/ reaped # {})
  BY <1>1 DEF full, reaped, room, kept, texts
<1>7. begun \in Nat /\ x \in Letter /\ x \in 0..MaxLetters /\ begun < x
  <2>1. begun \in 0..MaxLetters
    BY DEF IInv, TypeOK
  <2>2. begun \in Nat /\ begun + 1 <= MaxLetters
    BY <2>1, <1>0, LetterFacts
  <2> QED BY <2>2, LetterFacts DEF Letter
<1> HIDE DEF x
<1>8. \A l \in Range(sent) : l <= begun /\ l \in Nat
  BY <1>a, LetterFacts DEF IInv, Shape, Range, ListIs
<1>9. x \notin Range(sent)
  BY <1>7, <1>8
<1>10. room => /\ Append(kept, x) \in Seq(Letter) /\ Append(kept, x) # <<>>
               /\ Increasing(Append(kept, x))
               /\ Range(Append(kept, x)) = Range(kept) \cup {x}
               /\ Front(Append(kept, x)) = kept /\ Last(Append(kept, x)) = x
  <2>1. \A n \in DOMAIN kept : kept[n] < x
    <3> SUFFICES ASSUME NEW n \in DOMAIN kept PROVE kept[n] < x
      OBVIOUS
    <3>1. kept[n] \in Nat /\ kept[n] <= begun
      BY <1>4, LetterFacts, ListFacts
    <3> QED BY <3>1, <1>7, LetterFacts
  <2> QED BY <2>1, <1>4, <1>7, LetterFacts, Appended
<1>11. /\ Finished' = kept /\ Posted' = Posted \ reaped
       /\ Range(sent') = IF room THEN (Range(sent) \ reaped) \cup {x} ELSE Range(sent) \ reaped
       /\ sent' \in Seq(Letter) /\ Increasing(sent')
       /\ room => sent' # <<>> /\ Draft' = x
  <2>1. Finished' = kept
    BY <1>6, <1>10 DEF Finished
  <2> QED BY <2>1, <1>4, <1>6, <1>10, <1>b DEF Posted, Draft
<1>12. \A n \in DOMAIN sent' : sent'[n] <= begun'
  <2> SUFFICES ASSUME NEW n \in DOMAIN sent' PROVE sent'[n] <= begun'
    OBVIOUS
  <2>1. sent'[n] \in Range(sent')
    BY DEF Range
  <2>2. CASE room
    <3>1. begun' = x /\ (sent'[n] = x \/ sent'[n] \in Range(sent))
      BY <2>1, <2>2, <1>6, <1>11
    <3>2. x \in Nat
      BY <1>7, LetterFacts
    <3> QED BY <3>1, <3>2, <1>7, <1>8
  <2>3. CASE ~room
    BY <2>1, <2>3, <1>6, <1>8, <1>11
  <2> QED BY <2>2, <2>3
<1>13. Blank \in MailRec /\ Proper(Blank)
  BY DEF Blank, MailRec, Proper
<1>14. TypeOK'
  <2>1. mail' \in [Letter -> MailRec]
    BY <1>6, <1>5, <1>13
  <2>2. timed' \in SUBSET Letter
    BY <1>6, <1>b DEF IInv, TypeOK, Loaded
  <2>3. begun' \in 0..MaxLetters
    BY <1>6, <1>7 DEF IInv, TypeOK
  <2>4. dirty' \in BOOLEAN
    BY <1>6 DEF IInv, TypeOK
  <2>5. \A i, j \in DOMAIN sent' : i < j => sent'[i] < sent'[j]
    BY <1>11 DEF Increasing
  <2> QED BY <2>1, <2>2, <2>3, <2>4, <2>5, <1>0, <1>3, <1>6, <1>11 DEF IInv, TypeOK
<1>15. Shape'
  BY <1>0, <1>6, <1>11, <1>12 DEF Shape
<1>16. ASSUME NEW l \in Letter
       PROVE  (l \notin Range(sent') => mail'[l] = Blank) /\ Proper(mail'[l])
  <2>1. CASE l \in reaped
    BY <2>1, <1>6, <1>13
  <2>2. CASE l \notin reaped
    <3>1. mail'[l] = texts[l] /\ Proper(mail[l])
      BY <2>2, <1>6, MailTypes
    <3>2. Proper(texts[l])
      BY <3>1, <1>5 DEF Proper
    <3>3. l \notin Range(sent') => l \notin Range(sent) /\ l \notin Posted
      BY <2>2, <1>11, <1>b
    <3> QED BY <3>1, <3>2, <3>3, <1>5 DEF IInv, Blanked
  <2> QED BY <2>1, <2>2
<1>17. Blanked'
  <2>1. x \notin Posted /\ x \notin reaped /\ mail[x] = Blank
    BY <1>9, <1>b, <1>2, <1>7 DEF IInv, Blanked
  <2>2. mail'[x] = Blank
    BY <2>1, <1>5, <1>6, <1>7
  <2>3. editing' => /\ mail'[Draft'].deleted = {} /\ mail'[Draft'].read = {}
                    /\ mail'[Draft'].text = NoText
    BY <2>2, <1>6, <1>11 DEF Blank
  <2> QED BY <2>3, <1>16 DEF Blanked
<1>18. begun <= begun' /\ timed' \subseteq Posted'
  BY <1>6, <1>7, <1>11 DEF IInv, TimersLive, Loaded
<1>19. CASE reaped = {}
  <2>1. Finished' = Finished /\ Posted' = Posted
    BY <1>19, <1>4, <1>11, <1>b
  <2>2. \A l \in Posted :
          /\ mail'[l].text \in {mail[l].text, l} /\ Proper(mail[l])
          /\ mail'[l].recips = mail[l].recips /\ mail'[l].deleted = mail[l].deleted
          /\ mail'[l].read = mail[l].read
    BY <1>19, <1>5, <1>6, <1>b, MailTypes
  <2>3. \A l \in Posted :
          /\ mail'[l].deleted = mail[l].deleted \cap mail'[l].recips
          /\ mail'[l].read = mail[l].read \cap mail'[l].recips
    BY <2>2 DEF Proper
  <2>4. dirty' = dirty /\ author # "nuked"
    BY <1>19, <1>6, <1>0 DEF IInv, TypeOK
  <2> QED BY <2>1, <2>2, <2>3, <2>4, <1>0, <1>14, <1>15, <1>17, <1>18, SameFinished
<1>20. CASE reaped # {}
  <2>1. full /\ dirty'
    BY <1>20, <1>2, <1>6
  <2>2. \A l \in Posted' : mail'[l].text = l
    BY <2>1, <1>5, <1>6, <1>11, <1>b
  <2> QED BY <2>1, <2>2, <1>0, <1>11, <1>14, <1>15, <1>17, <1>18, AllLoaded
<1> QED BY <1>19, <1>20

\* The draft goes, and the texts of a clean author may go with it.
LEMMA Trimmed ==
  ASSUME IInv, NEW freed \in SUBSET Posted,
         author = "on", author' \in {"on", "leaving"},
         editing' = FALSE, sent' = Finished,
         freed # {} => ~dirty,
         mail' = [l \in Letter |-> IF l \notin Posted THEN Blank
                                   ELSE IF l \in freed THEN [mail[l] EXCEPT !.text = NoText]
                                   ELSE mail[l]],
         UNCHANGED <<dirty, timed, file, resident, begun>>
  PROVE  IInv'
<1>1. ListIs
  BY TheList DEF IInv, Shape
<1>2. /\ Finished \in Seq(Letter) /\ \A i, j \in DOMAIN Finished : i < j => Finished[i] < Finished[j]
      /\ Posted = Range(Finished)
      /\ \A n \in DOMAIN Finished : n \in DOMAIN sent /\ Finished[n] = sent[n]
      /\ Posted \subseteq Letter
  BY <1>1 DEF ListIs, Increasing, Posted
<1>3. ASSUME NEW l \in Letter
      PROVE  /\ mail'[l] \in MailRec /\ Proper(mail'[l])
             /\ l \notin Posted => mail'[l] = Blank
             /\ l \in Posted => /\ mail'[l].recips = mail[l].recips
                                /\ mail'[l].deleted = mail[l].deleted
                                /\ mail'[l].read = mail[l].read
                                /\ mail'[l].text = IF l \in freed THEN NoText ELSE mail[l].text
  <2>1. mail[l] \in MailRec /\ Proper(mail[l])
    BY MailTypes
  <2>2. CASE l \notin Posted
    BY <2>2 DEF Blank, MailRec, Proper
  <2>3. CASE l \in freed
    <3>1. mail'[l] = [mail[l] EXCEPT !.text = NoText]
      BY <2>3
    <3> QED BY <3>1, <2>1, <2>3 DEF MailRec, Proper
  <2>4. CASE l \in Posted \ freed
    BY <2>1, <2>4
  <2> QED BY <2>2, <2>3, <2>4
<1>4. mail' \in [Letter -> MailRec]
  BY <1>3
<1>5. TypeOK'
  BY <1>2, <1>4 DEF IInv, TypeOK
<1>6. Shape'
  BY <1>2 DEF IInv, Shape
<1>7. Blanked'
  BY <1>2, <1>3 DEF Blanked
<1>8. Finished' = Finished
  BY DEF Finished
<1>9. \A l \in Posted :
        /\ \/ mail'[l].text \in {mail[l].text, l}
           \/ ~dirty /\ author # "nuked" /\ mail'[l].text = NoText
        /\ mail'[l].recips = mail[l].recips /\ Proper(mail[l])
        /\ mail'[l].deleted = mail[l].deleted
        /\ mail'[l].read = mail[l].read
  BY <1>2, <1>3, MailTypes
<1>10. \A l \in Posted : /\ mail'[l].deleted = mail[l].deleted \cap mail'[l].recips
                         /\ mail'[l].read = mail[l].read \cap mail'[l].recips
  BY <1>9 DEF Proper
<1>11. timed' \subseteq Posted /\ begun <= begun'
  BY DEF IInv, TimersLive, TypeOK
<1> QED BY <1>5, <1>6, <1>7, <1>8, <1>9, <1>10, <1>11, SameFinished

LEMMA DiscardIInv == ASSUME IInv, Discard PROVE IInv'
<1>1. ListIs
  BY TheList DEF IInv, Shape
<1>2. /\ author = "on" /\ editing /\ editing' = FALSE
      /\ sent' = Without(sent, {Draft})
      /\ mail' = [l \in Letter |-> IF l \in {Draft} THEN Blank ELSE mail[l]]
      /\ UNCHANGED <<author, dirty, timed, file, resident, begun>>
  BY DEF Discard, Destroy
<1>3. sent' = Finished
  <2>1. sent' \in Seq(Letter) /\ Increasing(sent') /\ Range(sent') = Range(sent) \ {Draft}
    BY <1>1, <1>2, WithoutFacts, LetterFacts DEF ListIs
  <2>2. Finished \in Seq(Letter) /\ Increasing(Finished) /\ Range(Finished) = Range(sent) \ {Draft}
    BY <1>1, <1>2 DEF ListIs, Posted
  <2> QED BY <2>1, <2>2, OneList, LetterFacts
<1>4. mail' = [l \in Letter |-> IF l \notin Posted THEN Blank
                                ELSE IF l \in {} THEN [mail[l] EXCEPT !.text = NoText]
                                ELSE mail[l]]
  <2>1. \A l \in Letter : l \notin Posted /\ l # Draft => mail[l] = Blank
    BY <1>1, <1>2 DEF IInv, Blanked, ListIs
  <2>2. Draft \notin Posted
    BY <1>1, <1>2 DEF ListIs
  <2> QED BY <1>2, <2>1, <2>2
<1>5. {} \in SUBSET Posted
  OBVIOUS
<1> QED BY <1>2, <1>3, <1>4, <1>5, Trimmed

LEMMA LogoffIInv == ASSUME IInv, Logoff PROVE IInv'
<1>1. /\ author = "on" /\ author' = "leaving" /\ editing' = FALSE /\ sent' = Finished
      /\ mail' = [l \in Letter |-> IF l \notin Posted THEN Blank
                                   ELSE IF dirty THEN mail[l]
                                   ELSE [mail[l] EXCEPT !.text = NoText]]
      /\ UNCHANGED <<dirty, timed, file, resident, begun>>
  BY DEF Logoff
<1> DEFINE freed == IF dirty THEN {} ELSE Posted
<1>2. freed \in SUBSET Posted /\ (freed # {} => ~dirty)
  OBVIOUS
<1>3. mail' = [l \in Letter |-> IF l \notin Posted THEN Blank
                                ELSE IF l \in freed THEN [mail[l] EXCEPT !.text = NoText]
                                ELSE mail[l]]
  BY <1>1
<1> HIDE DEF freed
<1> QED BY <1>1, <1>2, <1>3, Trimmed

LEMMA PostIInv == ASSUME IInv, Post PROVE IInv'
<1>1. ListIs
  BY TheList DEF IInv, Shape
<1>2. PICK refused \in SUBSET mail[Draft].recips :
        mail' = [mail EXCEPT ![Draft].recips = @ \ refused, ![Draft].text = Draft]
  BY DEF Post
<1>3. /\ author = "on" /\ editing /\ editing' = FALSE
      /\ timed' = timed \cup {Draft} /\ dirty' = TRUE
      /\ UNCHANGED <<author, sent, file, resident, begun>>
  BY DEF Post
<1>4. Draft \in Letter /\ Draft \notin Posted /\ Range(sent) = Posted \cup {Draft}
  BY <1>1, <1>3 DEF ListIs
<1>5. /\ mail' \in [Letter -> MailRec]
      /\ \A l \in Letter : l # Draft => mail'[l] = mail[l]
      /\ mail'[Draft].text = Draft
      /\ mail'[Draft].deleted = {} /\ mail'[Draft].read = {}
  <2>1. mail \in [Letter -> MailRec] /\ mail[Draft].deleted = {} /\ mail[Draft].read = {}
    BY <1>3, MailTypes DEF IInv, Blanked
  <2> DEFINE r == [mail[Draft] EXCEPT !.recips = @ \ refused, !.text = Draft]
  <2>2. /\ r \in MailRec /\ r.text = Draft /\ r.deleted = {} /\ r.read = {}
    BY <2>1, <1>4 DEF MailRec
  <2>3. mail' = [mail EXCEPT ![Draft] = r]
    BY <1>2, <1>4, <2>1
  <2> HIDE DEF r
  <2> QED BY <2>1, <2>2, <2>3, <1>4
<1>6. TypeOK'
  BY <1>3, <1>4, <1>5 DEF IInv, TypeOK
<1>7. Shape'
  BY <1>3 DEF IInv, Shape
<1>8. Finished' = sent /\ Posted' = Posted \cup {Draft}
  BY <1>3, <1>4 DEF Finished, Posted
<1>9. Blanked'
  <2>1. \A l \in Letter : /\ l \notin Range(sent) => mail'[l] = Blank
                          /\ Proper(mail'[l])
    BY <1>4, <1>5, MailTypes DEF IInv, Blanked, Proper
  <2> QED BY <2>1, <1>3 DEF Blanked
<1>10. Filed'
  BY <1>3 DEF IInv, Filed
<1>11. OwnText'
  <2> SUFFICES ASSUME NEW n \in DOMAIN sent
               PROVE  IF mail'[sent[n]].text # NoText THEN mail'[sent[n]].text = sent[n]
                      ELSE n \in DOMAIN file /\ file[n].letter = sent[n] /\ file[n].rec.text = sent[n]
    BY <1>3, <1>8 DEF OwnText, InCore
  <2>1. /\ Len(sent) \in Nat /\ n \in 1..Len(sent) /\ Len(Finished) = Len(sent) - 1
        /\ DOMAIN Finished = 1..Len(Finished) /\ Draft = sent[Len(sent)]
    BY <1>1, <1>3 DEF ListIs
  <2>2. CASE n = Len(sent)
    BY <2>1, <2>2, <1>4, <1>5, LetterFacts
  <2>3. CASE n # Len(sent)
    <3>1. n \in DOMAIN Finished
      BY <2>1, <2>3
    <3>2. sent[n] = Finished[n] /\ Finished[n] \in Posted /\ Finished[n] \in Letter
      BY <3>1, <1>1 DEF ListIs
    <3>3. mail'[sent[n]] = mail[sent[n]]
      BY <3>2, <1>4, <1>5
    <3> QED BY <3>1, <3>2, <3>3 DEF IInv, OwnText, InCore
  <2> QED BY <2>2, <2>3
<1>12. CleanIsSaved' /\ TimersLive'
  BY <1>3, <1>8 DEF CleanIsSaved, TimersLive, IInv
<1> QED BY <1>6, <1>7, <1>9, <1>10, <1>11, <1>12 DEF IInv

LEMMA NukeAuthorIInv == ASSUME IInv, NukeAuthor PROVE IInv'
<1>1. ListIs
  BY TheList DEF IInv, Shape
<1>2. /\ author = "off" /\ author' = "nuked" /\ editing = FALSE
      /\ sent' = Without(sent, Posted)
      /\ mail' = [l \in Letter |-> IF l \in Posted THEN Blank ELSE mail[l]]
      /\ timed' = timed \ Posted
      /\ UNCHANGED <<editing, dirty, file, resident, begun>>
  BY DEF NukeAuthor, Destroy, IInv, Shape, TypeOK
<1>3. Posted = Range(sent) /\ Posted \subseteq Letter
  BY <1>1, <1>2 DEF ListIs
<1>4. sent' = <<>>
  <2>1. sent' \in Seq(Letter) /\ Increasing(sent') /\ Range(sent') = {}
    <3>1. sent \in Seq(Letter) /\ Increasing(sent)
      BY <1>1 DEF ListIs
    <3>2. /\ Without(sent, Posted) \in Seq(Letter) /\ Increasing(Without(sent, Posted))
          /\ Range(Without(sent, Posted)) = Range(sent) \ Posted
      BY <3>1, WithoutFacts, LetterFacts
    <3> QED BY <3>2, <1>2, <1>3
  <2>2. <<>> \in Seq(Letter) /\ Increasing(<<>>) /\ Range(<<>>) = {}
    BY DEF Increasing, Range
  <2> QED BY <2>1, <2>2, OneList, LetterFacts
<1>5. Blank \in MailRec /\ Proper(Blank)
  BY DEF Blank, MailRec, Proper
<1>6. \A l \in Letter : mail'[l] = Blank
  BY <1>2, <1>3 DEF IInv, Blanked
<1>7. TypeOK'
  <2>1. mail' \in [Letter -> MailRec]
    BY <1>2, <1>5, <1>6
  <2> QED BY <2>1, <1>2, <1>4 DEF IInv, TypeOK
<1>8. Finished' = <<>>
  BY <1>2, <1>4 DEF Finished
<1>9. timed' = {}
  BY <1>2 DEF IInv, TimersLive
<1>10. Shape' /\ Blanked' /\ Filed'
  BY <1>2, <1>4, <1>5, <1>6 DEF Shape, Blanked, Filed, IInv
<1>11. OwnText' /\ CleanIsSaved' /\ TimersLive'
  BY <1>2, <1>8, <1>9 DEF OwnText, CleanIsSaved, TimersLive
<1> QED BY <1>7, <1>10, <1>11 DEF IInv

LEMMA NewAuthorIInv == ASSUME IInv, NewAuthor PROVE IInv'
<1>1. /\ author = "nuked" /\ author' = "on" /\ dirty' = TRUE
      /\ UNCHANGED <<sent, editing, mail, timed, file, resident, begun>>
  BY DEF NewAuthor
<1>2. TypeOK' /\ Shape' /\ Blanked' /\ Filed'
  BY <1>1 DEF IInv, TypeOK, Shape, Blanked, Filed, Draft
<1>3. OwnText' /\ CleanIsSaved' /\ TimersLive'
  BY <1>1 DEF IInv, OwnText, CleanIsSaved, TimersLive, Finished, Posted, InCore
<1> QED BY <1>2, <1>3 DEF IInv

LEMMA RebootIInv == ASSUME IInv, Reboot PROVE IInv'
<1> DEFINE found == IF author = "nuked" THEN <<>> ELSE file
           kept(s) == [recips  |-> s.rec.recips \cap resident,
                       deleted |-> s.rec.deleted \cap resident,
                       read    |-> s.rec.read \cap resident, text |-> NoText]
           at(l) == CHOOSE n \in DOMAIN found : found[n].letter = l
<1>1. /\ author' = IF author = "nuked" THEN "nuked" ELSE "off"
      /\ sent' = [n \in DOMAIN found |-> found[n].letter]
      /\ mail' = [l \in Letter |-> IF \E n \in DOMAIN found : found[n].letter = l
                                   THEN kept(found[at(l)]) ELSE Blank]
      /\ editing' = FALSE /\ dirty' = FALSE /\ timed' = {}
      /\ UNCHANGED <<file, resident, begun>>
  BY DEF Reboot
<1>2. /\ Len(found) \in Nat /\ DOMAIN found = 1..Len(found)
      /\ \A n \in DOMAIN found : found[n].letter \in Letter /\ found[n].rec \in MailRec
  <2>1. CASE author = "nuked"
    <3>1. found = <<>>
      BY <2>1
    <3> HIDE DEF found
    <3> QED BY <3>1
  <2>2. CASE author # "nuked"
    <3>1. found = file
      BY <2>2
    <3> HIDE DEF found
    <3> QED BY <3>1, TheFile DEF IInv
  <2> QED BY <2>1, <2>2
<1>3. /\ \A i, j \in DOMAIN found : i < j => found[i].letter < found[j].letter
      /\ \A n \in DOMAIN found : /\ found[n].letter <= begun
                                 /\ found[n].rec.text = found[n].letter
                                 /\ Proper(found[n].rec)
  <2>1. CASE author = "nuked"
    BY <2>1
  <2>2. CASE author # "nuked"
    BY <2>2 DEF IInv, Filed
  <2> QED BY <2>1, <2>2
<1>a. (author = "nuked" => Len(found) = 0) /\ (author # "nuked" => found = file)
  BY <1>2
<1> HIDE DEF found
<1>4. \A i, j \in DOMAIN found : found[i].letter = found[j].letter => i = j
  <2> SUFFICES ASSUME NEW i \in DOMAIN found, NEW j \in DOMAIN found,
                      found[i].letter = found[j].letter, i # j
               PROVE  FALSE
    OBVIOUS
  <2>1. i < j \/ j < i
    BY <1>2
  <2>2. found[i].letter \in Nat /\ found[j].letter \in Nat
    BY <1>2, LetterFacts
  <2> QED BY <2>1, <2>2, <1>3
<1>5. \A n \in DOMAIN found : at(found[n].letter) = n
  BY <1>4
<1> HIDE DEF at
<1>6. ASSUME NEW n \in DOMAIN found, NEW l, l = found[n].letter
      PROVE  /\ mail'[l] \in MailRec /\ Proper(mail'[l])
             /\ mail'[l].text = NoText
             /\ mail'[l].recips = found[n].rec.recips \cap resident
             /\ mail'[l].deleted = found[n].rec.deleted \cap resident
             /\ mail'[l].read = found[n].rec.read \cap resident
  <2>1. l \in Letter /\ at(l) = n /\ found[n].rec \in MailRec /\ Proper(found[n].rec)
    BY <1>2, <1>3, <1>5, <1>6
  <2>2. mail'[l] = kept(found[n])
    BY <2>1, <1>1, <1>6
  <2> QED BY <2>1, <2>2 DEF MailRec, Proper
<1>7. ASSUME NEW l \in Letter, \A n \in DOMAIN found : found[n].letter # l
      PROVE  mail'[l] = Blank /\ mail'[l] \in MailRec /\ Proper(mail'[l])
  <2>1. mail'[l] = Blank
    BY <1>1, <1>7
  <2> QED BY <2>1 DEF Blank, MailRec, Proper
<1>8. mail' \in [Letter -> MailRec]
  <2>1. \A l \in Letter : mail'[l] \in MailRec
    BY <1>6, <1>7
  <2> QED BY <2>1, <1>1
<1>9. /\ sent' \in Seq(Letter) /\ Len(sent') = Len(found) /\ DOMAIN sent' = DOMAIN found
      /\ \A n \in DOMAIN found : sent'[n] = found[n].letter
  <2>1. sent' = [n \in 1..Len(found) |-> found[n].letter]
    BY <1>1, <1>2
  <2>2. \A n \in 1..Len(found) : found[n].letter \in Letter
    BY <1>2
  <2> QED BY <2>1, <2>2, <1>2
<1>10. TypeOK'
  <2>1. \A i, j \in DOMAIN sent' : i < j => sent'[i] < sent'[j]
    BY <1>3, <1>9
  <2> QED BY <2>1, <1>1, <1>8, <1>9 DEF IInv, TypeOK
<1>11. Shape'
  <2>1. author' = "nuked" => sent' = <<>>
    <3> SUFFICES ASSUME author = "nuked" PROVE sent' = <<>>
      BY <1>1
    <3>1. Len(sent') = 0
      BY <1>a, <1>9
    <3> QED BY <3>1, <1>9
  <2>2. \A n \in DOMAIN sent' : sent'[n] <= begun'
    BY <1>1, <1>3, <1>9
  <2> QED BY <2>1, <2>2, <1>1 DEF Shape
<1>12. Blanked'
  <2>1. \A l \in Letter : Proper(mail'[l])
    BY <1>6, <1>7
  <2>2. \A l \in Letter : l \notin Range(sent') => \A n \in DOMAIN found : found[n].letter # l
    BY <1>9 DEF Range
  <2> QED BY <2>1, <2>2, <1>1, <1>7 DEF Blanked
<1>13. Filed'
  BY <1>1 DEF IInv, Filed
<1>14. Finished' = sent'
  BY <1>1 DEF Finished
<1>15. \A n \in DOMAIN found : n \in DOMAIN file /\ found[n] = file[n]
  BY <1>2, <1>a
<1>16. OwnText'
  <2> SUFFICES ASSUME NEW n \in DOMAIN found
               PROVE  /\ mail'[sent'[n]].text = NoText
                      /\ n \in DOMAIN file' /\ file'[n].letter = sent'[n]
                      /\ file'[n].rec.text = sent'[n]
    BY <1>9, <1>14 DEF OwnText, InCore
  <2> QED BY <1>1, <1>3, <1>6, <1>9, <1>15
<1>17. CleanIsSaved'
  <2> SUFFICES ASSUME author # "nuked" PROVE CleanIsSaved'
    BY <1>1 DEF CleanIsSaved
  <2>1. found = file
    BY <1>a
  <2>2. ASSUME NEW n \in DOMAIN found
        PROVE  /\ file'[n].letter = sent'[n]
               /\ mail'[sent'[n]].recips \subseteq file'[n].rec.recips
               /\ mail'[sent'[n]].deleted = file'[n].rec.deleted \cap mail'[sent'[n]].recips
               /\ mail'[sent'[n]].read = file'[n].rec.read \cap mail'[sent'[n]].recips
    <3>1. file'[n] = found[n] /\ sent'[n] = found[n].letter
      BY <2>1, <1>1, <1>9
    <3>2. found[n].rec.deleted \subseteq found[n].rec.recips
          /\ found[n].rec.read \subseteq found[n].rec.recips
      BY <1>3 DEF Proper
    <3>3. /\ mail'[sent'[n]].recips = found[n].rec.recips \cap resident
          /\ mail'[sent'[n]].deleted = found[n].rec.deleted \cap resident
          /\ mail'[sent'[n]].read = found[n].rec.read \cap resident
      BY <3>1, <1>6
    <3> QED BY <3>1, <3>2, <3>3
  <2>3. Len(file') = Len(Finished') /\ DOMAIN Finished' = DOMAIN found
    BY <2>1, <1>1, <1>9, <1>14
  <2> QED BY <2>2, <2>3, <1>14 DEF CleanIsSaved
<1>18. TimersLive'
  BY <1>1 DEF TimersLive
<1> QED BY <1>10, <1>11, <1>12, <1>13, <1>16, <1>17, <1>18 DEF IInv

-----------------------------------------------------------------------------
LEMMA InitIInv == ASSUME Init PROVE IInv
<1>1. <<>> \in Seq(Letter) /\ <<>> \in Seq([letter : Letter, rec : MailRec])
  OBVIOUS
<1>2. Blank \in MailRec /\ Proper(Blank)
  BY DEF Blank, MailRec, Proper
<1>3. Finished = <<>>
  BY DEF Init, Finished
<1>4. TypeOK
  <2>1. 0 \in 0..MaxLetters
    BY LetterFacts
  <2>2. mail \in [Letter -> MailRec]
    BY <1>2 DEF Init
  <2>3. sent \in Seq(Letter) /\ \A i, j \in DOMAIN sent : i < j => sent[i] < sent[j]
    <3>1. DOMAIN sent = {}
      BY DEF Init
    <3> QED BY <3>1, <1>1 DEF Init
  <2>4. file \in Seq([letter : Letter, rec : MailRec])
    BY <1>1 DEF Init
  <2>5. /\ author \in {"on", "leaving", "off", "nuked"} /\ editing \in BOOLEAN /\ dirty \in BOOLEAN
        /\ timed \in SUBSET Letter /\ resident \in SUBSET Reader /\ begun \in 0..MaxLetters
    BY <2>1 DEF Init
  <2> QED BY <2>2, <2>3, <2>4, <2>5 DEF TypeOK
<1>5. Shape /\ Blanked /\ Filed
  BY <1>2 DEF Init, Shape, Blanked, Filed
<1>6. OwnText /\ CleanIsSaved /\ TimersLive
  BY <1>3 DEF Init, OwnText, CleanIsSaved, TimersLive
<1> QED BY <1>4, <1>5, <1>6 DEF IInv

LEMMA NextIInv == ASSUME IInv, Next PROVE IInv'
<1>1. CASE \E p \in Reader : Address(p) \/ NukeReader(p) \/ NewReader(p)
  BY <1>1, AddressIInv, NukeReaderIInv, NewReaderIInv
<1>2. CASE \E l \in Letter : ReadSent(l) \/ TimerFires(l)
  BY <1>2, ReadSentIInv, TimerFiresIInv
<1>3. CASE \E p \in Reader, l \in Letter : ReadLetter(p, l) \/ Reply(p, l)
  BY <1>3, ReadLetterIInv, ReplyIInv
<1>4. CASE \E ls \in SUBSET Letter : DeleteSent(ls)
  BY <1>4, DeleteSentIInv
<1>5. CASE \E p \in Reader, ls \in SUBSET Letter : DeleteReceived(p, ls)
  BY <1>5, DeleteReceivedIInv
<1>6. CASE Logon \/ Begin \/ Discard \/ Post \/ Logoff \/ Leave \/ NukeAuthor \/ NewAuthor \/ Reboot
  BY <1>6, LogonIInv, BeginIInv, DiscardIInv, PostIInv, LogoffIInv, LeaveIInv,
     NukeAuthorIInv, NewAuthorIInv, RebootIInv
<1> QED BY <1>1, <1>2, <1>3, <1>4, <1>5, <1>6 DEF Next

LEMMA AlwaysIInv == Spec => []IInv
<1>1. Init => IInv
  BY InitIInv
<1>2. IInv /\ [Next]_vars => IInv'
  <2>1. IInv /\ UNCHANGED vars => IInv'
    BY DEF vars, IInv, TypeOK, Shape, Blanked, Filed, OwnText, CleanIsSaved, TimersLive,
           Finished, Posted, Draft, InCore
  <2> QED BY <2>1, NextIInv
<1> QED BY <1>1, <1>2, PTL DEF Spec

\* The letters, their numbers and what is in memory and in the file are well typed.
THEOREM TypeInvariance == Spec => []TypeOK
<1>1. IInv => TypeOK
  BY DEF IInv
<1> QED BY <1>1, AlwaysIInv, PTL

\* Whoever reads a letter reads its own text, by whatever number it is found.
THEOREM LettersKeepTheirText == Spec => []OwnText
<1>1. IInv => OwnText
  BY DEF IInv
<1> QED BY <1>1, AlwaysIInv, PTL

\* A restart loses nothing of an author who is not marked as to be saved.
THEOREM WhatIsCleanIsSaved == Spec => []CleanIsSaved
<1>1. IInv => CleanIsSaved
  BY DEF IInv
<1> QED BY <1>1, AlwaysIInv, PTL

\* No timer outlives its letter.
THEOREM NoTimerOutlivesItsLetter == Spec => []TimersLive
<1>1. IInv => TimersLive
  BY DEF IInv
<1> QED BY <1>1, AlwaysIInv, PTL
=============================================================================
