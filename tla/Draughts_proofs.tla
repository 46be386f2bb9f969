-------------------------- MODULE Draughts_proofs --------------------------
(***************************************************************************)
(* The board of a draughts game stays one, from any sound positions and    *)
(* for any commands: also those with squares left after the last hop.  The *)
(* moves are those of the game: the squares are laid out on the columns    *)
(* and rows of DraughtsRules, the tests the code makes are shown to be the *)
(* ones of the rules, and its hops are followed along the rules' chains.   *)
(***************************************************************************)
EXTENDS Draughts, FiniteSetTheorems, TLAPS

\* The inductive invariant: the copies a command works on become the board.
IInv == TypeOK /\ BoardOK

LEMMA SideFacts ==
  ASSUME NEW s \in Side
  PROVE  Enemy(s) \in Side /\ Enemy(s) # s /\ Side = {s, Enemy(s)}
  BY DEF Side, Enemy

\* What a parameter that is accepted takes: one of the enemy's, or nothing.
LEMMA TakenFacts ==
  ASSUME NEW to, NEW d,
         NEW took, took = IF to - turn.from = 2 * d THEN {turn.from + d} ELSE {},
         Accepted(to, took)
  PROVE  took \in SUBSET Foe /\ Cardinality(took) \in Nat
  <1>1. Cardinality({}) = 0 /\ Cardinality({turn.from + d}) = 1
    BY FS_EmptySet, FS_Singleton
  <1> QED
    BY <1>1 DEF Accepted

\* A piece that moves to a free square and takes one of the enemy's leaves the
\* copies sound.
LEMMA MovedFacts ==
  ASSUME IInv, turn # None, NEW to \in Square \ (Own \cup Foe),
         NEW took \in SUBSET Foe, Cardinality(took) \in Nat
  PROVE  LET s == turn.side
             m == Moved(to, took)
         IN /\ m \in TurnRec
            /\ Sound(m.men, m.kings)
            /\ m.side = s /\ m.done = turn.done /\ m.hops = turn.hops
            /\ m.men[s] = (turn.men[s] \ {turn.from}) \cup {to}
            /\ m.men[Enemy(s)] = turn.men[Enemy(s)] \ took
  <1> DEFINE s == turn.side
             e == Enemy(s)
             kept == (turn.kings[s] \ {turn.from})
                       \cup (IF IsKing \/ Crowns(s, to) THEN {to} ELSE {})
             M == [x \in Side |-> IF x = s THEN (turn.men[s] \ {turn.from}) \cup {to}
                                  ELSE turn.men[e] \ took]
             K == [x \in Side |-> IF x = s THEN kept ELSE turn.kings[e] \ took]
             m == Moved(to, took)
  <1>1. /\ turn \in TurnRec
        /\ Sound(turn.men, turn.kings)
        /\ turn.men \in [Side -> SUBSET Square]
        /\ turn.kings \in [Side -> SUBSET Square]
        /\ turn.taken \in Nat
        /\ s \in Side
    BY DEF IInv, TypeOK, BoardOK, TurnRec
  <1>2. e \in Side /\ e # s /\ Side = {s, e}
    BY <1>1, SideFacts
  <1>3. m = [turn EXCEPT !.men = M, !.kings = K, !.taken = turn.taken + Cardinality(took)]
    BY <1>1 DEF Moved, TurnRec
  <1>4. turn.men[s] \cap turn.men[e] = {} /\ \A x \in Side : turn.kings[x] \subseteq turn.men[x]
    BY <1>1, <1>2 DEF Sound, Side
  <1>5. to \in Square /\ to \notin turn.men[s] /\ to \notin turn.men[e]
    BY DEF Own, Foe
  <1>6. M \in [Side -> SUBSET Square] /\ K \in [Side -> SUBSET Square]
    BY <1>1, <1>2, <1>5
  <1>7. M[s] \cap M[e] = {} /\ \A x \in Side : K[x] \subseteq M[x]
    BY <1>1, <1>2, <1>4, <1>5
  <1>8. M[s] = (turn.men[s] \ {turn.from}) \cup {to} /\ M[e] = turn.men[e] \ took
    BY <1>1, <1>2
  <1> HIDE DEF M, K, m
  <1>9. turn.taken + Cardinality(took) \in Nat
    BY <1>1
  <1>10. /\ m \in TurnRec
         /\ m.side = s /\ m.done = turn.done /\ m.hops = turn.hops
         /\ m.men = M /\ m.kings = K
    BY <1>1, <1>3, <1>6, <1>9 DEF TurnRec
  <1>11. Sound(M, K)
    BY <1>2, <1>7 DEF Sound, Side
  <1> QED
    BY <1>8, <1>10, <1>11 DEF m

LEMMA InitIInv == Init => IInv
  <1> SUFFICES ASSUME Init PROVE IInv
    OBVIOUS
  <1>1. PICK p \in Starts : men = p.men /\ kings = p.kings /\ toMove = p.toMove
    BY DEF Init
  <1>2. /\ p \in Position
        /\ p.men["black"] \cap p.men["white"] = {}
        /\ \A s \in Side : p.kings[s] \subseteq p.men[s]
    BY ConstAssumption
  <1>3. turn = None /\ winner = None /\ aborted = FALSE
    BY DEF Init
  <1>4. TypeOK
    BY <1>1, <1>2, <1>3 DEF TypeOK, Position
  <1>5. BoardOK
    BY <1>1, <1>2, <1>3 DEF BoardOK, Sound
  <1> QED
    BY <1>4, <1>5 DEF IInv

LEMMA BeginIInv ==
  ASSUME IInv, NEW from \in Square, Begin(from) PROVE IInv'
  <1> DEFINE t == [side |-> toMove, from |-> from, hops |-> 1, taken |-> 0,
                   men |-> men, kings |-> kings, done |-> FALSE]
  <1>1. turn' = t /\ UNCHANGED <<men, kings, toMove, winner, aborted>>
    BY DEF Begin
  <1>2. t \in TurnRec /\ t.men = men /\ t.kings = kings
    BY DEF IInv, TypeOK, TurnRec, MaxHops
  <1> HIDE DEF t
  <1>3. TypeOK'
    BY <1>1, <1>2 DEF IInv, TypeOK
  <1>4. BoardOK'
    BY <1>1, <1>2 DEF IInv, BoardOK, Sound
  <1> QED
    BY <1>3, <1>4 DEF IInv

LEMMA RefusedIInv ==
  ASSUME IInv, Refused PROVE IInv'
  <1>1. turn \in TurnRec
    BY DEF IInv, TypeOK, Refused
  <1>2. winner' \in Side \cup {None}
    BY <1>1 DEF Refused, Result, TurnRec
  <1>3. aborted' \in BOOLEAN
    BY DEF Refused
  <1> QED
    BY <1>2, <1>3 DEF IInv, TypeOK, BoardOK, Sound, Refused

LEMMA HopIInv ==
  ASSUME IInv, NEW to \in Square, NEW last \in BOOLEAN, Hop(to, last) PROVE IInv'
  <1> DEFINE s == turn.side
  <1>1. PICK d \in Distance(s, turn.from, to, IsKing) :
          LET took == IF to - turn.from = 2 * d THEN {turn.from + d} ELSE {}
              after == Moved(to, took)
              crowned == Crowns(s, to)
              goesOn == ~last /\ turn.hops < MaxHops /\ ~crowned
          IN /\ Accepted(to, took)
             /\ \/ /\ goesOn
                   /\ turn' = [after EXCEPT !.from = to, !.hops = @ + 1]
                   /\ UNCHANGED <<men, kings, toMove, winner>>
                \/ /\ men' = after.men
                   /\ kings' = after.kings
                   /\ toMove' = Enemy(s)
                   /\ \/ /\ turn' = None
                         /\ winner' = Result(s, men', kings')
                      \/ /\ turn' = [after EXCEPT !.done = TRUE]
                         /\ UNCHANGED winner
    BY DEF Hop
  <1> DEFINE took == IF to - turn.from = 2 * d THEN {turn.from + d} ELSE {}
             after == Moved(to, took)
  <1>2. turn # None /\ turn \in TurnRec /\ s \in Side /\ Enemy(s) \in Side
    BY SideFacts DEF Hop, IInv, TypeOK, TurnRec
  <1>3. took \in SUBSET Foe /\ Cardinality(took) \in Nat
    BY <1>1, TakenFacts
  <1>4. to \in Square \ (Own \cup Foe)
    BY DEF Hop
  <1>5. /\ after \in TurnRec /\ Sound(after.men, after.kings) /\ after.hops = turn.hops
    BY <1>2, <1>3, <1>4, MovedFacts
  <1>6. UNCHANGED aborted
    BY DEF Hop
  <1>7. \/ /\ turn.hops < MaxHops
           /\ turn' = [after EXCEPT !.from = to, !.hops = @ + 1]
           /\ UNCHANGED <<men, kings, toMove, winner>>
        \/ /\ men' = after.men /\ kings' = after.kings /\ toMove' = Enemy(s)
           /\ \/ turn' = None /\ winner' \in {s, None}
              \/ turn' = [after EXCEPT !.done = TRUE] /\ UNCHANGED winner
    BY <1>1 DEF Result
  <1> HIDE DEF after, took, s
  <1>8. /\ after.hops + 1 \in 1..MaxHops \/ ~(turn.hops < MaxHops)
        /\ after.men \in [Side -> SUBSET Square]
        /\ after.kings \in [Side -> SUBSET Square]
    BY <1>2, <1>5 DEF TurnRec, MaxHops
  <1>9. CASE /\ turn.hops < MaxHops
             /\ turn' = [after EXCEPT !.from = to, !.hops = @ + 1]
             /\ UNCHANGED <<men, kings, toMove, winner>>
    <2>1. turn' \in TurnRec /\ turn'.men = after.men /\ turn'.kings = after.kings
      BY <1>5, <1>8, <1>9 DEF TurnRec
    <2> QED
      BY <1>5, <1>6, <1>9, <2>1 DEF IInv, TypeOK, BoardOK, Sound
  <1>10. CASE /\ men' = after.men /\ kings' = after.kings /\ toMove' = Enemy(s)
              /\ \/ turn' = None /\ winner' \in {s, None}
                 \/ turn' = [after EXCEPT !.done = TRUE] /\ UNCHANGED winner
    <2>1. turn' = None \/ (turn' \in TurnRec /\ turn'.men = after.men /\ turn'.kings = after.kings)
      BY <1>5, <1>10 DEF TurnRec
    <2>2. TypeOK'
      BY <1>2, <1>6, <1>8, <1>10, <2>1 DEF IInv, TypeOK
    <2>3. BoardOK'
      BY <1>5, <1>10, <2>1 DEF BoardOK, Sound
    <2> QED
      BY <2>2, <2>3 DEF IInv
  <1> QED
    BY <1>7, <1>9, <1>10

LEMMA NextIInv == IInv /\ [Next]_vars => IInv'
  <1> SUFFICES ASSUME IInv, [Next]_vars PROVE IInv'
    OBVIOUS
  <1>1. CASE UNCHANGED vars
    BY <1>1 DEF vars, IInv, TypeOK, BoardOK, Sound
  <1>2. CASE Next
    BY <1>2, BeginIInv, HopIInv, RefusedIInv DEF Next
  <1> QED
    BY <1>1, <1>2

LEMMA Invariance == Spec => []IInv
  BY InitIInv, NextIInv, PTL DEF Spec

\* The bit sets have squares of the board, in a move command too.
THEOREM TypeCorrect == Spec => []TypeOK
  <1>1. IInv => TypeOK
    BY DEF IInv
  <1> QED
    BY <1>1, Invariance, PTL

\* No square ever has two pieces, and no king is without its piece.
THEOREM BoardCorrect == Spec => []BoardOK
  <1>1. IInv => BoardOK
    BY DEF IInv
  <1> QED
    BY <1>1, Invariance, PTL

\* What a command has done so far, when it ends with its last hop: it has moved
\* a piece of the side to move, and only taken from the other.
OneTurn ==
  turn # None =>
    /\ ~turn.done
    /\ turn.side = toMove
    /\ turn.from \in turn.men[toMove]
    /\ Cardinality(turn.men[toMove]) = Cardinality(men[toMove])
    /\ turn.men[Enemy(toMove)] \subseteq men[Enemy(toMove)]

LEMMA SquaresAreFinite == \A S \in SUBSET Square : IsFiniteSet(S)
  <1> TAKE S \in SUBSET Square
  <1>1. IsFiniteSet(1..35)
    <2>1. \A a, b \in Int : IsFiniteSet(a..b)
      BY FS_Interval
    <2>2. 1 \in Int /\ 35 \in Int
      OBVIOUS
    <2> QED
      BY <2>1, <2>2, Zenon
  <1>2. ASSUME NEW x \in S PROVE x \in 1..35
    <2>1. x \in Square
      OBVIOUS
    <2> QED
      BY <2>1 DEF Square
  <1>3. S \in SUBSET (1..35)
    BY <1>2
  <1> QED
    BY <1>1, <1>3, FS_Subset

\* A piece that moves is still one.
LEMMA MovingKeepsCount ==
  ASSUME NEW S \in SUBSET Square, NEW from \in S, NEW to \in Square \ S
  PROVE  Cardinality((S \ {from}) \cup {to}) = Cardinality(S)
  <1>1. IsFiniteSet(S) /\ IsFiniteSet(S \ {from})
    BY SquaresAreFinite, FS_RemoveElement
  <1>2. Cardinality(S) \in Nat /\ Cardinality(S \ {from}) = Cardinality(S) - 1
    BY <1>1, FS_CardinalityType, FS_RemoveElement
  <1>3. Cardinality((S \ {from}) \cup {to}) = Cardinality(S \ {from}) + 1
    BY <1>1, FS_AddElement
  <1> QED
    BY <1>2, <1>3

LEMMA FewerOrSame ==
  ASSUME NEW S \in SUBSET Square, NEW T \in SUBSET S
  PROVE  Cardinality(T) <= Cardinality(S)
  BY SquaresAreFinite, FS_Subset

LEMMA HopGoes ==
  ASSUME "more" \notin Exercised, IInv, OneTurn,
         NEW to \in Square, NEW last \in BOOLEAN, Hop(to, last)
  PROVE  OneTurn' /\ (PiecesGo \/ UNCHANGED men)
  <1> DEFINE s == turn.side
             e == Enemy(s)
  <1>1. PICK d \in Distance(s, turn.from, to, IsKing) :
          LET took == IF to - turn.from = 2 * d THEN {turn.from + d} ELSE {}
              after == Moved(to, took)
          IN /\ Accepted(to, took)
             /\ \/ /\ turn' = [after EXCEPT !.from = to, !.hops = @ + 1]
                   /\ UNCHANGED <<men, toMove>>
                \/ men' = after.men /\ turn' = None
    BY DEF Hop
  <1> DEFINE took == IF to - turn.from = 2 * d THEN {turn.from + d} ELSE {}
             after == Moved(to, took)
  <1>2. turn # None /\ s = toMove /\ s \in Side /\ e \in Side /\ e # s /\ Side = {s, e}
    BY SideFacts DEF Hop, IInv, TypeOK, OneTurn
  <1>3. took \in SUBSET Foe /\ Cardinality(took) \in Nat
    BY <1>1, TakenFacts
  <1>4. to \in Square \ (Own \cup Foe)
    BY DEF Hop
  <1>5. /\ after \in TurnRec
        /\ after.side = s /\ after.done = turn.done
        /\ after.men[s] = (turn.men[s] \ {turn.from}) \cup {to}
        /\ after.men[e] = turn.men[e] \ took
    <2> HIDE DEF took
    <2> QED
      BY <1>2, <1>3, <1>4, MovedFacts
  <1>6. /\ turn.men[s] \in SUBSET Square
        /\ men[e] \in SUBSET Square
        /\ turn.from \in turn.men[s]
        /\ turn.men[e] \subseteq men[e]
        /\ Cardinality(turn.men[s]) = Cardinality(men[s])
        /\ ~turn.done
    BY <1>2 DEF IInv, TypeOK, TurnRec, OneTurn
  <1>7. Cardinality(after.men[s]) = Cardinality(men[s])
    <2>1. to \in Square \ turn.men[s]
      BY <1>4 DEF Own
    <2>2. Cardinality((turn.men[s] \ {turn.from}) \cup {to}) = Cardinality(turn.men[s])
      BY <2>1, <1>6, MovingKeepsCount
    <2> QED
      BY <2>2, <1>5, <1>6
  <1>8. after.men[e] \subseteq men[e] /\ Cardinality(after.men[e]) <= Cardinality(men[e])
    BY <1>5, <1>6, FewerOrSame
  <1>9. \/ /\ turn' = [after EXCEPT !.from = to, !.hops = @ + 1]
           /\ UNCHANGED <<men, toMove>>
        \/ men' = after.men /\ turn' = None
    BY <1>1
  <1>10. Cardinality(men[s]) \in Nat
    BY <1>2, SquaresAreFinite, FS_CardinalityType DEF IInv, TypeOK
  <1> HIDE DEF took, after
  <1>11. CASE turn' = [after EXCEPT !.from = to, !.hops = @ + 1] /\ UNCHANGED <<men, toMove>>
    <2>1. turn'.from = to /\ turn'.men = after.men /\ turn'.side = after.side /\ turn'.done = after.done
      BY <1>5, <1>11 DEF TurnRec
    <2> QED
      BY <1>2, <1>5, <1>6, <1>7, <1>8, <1>11, <2>1 DEF OneTurn
  <1>12. CASE men' = after.men /\ turn' = None
    BY <1>2, <1>7, <1>8, <1>10, <1>12 DEF OneTurn, PiecesGo
  <1> QED
    BY <1>9, <1>11, <1>12

LEMMA NextGoes ==
  ASSUME "more" \notin Exercised, IInv, OneTurn, [Next]_vars
  PROVE  OneTurn' /\ (PiecesGo \/ UNCHANGED men)
  <1>1. CASE UNCHANGED vars
    BY <1>1 DEF vars, OneTurn
  <1>2. ASSUME NEW from \in Square, Begin(from) PROVE OneTurn' /\ UNCHANGED men
    BY <1>2, SideFacts DEF Begin, OneTurn, IInv, TypeOK
  <1>3. ASSUME Refused PROVE OneTurn' /\ UNCHANGED men
    BY <1>3 DEF Refused, OneTurn
  <1> QED
    BY <1>1, <1>2, <1>3, HopGoes DEF Next

\* No move command adds a piece to either side or takes one of the mover's,
\* when no squares are left after its last hop.
THEOREM OnlyPiecesGo == "more" \notin Exercised => (Spec => PiecesOnlyGo)
  <1> SUFFICES ASSUME "more" \notin Exercised PROVE Spec => PiecesOnlyGo
    OBVIOUS
  <1>1. Init => OneTurn
    BY DEF Init, OneTurn
  <1>2. IInv /\ OneTurn /\ [Next]_vars => OneTurn' /\ [PiecesGo]_men
    BY NextGoes
  <1> QED
    BY <1>1, <1>2, Invariance, PTL DEF Spec, PiecesOnlyGo

----------------------------------------------------------------------------
(* The squares and the columns and rows of the rules.                      *)

\* The number of a dark square: two squares in a row differ by one, two rows by
\* nine.
LEMMA DarkPosition ==
  ASSUME NEW c \in (1..8) \X (1..8), NEW at \in Int
  PROVE  (c[1] + c[2]) % 2 = 0 /\ BoardPosition(c[1], 9 - c[2]) = at
           <=> 9 * c[2] - c[1] = 2 * at
  <1> DEFINE col == c[1]
             up == c[2]
  <1>1. col \in 1..8 /\ up \in 1..8
    OBVIOUS
  <1> HIDE DEF col, up
  <1>2. BoardPosition(col, 9 - up) = up * 4 + up \div 2 - col \div 2
    <2>1. 9 - (9 - up) = up /\ 1 \div 2 = 0
      BY <1>1
    <2> QED
      BY <1>1, <2>1 DEF BoardPosition, EffectiveCol
  <1>3. (col + up) % 2 = 0 /\ up * 4 + up \div 2 - col \div 2 = at <=> 9 * up - col = 2 * at
    BY <1>1
  <1> QED
    BY <1>2, <1>3 DEF col, up

\* The numbers with a column and a row are the squares.
LEMMA SquareHasPlace ==
  ASSUME NEW at \in Square
  PROVE  \E c \in (1..8) \X (1..8) : 9 * c[2] - c[1] = 2 * at
  <1> DEFINE up == (2 * at + 8) \div 9
             col == 9 * up - 2 * at
  <1>1. at \in 1..35 /\ at # 9 /\ at # 18 /\ at # 27
    BY DEF Square, Gap
  <1>2. up \in 1..8 /\ col \in 1..8
    BY <1>1
  <1> HIDE DEF up
  <1>3. <<col, up>> \in (1..8) \X (1..8) /\ 9 * up - col = 2 * at
    BY <1>1, <1>2
  <1> QED
    BY <1>3

LEMMA PlaceIsSquare ==
  ASSUME NEW c \in (1..8) \X (1..8), NEW at \in Int, 9 * c[2] - c[1] = 2 * at
  PROVE  at \in Square
  <1>1. c[1] \in 1..8 /\ c[2] \in 1..8
    OBVIOUS
  <1>2. at \in 1..35 /\ at # 9 /\ at # 18 /\ at # 27
    BY <1>1
  <1> QED
    BY <1>2 DEF Square, Gap

LEMMA ColRowFacts ==
  ASSUME NEW at \in Square
  PROVE  /\ at \in Int
         /\ ColRow[at] \in (1..8) \X (1..8)
         /\ 9 * ColRow[at][2] - ColRow[at][1] = 2 * at
  <1>1. at \in Int
    BY DEF Square
  <1>2. PICK c \in (1..8) \X (1..8) : 9 * c[2] - c[1] = 2 * at
    BY SquareHasPlace
  <1>3. (c[1] + c[2]) % 2 = 0 /\ BoardPosition(c[1], 9 - c[2]) = at
    BY <1>1, <1>2, DarkPosition
  <1>4. ColRow[at] = CHOOSE x \in (1..8) \X (1..8) :
                       (x[1] + x[2]) % 2 = 0 /\ BoardPosition(x[1], 9 - x[2]) = at
    BY DEF ColRow
  <1>5. /\ ColRow[at] \in (1..8) \X (1..8)
        /\ (ColRow[at][1] + ColRow[at][2]) % 2 = 0
        /\ BoardPosition(ColRow[at][1], 9 - ColRow[at][2]) = at
    BY <1>3, <1>4, Zenon
  <1> QED
    BY <1>1, <1>5, DarkPosition

\* The row and the column follow from nine times the row less the column.
LEMMA RowsApart ==
  ASSUME NEW x, NEW y, x[1] \in Int, x[2] \in Int, y[1] \in Int, y[2] \in Int,
         9 * x[2] - x[1] = 9 * y[2] - y[1], x[1] - y[1] < 9, y[1] - x[1] < 9
  PROVE  x[1] = y[1] /\ x[2] = y[2]
  <1> DEFINE i == x[2]
             j == x[1]
             k == y[2]
             l == y[1]
  <1>1. i \in Int /\ j \in Int /\ k \in Int /\ l \in Int
    OBVIOUS
  <1>2. 9 * i - j = 9 * k - l /\ j - l < 9 /\ l - j < 9
    OBVIOUS
  <1> HIDE DEF i, j, k, l
  <1>3. 9 * (i - k) = j - l
    BY <1>1, <1>2
  <1>4. i - k = 0
    BY <1>1, <1>2, <1>3
  <1>5. i = k /\ j = l
    BY <1>1, <1>3, <1>4
  <1> QED
    BY <1>5 DEF i, j, k, l

\* A place is of one square.
LEMMA PlaceIsUnique ==
  ASSUME NEW c \in (1..8) \X (1..8), NEW at \in Int, 9 * c[2] - c[1] = 2 * at
  PROVE  at \in Square /\ ColRow[at] = c
  <1>1. at \in Square
    BY PlaceIsSquare
  <1> DEFINE x == ColRow[at]
  <1>2. x \in (1..8) \X (1..8) /\ 9 * x[2] - x[1] = 2 * at
    BY <1>1, ColRowFacts
  <1> HIDE DEF x
  <1>3. x[1] = c[1] /\ x[2] = c[2]
    <2>1. x[1] \in 1..8 /\ x[2] \in 1..8 /\ c[1] \in 1..8 /\ c[2] \in 1..8
      BY <1>2
    <2>2. 9 * x[2] - x[1] = 9 * c[2] - c[1] /\ x[1] - c[1] < 9 /\ c[1] - x[1] < 9
      BY <1>2, <2>1
    <2>3. x[1] \in Int /\ x[2] \in Int /\ c[1] \in Int /\ c[2] \in Int
      BY <2>1
    <2> QED
      BY <2>2, <2>3, RowsApart
  <1>4. x = c
    BY <1>2, <1>3
  <1> QED
    BY <1>1, <1>4 DEF x

LEMMA ColRowInjective ==
  ASSUME NEW a \in Square, NEW b \in Square, ColRow[a] = ColRow[b]
  PROVE  a = b
  <1>1. 2 * a = 2 * b /\ a \in Int /\ b \in Int
    BY ColRowFacts
  <1> QED
    BY <1>1

\* The way across the board of each direction.
Way(d) == CASE d = 4 -> <<1, 1>> [] d = 5 -> <<-1, 1>>
            [] d = -4 -> <<-1, -1>> [] d = -5 -> <<1, -1>>

LEMMA WayFacts ==
  ASSUME NEW d \in {-5, -4, 4, 5}
  PROVE  /\ Way(d) \in {-1, 1} \X {-1, 1}
         /\ 9 * Way(d)[2] - Way(d)[1] = 2 * d
  BY DEF Way

\* The directions of a piece are its ways.
LEMMA WaysAreDirections ==
  ASSUME NEW s \in Side, NEW king \in BOOLEAN
  PROVE  /\ Directions(s, king) \subseteq {-5, -4, 4, 5}
         /\ Rules!Ways(s, king) = {Way(d) : d \in Directions(s, king)}
  <1>1. CASE king
    BY <1>1 DEF Directions, Way, Rules!Ways
  <1>2. CASE ~king
    BY <1>2 DEF Directions, Ahead, Forward, Way, Rules!Ways, Rules!Up, Side
  <1> QED
    BY <1>1, <1>2

\* A step in a direction goes to the next square that way, if there is one.
LEMMA StepFacts ==
  ASSUME NEW at \in Square, NEW d \in {-5, -4, 4, 5}
  PROVE  LET to == Rules!Towards(ColRow[at], Way(d), 1)
         IN /\ at + d \in Square => ColRow[at + d] = to
            /\ to \in (1..8) \X (1..8) => at + d \in Square
  <1> DEFINE c == ColRow[at]
             w == Way(d)
             to == Rules!Towards(c, w, 1)
  <1>1. c \in (1..8) \X (1..8) /\ 9 * c[2] - c[1] = 2 * at /\ at \in Int
    BY ColRowFacts
  <1>2. w \in {-1, 1} \X {-1, 1} /\ 9 * w[2] - w[1] = 2 * d
    BY WayFacts
  <1> HIDE DEF c, w
  <1>3. c[1] \in 1..8 /\ c[2] \in 1..8 /\ w[1] \in {-1, 1} /\ w[2] \in {-1, 1}
    BY <1>1, <1>2
  <1>4. to = <<c[1] + w[1], c[2] + w[2]>>
    BY <1>3 DEF Rules!Towards
  <1>5. 9 * (c[2] + w[2]) - (c[1] + w[1]) = 2 * (at + d)
    BY <1>1, <1>2, <1>3
  <1>6. CASE to \in (1..8) \X (1..8)
    <2>1. 9 * to[2] - to[1] = 2 * (at + d)
      BY <1>4, <1>5
    <2>2. at + d \in Int
      BY <1>1
    <2> QED
      BY <1>6, <2>1, <2>2, PlaceIsUnique DEF c, w
  <1>7. CASE at + d \in Square
    <2> DEFINE x == ColRow[at + d]
    <2>1. x \in (1..8) \X (1..8) /\ 9 * x[2] - x[1] = 2 * (at + d)
      BY <1>7, ColRowFacts
    <2> HIDE DEF x
    <2>2. x[1] \in 1..8 /\ x[2] \in 1..8
      BY <2>1
    <2>3. x[1] = c[1] + w[1] /\ x[2] = c[2] + w[2]
      <3>1. to[1] = c[1] + w[1] /\ to[2] = c[2] + w[2]
        BY <1>4
      <3> DEFINE j == c[1]
                 k == w[1]
                 l == x[1]
      <3>8. j \in 1..8 /\ k \in {-1, 1} /\ l \in 1..8
        BY <1>3, <2>2
      <3>5. to[1] = j + k
        BY <3>1
      <3> HIDE DEF j, k, l
      <3>6. j + k \in Int /\ l - (j + k) < 9 /\ (j + k) - l < 9
        BY <3>8
      <3>7. to[2] \in Int
        BY <1>3, <3>1
      <3>2. to[1] \in Int /\ to[2] \in Int /\ x[1] - to[1] < 9 /\ to[1] - x[1] < 9
        BY <3>5, <3>6, <3>7 DEF l
      <3>3. 9 * x[2] - x[1] = 9 * to[2] - to[1]
        BY <2>1, <1>5, <3>1
      <3> HIDE DEF to
      <3>4. x[2] = to[2] /\ x[1] = to[1]
        BY <2>2, <3>2, <3>3, RowsApart
      <3> QED
        BY <3>1, <3>4
    <2>4. x = to
      BY <2>1, <2>3, <1>4
    <2> QED
      BY <1>7, <2>4 DEF x, c, w
  <1> QED
    BY <1>6, <1>7 DEF c, w

\* A jump goes two squares that way, when the one between is on the board.
LEMMA JumpFacts ==
  ASSUME NEW at \in Square, NEW d \in {-5, -4, 4, 5}, at + d \in Square
  PROVE  LET to == Rules!Towards(ColRow[at], Way(d), 2)
         IN /\ at + 2 * d \in Square => ColRow[at + 2 * d] = to
            /\ to \in (1..8) \X (1..8) => at + 2 * d \in Square
  <1> DEFINE c == ColRow[at]
             w == Way(d)
  <1>1. c \in (1..8) \X (1..8) /\ at \in Int
    BY ColRowFacts
  <1>2. w \in {-1, 1} \X {-1, 1}
    BY WayFacts
  <1>3. ColRow[at + d] = Rules!Towards(c, w, 1)
    BY StepFacts
  <1>4. at + 2 * d = (at + d) + d
    BY <1>1
  <1>5. /\ (at + d) + d \in Square => ColRow[(at + d) + d] = Rules!Towards(ColRow[at + d], w, 1)
        /\ Rules!Towards(ColRow[at + d], w, 1) \in (1..8) \X (1..8) => (at + d) + d \in Square
    BY StepFacts
  <1> HIDE DEF c, w
  <1>6. Rules!Towards(c, w, 2) = Rules!Towards(ColRow[at + d], w, 1)
    BY <1>1, <1>2, <1>3 DEF Rules!Towards
  <1> QED
    BY <1>4, <1>5, <1>6 DEF c, w

\* The rows that crown.
LEMMA CrownsIsLastRow ==
  ASSUME NEW s \in Side, NEW at \in Square
  PROVE  Crowns(s, at) <=> ColRow[at][2] = Rules!LastRow(s)
  <1> DEFINE c == ColRow[at]
  <1>1. c \in (1..8) \X (1..8) /\ 9 * c[2] - c[1] = 2 * at /\ at \in Int
    BY ColRowFacts
  <1> HIDE DEF c
  <1>2. c[1] \in 1..8 /\ c[2] \in 1..8
    BY <1>1
  <1>3. at \in 1..35
    BY DEF Square
  <1>4. (at \in 1..4 <=> c[2] = 1) /\ (at \in 32..35 <=> c[2] = 8)
    BY <1>1, <1>2, <1>3
  <1> QED
    BY <1>4 DEF Crowns, Rules!LastRow, Side, c

----------------------------------------------------------------------------
(* The positions of the rules.                                             *)

Image(S) == {ColRow[at] : at \in S}
Pos(m, k) == [men |-> OnRules(m), kings |-> OnRules(k)]
Sides == [Side -> SUBSET Square]

\* A position after the piece of s on a square has moved, and another is taken.
MenAfter(m, s, from, to, x) ==
  [y \in Side |-> IF y = s THEN (m[s] \ {from}) \cup {to} ELSE m[Enemy(s)] \ {x}]
KingsAfter(k, s, from, to, x) ==
  [y \in Side |-> IF y = s
     THEN (k[s] \ {from}) \cup (IF from \in k[s] \/ Crowns(s, to) THEN {to} ELSE {})
     ELSE k[Enemy(s)] \ {x}]

LEMMA InImage ==
  ASSUME NEW S \in SUBSET Square, NEW at \in Square
  PROVE  ColRow[at] \in Image(S) <=> at \in S
  BY ColRowInjective DEF Image

LEMMA ImageMinus ==
  ASSUME NEW S \in SUBSET Square, NEW at \in Square
  PROVE  Image(S \ {at}) = Image(S) \ {ColRow[at]} /\ S \ {at} \in SUBSET Square
  <1>1. ASSUME NEW c \in Image(S \ {at}) PROVE c \in Image(S) \ {ColRow[at]}
    <2>1. PICK o \in S \ {at} : c = ColRow[o]
      BY <1>1 DEF Image
    <2>2. c # ColRow[at]
      BY <2>1, ColRowInjective
    <2> QED
      BY <2>1, <2>2 DEF Image
  <1>2. ASSUME NEW c \in Image(S) \ {ColRow[at]} PROVE c \in Image(S \ {at})
    BY <1>2 DEF Image
  <1> QED
    BY <1>1, <1>2

LEMMA ImagePlus ==
  ASSUME NEW S \in SUBSET Square, NEW at \in Square
  PROVE  Image(S \cup {at}) = Image(S) \cup {ColRow[at]}
  BY DEF Image

LEMMA PosFacts ==
  ASSUME NEW m \in Sides, NEW k \in Sides, NEW s \in Side
  PROVE  /\ Pos(m, k).men[s] = Image(m[s])
         /\ Pos(m, k).kings[s] = Image(k[s])
         /\ m[s] \in SUBSET Square /\ k[s] \in SUBSET Square
         /\ Rules!Opposite(s) = Enemy(s)
         /\ Enemy(s) \in Side
  BY DEF Pos, OnRules, Image, Sides, Rules!Opposite, Enemy, Side

\* A square is vacant when neither side has it.
LEMMA VacantFacts ==
  ASSUME NEW m \in Sides, NEW k \in Sides, NEW s \in Side
  PROVE  /\ \A at \in Square : ColRow[at] \in Rules!Vacant(Pos(m, k))
                                 <=> at \notin m[s] \cup m[Enemy(s)]
         /\ Rules!Vacant(Pos(m, k)) \subseteq (1..8) \X (1..8)
  <1>1. Side = {s, Enemy(s)} /\ Enemy(s) \in Side
    BY SideFacts
  <1>2. /\ Pos(m, k).men[s] = Image(m[s]) /\ m[s] \in SUBSET Square
        /\ Pos(m, k).men[Enemy(s)] = Image(m[Enemy(s)]) /\ m[Enemy(s)] \in SUBSET Square
    BY <1>1, PosFacts
  <1>3. Rules!Vacant(Pos(m, k)) = ((1..8) \X (1..8)) \ (Image(m[s]) \cup Image(m[Enemy(s)]))
    <2>1. {"black", "white"} = {s, Enemy(s)}
      BY <1>1 DEF Side
    <2>2. Pos(m, k).men["black"] \cup Pos(m, k).men["white"] = Image(m[s]) \cup Image(m[Enemy(s)])
      BY <1>2, <2>1
    <2> QED
      BY <2>2 DEF Rules!Vacant, Rules!OnBoard
  <1>4. \A at \in Square : /\ ColRow[at] \in Image(m[s]) <=> at \in m[s]
                           /\ ColRow[at] \in Image(m[Enemy(s)]) <=> at \in m[Enemy(s)]
    BY <1>2, InImage
  <1> QED
    BY <1>3, <1>4, ColRowFacts

\* Moving a piece on the squares moves it in the position.
LEMMA PlaceFacts ==
  ASSUME NEW m \in Sides, NEW k \in Sides, NEW s \in Side, NEW from \in Square,
         NEW to \in Square, NEW x \in Square
  PROVE  Rules!Place(Pos(m, k), s, ColRow[from], ColRow[to], ColRow[x]) =
           Pos(MenAfter(m, s, from, to, x), KingsAfter(k, s, from, to, x))
  <1> DEFINE e == Enemy(s)
             b == Pos(m, k)
             M == MenAfter(m, s, from, to, x)
             K == KingsAfter(k, s, from, to, x)
             crown == ColRow[from] \in b.kings[s] \/ ColRow[to][2] = Rules!LastRow(s)
  <1>1. Side = {s, e} /\ e \in Side /\ e # s
    BY SideFacts
  <1>2. /\ b.men[s] = Image(m[s]) /\ b.men[e] = Image(m[e])
        /\ b.kings[s] = Image(k[s]) /\ b.kings[e] = Image(k[e])
        /\ m[s] \in SUBSET Square /\ m[e] \in SUBSET Square
        /\ k[s] \in SUBSET Square /\ k[e] \in SUBSET Square
        /\ Rules!Opposite(s) = e
    BY <1>1, PosFacts
  <1>4. crown <=> from \in k[s] \/ Crowns(s, to)
    <2>1. ColRow[from] \in b.kings[s] <=> from \in k[s]
      BY <1>2, InImage
    <2> QED
      BY <2>1, CrownsIsLastRow
  <1>6. /\ M[s] = (m[s] \ {from}) \cup {to} /\ M[e] = m[e] \ {x}
        /\ K[s] = (k[s] \ {from}) \cup (IF from \in k[s] \/ Crowns(s, to) THEN {to} ELSE {})
        /\ K[e] = k[e] \ {x}
    BY <1>1 DEF MenAfter, KingsAfter
  <1> HIDE DEF M, K, b, e, crown
  <1>7. /\ Image(M[s]) = (Image(m[s]) \ {ColRow[from]}) \cup {ColRow[to]}
        /\ Image(M[e]) = Image(m[e]) \ {ColRow[x]}
        /\ Image(K[e]) = Image(k[e]) \ {ColRow[x]}
    <2>1. Image(m[s] \ {from}) = Image(m[s]) \ {ColRow[from]} /\ m[s] \ {from} \in SUBSET Square
      BY <1>2, ImageMinus
    <2>2. Image((m[s] \ {from}) \cup {to}) = Image(m[s] \ {from}) \cup {ColRow[to]}
      BY <2>1, ImagePlus
    <2>3. Image(m[e] \ {x}) = Image(m[e]) \ {ColRow[x]}
      BY <1>2, ImageMinus
    <2>4. Image(k[e] \ {x}) = Image(k[e]) \ {ColRow[x]}
      BY <1>2, ImageMinus
    <2> QED
      BY <1>6, <2>1, <2>2, <2>3, <2>4
  <1>8. Image(K[s]) = (Image(k[s]) \ {ColRow[from]}) \cup (IF crown THEN {ColRow[to]} ELSE {})
    <2>1. Image(k[s] \ {from}) = Image(k[s]) \ {ColRow[from]} /\ k[s] \ {from} \in SUBSET Square
      BY <1>2, ImageMinus
    <2>2. Image((k[s] \ {from}) \cup {to}) = Image(k[s] \ {from}) \cup {ColRow[to]}
      BY <2>1, ImagePlus
    <2>3. CASE crown
      <3>1. K[s] = (k[s] \ {from}) \cup {to}
        BY <1>4, <1>6, <2>3
      <3> QED
        BY <2>1, <2>2, <2>3, <3>1
    <2>4. CASE ~crown
      <3>1. K[s] = k[s] \ {from}
        BY <1>4, <1>6, <2>4
      <3> QED
        BY <2>1, <2>4, <3>1
    <2> QED
      BY <2>3, <2>4
  <1>9. Pos(M, K) = [men   |-> [y \in Side |-> Image(M[y])], kings |-> [y \in Side |-> Image(K[y])]]
    BY DEF Pos, OnRules, Image
  <1>10. [y \in Side |-> Image(M[y])] =
           [y \in {s, e} |-> IF y = s THEN (b.men[s] \ {ColRow[from]}) \cup {ColRow[to]}
                             ELSE b.men[e] \ {ColRow[x]}]
    BY <1>1, <1>2, <1>7
  <1>11. [y \in Side |-> Image(K[y])] =
           [y \in {s, e} |-> IF y = s
              THEN (b.kings[s] \ {ColRow[from]}) \cup (IF crown THEN {ColRow[to]} ELSE {})
              ELSE b.kings[e] \ {ColRow[x]}]
    BY <1>1, <1>2, <1>7, <1>8
  <1>12. Rules!Place(b, s, ColRow[from], ColRow[to], ColRow[x]) =
           [men   |-> [y \in {s, e} |-> IF y = s THEN (b.men[s] \ {ColRow[from]}) \cup {ColRow[to]}
                                        ELSE b.men[e] \ {ColRow[x]}],
            kings |-> [y \in {s, e} |-> IF y = s
              THEN (b.kings[s] \ {ColRow[from]}) \cup (IF crown THEN {ColRow[to]} ELSE {})
              ELSE b.kings[e] \ {ColRow[x]}]]
    BY <1>2 DEF Rules!Place, crown
  <1> QED
    BY <1>9, <1>10, <1>11, <1>12 DEF M, K, b, e, crown

----------------------------------------------------------------------------
(* Chains of jumps.                                                        *)

\* What is one jump further than the positions of S.
Further(S, s, n) ==
  UNION {Rules!Jumps(x[1], s, x[2]) :
           x \in {y \in S : n = 1 \/ y[2][2] # Rules!LastRow(s)}}

LEMMA AfterFacts ==
  ASSUME NEW b, NEW s, NEW from
  PROVE  LET a == Rules!After(b, s, from)
         IN /\ a[0] = {<<b, from>>}
            /\ \A n \in 1..4 : a[n] = Further(a[n - 1], s, n)
  <1> DEFINE F(f) == [n \in 0..4 |-> IF n = 0 THEN {<<b, from>>} ELSE Further(f[n - 1], s, n)]
             a == Rules!After(b, s, from)
             one == Further({<<b, from>>}, s, 1)
             two == Further(one, s, 2)
             three == Further(two, s, 3)
             four == Further(three, s, 4)
             g == [n \in 0..4 |-> IF n = 0 THEN {<<b, from>>} ELSE IF n = 1 THEN one
                                  ELSE IF n = 2 THEN two ELSE IF n = 3 THEN three ELSE four]
  <1>1. a = CHOOSE f : f = F(f)
    BY DEF Rules!After, Further
  <1>2. g = F(g)
    <2>1. \A n \in 0..4 : g[n] = F(g)[n]
      <3>1. /\ g[0] = {<<b, from>>} /\ g[1] = one /\ g[2] = two /\ g[3] = three /\ g[4] = four
        OBVIOUS
      <3> HIDE DEF g, one, two, three, four
      <3>2. /\ F(g)[0] = {<<b, from>>} /\ F(g)[1] = Further(g[0], s, 1)
            /\ F(g)[2] = Further(g[1], s, 2) /\ F(g)[3] = Further(g[2], s, 3)
            /\ F(g)[4] = Further(g[3], s, 4)
        OBVIOUS
      <3> HIDE DEF F
      <3>3. F(g)[0] = g[0] /\ F(g)[1] = g[1] /\ F(g)[2] = g[2] /\ F(g)[3] = g[3] /\ F(g)[4] = g[4]
        BY <3>1, <3>2 DEF one, two, three, four
      <3>4. \A n \in 0..4 : n = 0 \/ n = 1 \/ n = 2 \/ n = 3 \/ n = 4
        OBVIOUS
      <3> QED
        BY <3>3, <3>4
    <2>2. \E G : g = [n \in 0..4 |-> G[n]]
      <3>1. g = [n \in 0..4 |-> g[n]]
        OBVIOUS
      <3> QED
        BY <3>1
    <2> HIDE DEF g
    <2> QED
      BY <2>1, <2>2
  <1> HIDE DEF g, a
  <1>3. a = F(a)
    <2> HIDE DEF F
    <2> QED
      BY <1>1, <1>2
  <1>4. a[0] = {<<b, from>>} /\ \A n \in 1..4 : a[n] = Further(a[n - 1], s, n)
    <2> HIDE DEF one, two, three, four
    <2>1. \A n \in 0..4 : a[n] = IF n = 0 THEN {<<b, from>>} ELSE Further(a[n - 1], s, n)
      <3>1. \A n \in 0..4 : F(a)[n] = IF n = 0 THEN {<<b, from>>} ELSE Further(a[n - 1], s, n)
        OBVIOUS
      <3> HIDE DEF F
      <3> QED
        BY <1>3, <3>1
    <2> QED
      BY <2>1
  <1> QED
    BY <1>4 DEF a

\* Nothing is further than no position.
LEMMA NothingFurther ==
  ASSUME NEW s, NEW n, Further({}, s, n) # {}
  PROVE  FALSE
  BY DEF Further

\* A chain from a square begins with a jump, and a jump with a chain.
LEMMA ChainsBegin ==
  ASSUME NEW b, NEW s, NEW from
  PROVE  Rules!Chains(b, s, from) # {} <=> Rules!Jumps(b, s, from) # {}
  <1> DEFINE a == Rules!After(b, s, from)
             finished(x, n) == \/ n = 4 \/ x[2][2] = Rules!LastRow(s)
                               \/ Rules!Jumps(x[1], s, x[2]) = {}
  <1>1. a[0] = {<<b, from>>} /\ \A n \in 1..4 : a[n] = Further(a[n - 1], s, n)
    BY AfterFacts
  <1>2. Rules!Chains(b, s, from) = UNION {{x[1] : x \in {y \in a[n] : finished(y, n)}} : n \in 1..4}
    BY DEF Rules!Chains
  <1> HIDE DEF a
  <1>3. a[1] = Rules!Jumps(b, s, from)
    <2>1. a[1] = Further(a[0], s, 1)
      <3>1. 1 - 1 = 0
        OBVIOUS
      <3> QED
        BY <1>1, <3>1
    <2>2. a[1] = UNION {Rules!Jumps(x[1], s, x[2]) : x \in {<<b, from>>}}
      BY <2>1, <1>1 DEF Further
    <2> QED
      BY <2>2
  <1>4. /\ a[2] = Further(a[1], s, 2) /\ a[3] = Further(a[2], s, 3) /\ a[4] = Further(a[3], s, 4)
    <2>1. 2 - 1 = 1 /\ 3 - 1 = 2 /\ 4 - 1 = 3
      OBVIOUS
    <2> QED
      BY <1>1, <2>1
  <1>5. ASSUME Rules!Chains(b, s, from) # {} PROVE a[1] # {}
    <2>1. PICK n \in 1..4 : a[n] # {}
      <3>1. PICK c : c \in Rules!Chains(b, s, from)
        BY <1>5
      <3>2. PICK n \in 1..4 : c \in {x[1] : x \in {y \in a[n] : finished(y, n)}}
        BY <1>2, <3>1
      <3> HIDE DEF finished
      <3> QED
        BY <3>2
    <2>2. n = 1 \/ n = 2 \/ n = 3 \/ n = 4
      OBVIOUS
    <2> QED
      BY <2>1, <2>2, <1>4, NothingFurther
  <1>6. ASSUME a[1] # {} PROVE Rules!Chains(b, s, from) # {}
    <2>1. ASSUME NEW n \in 1..4, NEW x \in a[n], finished(x, n)
          PROVE  Rules!Chains(b, s, from) # {}
      <3>1. x[1] \in {z[1] : z \in {y \in a[n] : finished(y, n)}}
        BY <2>1
      <3> HIDE DEF finished
      <3> QED
        BY <1>2, <3>1
    <2>2. ASSUME NEW n \in 1..4, NEW i \in 2..4, a[n] # {}, a[i] = Further(a[n], s, i)
          PROVE  Rules!Chains(b, s, from) # {} \/ a[i] # {}
      <3>1. PICK x \in a[n] : TRUE
        BY <2>2
      <3>2. CASE finished(x, n)
        BY <2>1, <3>2
      <3>3. CASE ~finished(x, n)
        <4>1. x \in {y \in a[n] : i = 1 \/ y[2][2] # Rules!LastRow(s)}
          BY <3>3
        <4>2. PICK z : z \in Rules!Jumps(x[1], s, x[2])
          BY <3>3
        <4>3. z \in Further(a[n], s, i)
          BY <4>1, <4>2 DEF Further
        <4> QED
          BY <2>2, <4>3
      <3> QED
        BY <3>2, <3>3
    <2>3. 1 \in 1..4 /\ 2 \in 1..4 /\ 3 \in 1..4 /\ 2 \in 2..4 /\ 3 \in 2..4 /\ 4 \in 2..4 /\ 4 \in 1..4
      OBVIOUS
    <2>4. Rules!Chains(b, s, from) # {} \/ a[2] # {}
      BY <1>4, <1>6, <2>2, <2>3
    <2>5. Rules!Chains(b, s, from) # {} \/ a[3] # {}
      BY <1>4, <2>2, <2>3, <2>4
    <2>6. Rules!Chains(b, s, from) # {} \/ a[4] # {}
      BY <1>4, <2>2, <2>3, <2>5
    <2>7. ASSUME a[4] # {} PROVE Rules!Chains(b, s, from) # {}
      <3>1. PICK x \in a[4] : TRUE
        BY <2>7
      <3>2. finished(x, 4)
        OBVIOUS
      <3> QED
        BY <2>1, <2>3, <3>2
    <2> QED
      BY <2>6, <2>7
  <1> QED
    BY <1>3, <1>5, <1>6

\* There is no turn when there is neither a jump nor a step.
LEMMA NoTurns ==
  ASSUME NEW b, NEW s
  PROVE  Rules!Turns(b, s) = {} <=>
           \A from \in b.men[s] : Rules!Jumps(b, s, from) = {} /\ Rules!Steps(b, s, from) = {}
  <1> DEFINE chains == UNION {Rules!Chains(b, s, from) : from \in b.men[s]}
             steps == UNION {{x[1] : x \in Rules!Steps(b, s, from)} : from \in b.men[s]}
  <1>1. Rules!Turns(b, s) = IF chains # {} THEN chains ELSE steps
    BY DEF Rules!Turns
  <1>2. chains = {} <=> \A from \in b.men[s] : Rules!Jumps(b, s, from) = {}
    BY ChainsBegin
  <1>3. ASSUME steps = {}, NEW from \in b.men[s], NEW x \in Rules!Steps(b, s, from) PROVE FALSE
    <2>1. x[1] \in {y[1] : y \in Rules!Steps(b, s, from)}
      BY <1>3
    <2> QED
      BY <1>3, <2>1
  <1>4. ASSUME \A from \in b.men[s] : Rules!Steps(b, s, from) = {}, NEW c \in steps PROVE FALSE
    BY <1>4
  <1>5. steps = {} <=> \A from \in b.men[s] : Rules!Steps(b, s, from) = {}
    BY <1>3, <1>4
  <1> QED
    BY <1>1, <1>2, <1>5

----------------------------------------------------------------------------
(* The steps and jumps of a piece are those of the rules.                  *)

\* Where a piece may step to, and what it jumps in a direction.
MayStep(m, s, at, d) == at + d \in Square \ (m[s] \cup m[Enemy(s)])
MayJump(m, s, at, d) ==
  at + d \in m[Enemy(s)] /\ at + 2 * d \in Square \ (m[s] \cup m[Enemy(s)])

\* A way of the piece is a direction of it.
LEMMA WayIsDirection ==
  ASSUME NEW m \in Sides, NEW k \in Sides, NEW s \in Side, NEW at \in Square
  PROVE  LET b == Pos(m, k)
             ways == Rules!Ways(s, ColRow[at] \in b.kings[s])
             ds == Directions(s, at \in k[s])
         IN ways = {Way(d) : d \in ds} /\ ds \subseteq {-5, -4, 4, 5}
  <1>1. ColRow[at] \in Pos(m, k).kings[s] <=> at \in k[s]
    BY PosFacts, InImage
  <1>2. Rules!Ways(s, ColRow[at] \in Pos(m, k).kings[s]) = Rules!Ways(s, at \in k[s])
    BY <1>1 DEF Rules!Ways
  <1> DEFINE king == at \in k[s]
  <1>3. king \in BOOLEAN
    OBVIOUS
  <1> HIDE DEF king
  <1>4. Directions(s, king) \subseteq {-5, -4, 4, 5} /\ Rules!Ways(s, king) = {Way(d) : d \in Directions(s, king)}
    BY <1>3, WaysAreDirections
  <1> QED
    BY <1>2, <1>4 DEF king

LEMMA JumpIsOne ==
  ASSUME NEW m \in Sides, NEW k \in Sides, NEW s \in Side, NEW at \in Square,
         NEW d \in Directions(s, at \in k[s])
  PROVE  LET b == Pos(m, k)
             over == Rules!Towards(ColRow[at], Way(d), 1)
             to == Rules!Towards(ColRow[at], Way(d), 2)
         IN /\ MayJump(m, s, at, d) <=> /\ over \in b.men[Rules!Opposite(s)]
                                        /\ to \in Rules!Vacant(b)
            /\ MayJump(m, s, at, d) => /\ at + d \in Square /\ ColRow[at + d] = over
                                       /\ at + 2 * d \in Square /\ ColRow[at + 2 * d] = to
  <1> DEFINE b == Pos(m, k)
             e == Enemy(s)
             over == Rules!Towards(ColRow[at], Way(d), 1)
             to == Rules!Towards(ColRow[at], Way(d), 2)
  <1>1. d \in {-5, -4, 4, 5}
    BY WayIsDirection
  <1>2. Rules!Opposite(s) = e /\ e \in Side /\ b.men[e] = Image(m[e]) /\ m[e] \in SUBSET Square
    BY PosFacts
  <1>3. /\ at + d \in Square => ColRow[at + d] = over
        /\ over \in (1..8) \X (1..8) => at + d \in Square
    BY <1>1, StepFacts
  <1>4. at + d \in Square => /\ at + 2 * d \in Square => ColRow[at + 2 * d] = to
                             /\ to \in (1..8) \X (1..8) => at + 2 * d \in Square
    BY <1>1, JumpFacts
  <1>5. /\ \A o \in Square : ColRow[o] \in Rules!Vacant(b) <=> o \notin m[s] \cup m[e]
        /\ Rules!Vacant(b) \subseteq (1..8) \X (1..8)
    BY VacantFacts
  <1>6. \A o \in Square : ColRow[o] \in b.men[e] <=> o \in m[e]
    BY <1>2, InImage
  <1>7. \A c \in b.men[e] : c \in (1..8) \X (1..8)
    BY <1>2, ColRowFacts DEF Image
  <1> HIDE DEF b, e, over, to
  <1>8. ASSUME MayJump(m, s, at, d)
        PROVE  /\ at + d \in Square /\ ColRow[at + d] = over
               /\ at + 2 * d \in Square /\ ColRow[at + 2 * d] = to
               /\ over \in b.men[e] /\ to \in Rules!Vacant(b)
    <2>1. at + d \in Square /\ at + d \in m[e] /\ at + 2 * d \in Square
          /\ at + 2 * d \notin m[s] \cup m[e]
      BY <1>2, <1>8 DEF MayJump, e
    <2>2. ColRow[at + d] = over /\ ColRow[at + 2 * d] = to
      BY <1>3, <1>4, <2>1
    <2> QED
      BY <1>5, <1>6, <2>1, <2>2
  <1>9. ASSUME over \in b.men[e], to \in Rules!Vacant(b) PROVE MayJump(m, s, at, d)
    <2>1. at + d \in Square /\ ColRow[at + d] = over
      BY <1>3, <1>7, <1>9
    <2>2. at + 2 * d \in Square /\ ColRow[at + 2 * d] = to
      BY <1>4, <1>5, <1>9, <2>1
    <2> QED
      BY <1>5, <1>6, <1>9, <2>1, <2>2 DEF MayJump, e
  <1> QED
    BY <1>2, <1>8, <1>9 DEF b, over, to

LEMMA StepIsOne ==
  ASSUME NEW m \in Sides, NEW k \in Sides, NEW s \in Side, NEW at \in Square,
         NEW d \in Directions(s, at \in k[s])
  PROVE  LET to == Rules!Towards(ColRow[at], Way(d), 1)
         IN /\ MayStep(m, s, at, d) <=> to \in Rules!Vacant(Pos(m, k))
            /\ MayStep(m, s, at, d) => at + d \in Square /\ ColRow[at + d] = to
  <1> DEFINE b == Pos(m, k)
             to == Rules!Towards(ColRow[at], Way(d), 1)
  <1>1. d \in {-5, -4, 4, 5}
    BY WayIsDirection
  <1>2. /\ at + d \in Square => ColRow[at + d] = to
        /\ to \in (1..8) \X (1..8) => at + d \in Square
    BY <1>1, StepFacts
  <1>3. /\ \A o \in Square : ColRow[o] \in Rules!Vacant(b) <=> o \notin m[s] \cup m[Enemy(s)]
        /\ Rules!Vacant(b) \subseteq (1..8) \X (1..8)
    BY VacantFacts
  <1> HIDE DEF b, to
  <1> QED
    BY <1>2, <1>3 DEF MayStep, b, to

\* The jump the code makes is one of the rules.
LEMMA JumpMade ==
  ASSUME NEW m \in Sides, NEW k \in Sides, NEW s \in Side, NEW at \in Square,
         NEW d \in Directions(s, at \in k[s]), MayJump(m, s, at, d)
  PROVE  <<Pos(MenAfter(m, s, at, at + 2 * d, at + d), KingsAfter(k, s, at, at + 2 * d, at + d)),
           ColRow[at + 2 * d]>> \in Rules!Jumps(Pos(m, k), s, ColRow[at])
  <1> DEFINE b == Pos(m, k)
             c == ColRow[at]
             w == Way(d)
             p == Pos(MenAfter(m, s, at, at + 2 * d, at + d), KingsAfter(k, s, at, at + 2 * d, at + d))
  <1>1. /\ Rules!Towards(c, w, 1) \in b.men[Rules!Opposite(s)]
        /\ Rules!Towards(c, w, 2) \in Rules!Vacant(b)
        /\ at + d \in Square /\ ColRow[at + d] = Rules!Towards(c, w, 1)
        /\ at + 2 * d \in Square /\ ColRow[at + 2 * d] = Rules!Towards(c, w, 2)
    BY JumpIsOne
  <1>2. w \in Rules!Ways(s, c \in b.kings[s])
    BY WayIsDirection
  <1>3. Rules!Place(b, s, c, ColRow[at + 2 * d], ColRow[at + d]) = p
    BY <1>1, PlaceFacts
  <1> HIDE DEF b, c, w, p
  <1>4. <<Rules!Place(b, s, c, Rules!Towards(c, w, 2), Rules!Towards(c, w, 1)),
          Rules!Towards(c, w, 2)>> \in Rules!Jumps(b, s, c)
    BY <1>1, <1>2 DEF Rules!Jumps
  <1> QED
    BY <1>1, <1>3, <1>4 DEF b, c, w, p

LEMMA StepMade ==
  ASSUME NEW m \in Sides, NEW k \in Sides, NEW s \in Side, NEW at \in Square,
         NEW d \in Directions(s, at \in k[s]), MayStep(m, s, at, d)
  PROVE  <<Pos(MenAfter(m, s, at, at + d, at), KingsAfter(k, s, at, at + d, at)),
           ColRow[at + d]>> \in Rules!Steps(Pos(m, k), s, ColRow[at])
  <1> DEFINE b == Pos(m, k)
             c == ColRow[at]
             w == Way(d)
             p == Pos(MenAfter(m, s, at, at + d, at), KingsAfter(k, s, at, at + d, at))
  <1>1. /\ Rules!Towards(c, w, 1) \in Rules!Vacant(b)
        /\ at + d \in Square /\ ColRow[at + d] = Rules!Towards(c, w, 1)
    BY StepIsOne
  <1>2. w \in Rules!Ways(s, c \in b.kings[s])
    BY WayIsDirection
  <1>3. Rules!Place(b, s, c, ColRow[at + d], c) = p
    BY <1>1, PlaceFacts
  <1> HIDE DEF b, c, w, p
  <1>4. <<Rules!Place(b, s, c, Rules!Towards(c, w, 1), c), Rules!Towards(c, w, 1)>>
           \in Rules!Steps(b, s, c)
    BY <1>1, <1>2 DEF Rules!Steps
  <1> QED
    BY <1>1, <1>3, <1>4 DEF b, c, w, p

\* can_i_take_from tells whether the rules have a jump.
LEMMA TakesWhenJumps ==
  ASSUME NEW m \in Sides, NEW k \in Sides, NEW s \in Side, NEW at \in Square
  PROVE  Rules!Jumps(Pos(m, k), s, ColRow[at]) # {}
           <=> CanTakeFrom(s, at, at \in k[s], m[s], m[Enemy(s)])
  <1> DEFINE b == Pos(m, k)
             c == ColRow[at]
             ds == Directions(s, at \in k[s])
  <1>1. CanTakeFrom(s, at, at \in k[s], m[s], m[Enemy(s)]) <=> \E d \in ds : MayJump(m, s, at, d)
    BY DEF CanTakeFrom, MayJump
  <1>2. Rules!Jumps(b, s, c) # {} <=>
          \E w \in Rules!Ways(s, c \in b.kings[s]) :
            Rules!Towards(c, w, 1) \in b.men[Rules!Opposite(s)] /\ Rules!Towards(c, w, 2) \in Rules!Vacant(b)
    BY DEF Rules!Jumps
  <1>3. Rules!Ways(s, c \in b.kings[s]) = {Way(d) : d \in ds}
    BY WayIsDirection
  <1>4. \A d \in ds : MayJump(m, s, at, d) <=>
          /\ Rules!Towards(c, Way(d), 1) \in b.men[Rules!Opposite(s)]
          /\ Rules!Towards(c, Way(d), 2) \in Rules!Vacant(b)
    BY JumpIsOne
  <1> HIDE DEF b, c, ds
  <1> QED
    BY <1>1, <1>2, <1>3, <1>4 DEF b, c, ds

LEMMA StepsWhenFree ==
  ASSUME NEW m \in Sides, NEW k \in Sides, NEW s \in Side, NEW at \in Square
  PROVE  Rules!Steps(Pos(m, k), s, ColRow[at]) # {}
           <=> \E d \in Directions(s, at \in k[s]) : MayStep(m, s, at, d)
  <1> DEFINE b == Pos(m, k)
             c == ColRow[at]
             ds == Directions(s, at \in k[s])
  <1>2. Rules!Steps(b, s, c) # {} <=>
          \E w \in Rules!Ways(s, c \in b.kings[s]) : Rules!Towards(c, w, 1) \in Rules!Vacant(b)
    BY DEF Rules!Steps
  <1>3. Rules!Ways(s, c \in b.kings[s]) = {Way(d) : d \in ds}
    BY WayIsDirection
  <1>4. \A d \in ds : MayStep(m, s, at, d) <=> Rules!Towards(c, Way(d), 1) \in Rules!Vacant(b)
    BY StepIsOne
  <1> HIDE DEF b, c, ds
  <1> QED
    BY <1>2, <1>3, <1>4 DEF b, c, ds

\* can_i_take and trapped_pieces agree with the rules.
LEMMA TakesWhenChains ==
  ASSUME NEW m \in Sides, NEW k \in Sides, NEW s \in Side
  PROVE  CanTake(s, m[s], k[s], m[Enemy(s)]) <=>
           \E c \in Pos(m, k).men[s] : Rules!Jumps(Pos(m, k), s, c) # {}
  <1>1. Pos(m, k).men[s] = {ColRow[at] : at \in m[s]} /\ m[s] \in SUBSET Square
    BY PosFacts DEF Image
  <1>2. \A at \in m[s] : Rules!Jumps(Pos(m, k), s, ColRow[at]) # {}
                           <=> CanTakeFrom(s, at, at \in k[s], m[s], m[Enemy(s)])
    BY <1>1, TakesWhenJumps
  <1> QED
    BY <1>1, <1>2 DEF CanTake

LEMMA TrappedHasNoTurn ==
  ASSUME NEW m \in Sides, NEW k \in Sides, NEW s \in Side
  PROVE  Trapped(s, m[s], k[s], m[Enemy(s)]) <=> Rules!Turns(Pos(m, k), s) = {}
  <1> DEFINE b == Pos(m, k)
  <1>1. b.men[s] = {ColRow[at] : at \in m[s]} /\ m[s] \in SUBSET Square
    BY PosFacts DEF Image
  <1>2. \A at \in m[s] : Rules!Steps(b, s, ColRow[at]) # {}
                           <=> \E d \in Directions(s, at \in k[s]) : MayStep(m, s, at, d)
    BY <1>1, StepsWhenFree
  <1>3. Rules!Turns(b, s) = {} <=>
          \A c \in b.men[s] : Rules!Jumps(b, s, c) = {} /\ Rules!Steps(b, s, c) = {}
    BY NoTurns
  <1>4. CanTake(s, m[s], k[s], m[Enemy(s)]) <=> \E c \in b.men[s] : Rules!Jumps(b, s, c) # {}
    BY TakesWhenChains
  <1> HIDE DEF b
  <1>5. (\A c \in b.men[s] : Rules!Steps(b, s, c) = {}) <=>
          \A at \in m[s] : \A d \in Directions(s, at \in k[s]) :
            at + d \notin Square \ (m[s] \cup m[Enemy(s)])
    <2>1. (\A c \in b.men[s] : Rules!Steps(b, s, c) = {}) <=>
            \A at \in m[s] : Rules!Steps(b, s, ColRow[at]) = {}
      BY <1>1
    <2>2. \A at \in m[s] : Rules!Steps(b, s, ColRow[at]) = {} <=>
            \A d \in Directions(s, at \in k[s]) : at + d \notin Square \ (m[s] \cup m[Enemy(s)])
      BY <1>2 DEF MayStep
    <2> QED
      BY <2>1, <2>2
  <1> QED
    BY <1>3, <1>4, <1>5 DEF Trapped, b

----------------------------------------------------------------------------
(* The move command makes the turns of the rules.                          *)

\* Hop by hop: a command that has taken something is as many jumps into a chain
\* of the rules from the board, and has not come to the far row.  One that has
\* only stepped is accepted nothing more.
Reached(m, k, at, n) ==
  \E o \in men[toMove] :
    <<Pos(m, k), ColRow[at]>> \in Rules!After(Pos(men, kings), toMove, ColRow[o])[n]
Chain ==
  turn # None =>
    \/ turn.hops = 1 /\ turn.taken = 0 /\ turn.men = men /\ turn.kings = kings
    \/ /\ turn.hops > 1
       /\ turn.taken > 0 => /\ ~Crowns(toMove, turn.from)
                            /\ Reached(turn.men, turn.kings, turn.from, turn.hops - 1)

\* What a parameter that is accepted does to the copies is a jump of the rules
\* or, with the first, a step of them when nothing can be taken.
LEMMA MovedIsOfTheRules ==
  ASSUME IInv, OneTurn, Chain, turn # None, "stepThenJump" \notin Exercised,
         NEW to \in Square \ (Own \cup Foe),
         NEW d \in Distance(turn.side, turn.from, to, IsKing),
         NEW took, took = IF to - turn.from = 2 * d THEN {turn.from + d} ELSE {},
         Accepted(to, took)
  PROVE  LET after == Moved(to, took)
             b == Pos(turn.men, turn.kings)
             x == <<Pos(after.men, after.kings), ColRow[to]>>
         IN \/ /\ after.taken > 0
               /\ turn.hops = 1 \/ turn.taken > 0
               /\ x \in Rules!Jumps(b, toMove, ColRow[turn.from])
            \/ /\ turn.hops = 1 /\ after.taken = 0
               /\ x \in Rules!Steps(b, toMove, ColRow[turn.from])
               /\ ~CanTake(toMove, men[toMove], kings[toMove], men[Enemy(toMove)])
  <1> DEFINE s == toMove
             e == Enemy(s)
             at == turn.from
             m == turn.men
             k == turn.kings
             after == Moved(to, took)
  <1>1. /\ turn \in TurnRec /\ turn.side = s /\ s \in Side /\ at \in Square
        /\ m \in Sides /\ k \in Sides /\ turn.taken \in Nat /\ turn.hops \in 1..4
        /\ at \in m[s]
    BY DEF IInv, TypeOK, TurnRec, OneTurn, Sides, MaxHops
  <1>2. e \in Side /\ e # s /\ Side = {s, e}
    BY <1>1, SideFacts
  <1>3. Own = m[s] /\ Foe = m[e] /\ (IsKing <=> at \in k[s])
    BY <1>1 DEF Own, Foe, IsKing
  <1>4. /\ after.men = [y \in Side |-> IF y = s THEN (m[s] \ {at}) \cup {to} ELSE m[e] \ took]
        /\ after.kings = [y \in Side |-> IF y = s
                            THEN (k[s] \ {at}) \cup (IF at \in k[s] \/ Crowns(s, to) THEN {to} ELSE {})
                            ELSE k[e] \ took]
        /\ after.taken = turn.taken + Cardinality(took)
    BY <1>1 DEF Moved, TurnRec, IsKing
  <1>5. /\ d \in Directions(s, at \in k[s])
        /\ to - at = d \/ to - at = 2 * d
    BY <1>1 DEF Distance, IsKing
  <1>6. d \in {-5, -4, 4, 5} /\ at \in Int /\ to \in Int
    <2>1. Directions(s, at \in k[s]) \subseteq {-5, -4, 4, 5}
      BY <1>1, WayIsDirection
    <2>2. \A o \in Square : o \in Int
      BY DEF Square
    <2>3. at \in Int /\ to \in Int
      BY <1>1, <2>2
    <2> HIDE DEF at, k, s
    <2> QED
      BY <1>5, <2>1, <2>3
  <1>7. m[s] \cap m[e] = {} /\ k[e] \subseteq m[e]
    BY <1>1, <1>2 DEF IInv, BoardOK, Sound, Side
  <1> HIDE DEF after, s, e, at, m, k
  <1>8. CASE took # {}
    <2>0. to - at = 2 * d /\ took = {at + d}
      BY <1>8 DEF at
    <2>1. to = at + 2 * d /\ took = {at + d}
      <3>1. d \in Int
        BY <1>6
      <3>2. \A i, j, l \in Int : i - j = 2 * l => i = j + 2 * l
        OBVIOUS
      <3>3. to = at + 2 * d
        BY <1>6, <2>0, <3>1, <3>2
      <3> QED
        BY <2>0, <3>3
    <2>2. took \subseteq m[e] /\ (turn.hops = 1 \/ turn.taken > 0)
      <3>1. took \subseteq Foe /\ ~(turn.hops > 1 /\ turn.taken = 0)
        BY <1>8 DEF Accepted
      <3>2. turn.hops > 1 \/ turn.hops = 1
        BY <1>1
      <3>3. turn.taken = 0 \/ turn.taken > 0
        BY <1>1
      <3> QED
        BY <1>3, <3>1, <3>2, <3>3
    <2>3. MayJump(m, s, at, d)
      BY <1>3, <2>1, <2>2 DEF MayJump, e
    <2>4. /\ after.men = MenAfter(m, s, at, at + 2 * d, at + d)
          /\ after.kings = KingsAfter(k, s, at, at + 2 * d, at + d)
      BY <1>4, <2>1 DEF MenAfter, KingsAfter, e
    <2>5. after.taken > 0
      <3>1. Cardinality({at + d}) = 1
        BY FS_Singleton
      <3>2. after.taken = turn.taken + 1
        BY <1>4, <2>1, <3>1
      <3> QED
        BY <1>1, <3>2
    <2>6. <<Pos(after.men, after.kings), ColRow[to]>> \in Rules!Jumps(Pos(m, k), s, ColRow[at])
      BY <1>1, <1>5, <2>1, <2>3, <2>4, JumpMade
    <2> QED
      BY <2>2, <2>5, <2>6 DEF after, s, at, m, k
  <1>9. CASE took = {}
    <2>1. to = at + d
      BY <1>5, <1>6, <1>9 DEF at
    <2>2. turn.hops = 1
      BY <1>9 DEF Accepted
    <2>3. turn.taken = 0 /\ m = men /\ k = kings
      BY <2>2 DEF Chain, m, k
    <2>4. ~CanTake(s, m[s], k[s], m[e])
      <3>1. ~(turn.taken > 0)
        BY <2>3
      <3>2. ~CanTake(turn.side, Own, turn.kings[turn.side], Foe)
        BY <1>9, <3>1 DEF Accepted
      <3> QED
        BY <1>1, <1>3, <3>2 DEF k
    <2>5. MayStep(m, s, at, d)
      BY <1>3, <2>1 DEF MayStep, e
    <2>6. m[e] \ took = m[e] \ {at} /\ k[e] \ took = k[e] \ {at}
      BY <1>1, <1>7, <1>9
    <2>7. /\ after.men = MenAfter(m, s, at, at + d, at)
          /\ after.kings = KingsAfter(k, s, at, at + d, at)
      BY <1>4, <2>1, <2>6 DEF MenAfter, KingsAfter, e
    <2>8. after.taken = 0
      <3>1. Cardinality({}) = 0
        BY FS_EmptySet
      <3>2. after.taken = 0 + 0
        BY <1>4, <1>9, <2>3, <3>1
      <3> QED
        BY <3>2
    <2>9. <<Pos(after.men, after.kings), ColRow[to]>> \in Rules!Steps(Pos(m, k), s, ColRow[at])
      BY <1>1, <1>5, <2>1, <2>5, <2>7, StepMade
    <2> QED
      BY <2>2, <2>3, <2>4, <2>8, <2>9 DEF after, s, e, at, m, k
  <1> QED
    BY <1>8, <1>9

\* One jump more is one further into the chain.
LEMMA OneFurther ==
  ASSUME IInv, OneTurn, Chain, turn # None, turn.hops = 1 \/ turn.taken > 0,
         NEW m, NEW k, NEW to,
         <<Pos(m, k), ColRow[to]>> \in Rules!Jumps(Pos(turn.men, turn.kings), toMove, ColRow[turn.from])
  PROVE  Reached(m, k, to, turn.hops)
  <1> DEFINE s == toMove
             b == Pos(turn.men, turn.kings)
             c == ColRow[turn.from]
             n == turn.hops
             x == <<Pos(m, k), ColRow[to]>>
  <1>1. /\ turn \in TurnRec /\ s \in Side /\ turn.from \in Square /\ n \in 1..4
        /\ turn.from \in turn.men[s]
    BY DEF IInv, TypeOK, TurnRec, OneTurn, MaxHops
  <1>2. n = 1 \/ c[2] # Rules!LastRow(s)
    <2>1. n = 1 \/ ~Crowns(s, turn.from)
      BY DEF Chain
    <2> QED
      BY <1>1, <2>1, CrownsIsLastRow
  <1>3. PICK o \in men[s] : <<b, c>> \in Rules!After(Pos(men, kings), s, ColRow[o])[n - 1]
    <2>1. CASE n = 1
      <3>1. turn.men = men /\ turn.kings = kings
        BY <2>1 DEF Chain
      <3>2. Rules!After(Pos(men, kings), s, c)[0] = {<<Pos(men, kings), c>>}
        BY AfterFacts
      <3>3. n - 1 = 0
        BY <2>1
      <3> QED
        BY <1>1, <3>1, <3>2, <3>3
    <2>2. CASE n # 1
      BY <2>2 DEF Chain, Reached
    <2> QED
      BY <2>1, <2>2
  <1> DEFINE a == Rules!After(Pos(men, kings), s, ColRow[o])
  <1>4. a[n] = Further(a[n - 1], s, n)
    BY <1>1, AfterFacts
  <1>5. <<b, c>> \in a[n - 1] /\ x \in Rules!Jumps(b, s, c)
    BY <1>3
  <1> HIDE DEF a, b, c, n, x
  <1>6. x \in Further(a[n - 1], s, n)
    <2>1. <<b, c>> \in {y \in a[n - 1] : n = 1 \/ y[2][2] # Rules!LastRow(s)}
      BY <1>2, <1>5
    <2>2. <<b, c>>[1] = b /\ <<b, c>>[2] = c
      OBVIOUS
    <2> QED
      BY <1>5, <2>1, <2>2 DEF Further
  <1> QED
    BY <1>4, <1>6 DEF Reached, a, n, x

LEMMA ResultIsOfTheRules ==
  ASSUME NEW s \in Side, NEW m \in Sides, NEW k \in Sides
  PROVE  Result(s, m, k) = IF Rules!Turns(Pos(m, k), Enemy(s)) = {} THEN s ELSE None
  <1> DEFINE e == Enemy(s)
  <1>1. e \in Side /\ Enemy(e) = s
    BY DEF Side, Enemy
  <1>2. Trapped(e, m[e], k[e], m[s]) <=> Rules!Turns(Pos(m, k), e) = {}
    BY <1>1, TrappedHasNoTurn
  <1>3. m[e] = {} => Trapped(e, m[e], k[e], m[s])
    BY DEF Trapped, CanTake
  <1> QED
    BY <1>2, <1>3 DEF Result

\* Where a chain of the rules ends, when it has no jump more.
LEMMA ChainEnds ==
  ASSUME NEW b, NEW s, NEW from, NEW n \in 1..4, NEW x \in Rules!After(b, s, from)[n],
         n = 4 \/ x[2][2] = Rules!LastRow(s) \/ Rules!Jumps(x[1], s, x[2]) = {}
  PROVE  x[1] \in Rules!Chains(b, s, from)
  <1> DEFINE a == Rules!After(b, s, from)
             finished(y, i) == \/ i = 4 \/ y[2][2] = Rules!LastRow(s)
                               \/ Rules!Jumps(y[1], s, y[2]) = {}
  <1>1. Rules!Chains(b, s, from) = UNION {{y[1] : y \in {z \in a[i] : finished(z, i)}} : i \in 1..4}
    BY DEF Rules!Chains
  <1>2. finished(x, n)
    OBVIOUS
  <1>3. x[1] \in {y[1] : y \in {z \in a[n] : finished(z, n)}}
    BY <1>2
  <1> HIDE DEF finished, a
  <1> QED
    BY <1>1, <1>3

\* A hop that ends the command makes a turn of the rules.
LEMMA EndsTheTurn ==
  ASSUME IInv, OneTurn, Chain, "stepThenJump" \notin Exercised, turn # None,
         NEW to \in Square \ (Own \cup Foe),
         NEW d \in Distance(turn.side, turn.from, to, IsKing),
         NEW took, took = IF to - turn.from = 2 * d THEN {turn.from + d} ELSE {},
         NEW after, after = Moved(to, took),
         Accepted(to, took),
         ~(/\ after.taken > 0 /\ turn.hops < MaxHops /\ ~Crowns(toMove, to)
           /\ CanTakeFrom(toMove, to, to \in after.kings[toMove], after.men[toMove],
                          after.men[Enemy(toMove)]))
  PROVE  Pos(after.men, after.kings) \in Rules!Turns(Pos(men, kings), toMove)
  <1> DEFINE s == toMove
             at == turn.from
             b == Pos(men, kings)
             p == Pos(after.men, after.kings)
             t == Pos(turn.men, turn.kings)
             chains == UNION {Rules!Chains(b, s, c) : c \in b.men[s]}
             steps == UNION {{y[1] : y \in Rules!Steps(b, s, c)} : c \in b.men[s]}
  <1>1. /\ turn \in TurnRec /\ turn.side = s /\ s \in Side /\ Enemy(s) \in Side
        /\ men \in Sides /\ kings \in Sides
        /\ turn.hops \in 1..4 /\ at \in turn.men[s] /\ to \in Square
    BY SideFacts DEF IInv, TypeOK, TurnRec, OneTurn, Sides, MaxHops
  <1>2. took \in SUBSET Foe /\ Cardinality(took) \in Nat
    BY TakenFacts
  <1>3. after \in TurnRec /\ after.men \in Sides /\ after.kings \in Sides
    BY <1>2, MovedFacts DEF TurnRec, Sides
  <1>4. \/ /\ after.taken > 0
           /\ turn.hops = 1 \/ turn.taken > 0
           /\ <<p, ColRow[to]>> \in Rules!Jumps(t, s, ColRow[at])
        \/ /\ turn.hops = 1 /\ after.taken = 0
           /\ <<p, ColRow[to]>> \in Rules!Steps(t, s, ColRow[at])
           /\ ~CanTake(s, men[s], kings[s], men[Enemy(s)])
    BY MovedIsOfTheRules
  <1>5. Rules!Turns(b, s) = IF chains # {} THEN chains ELSE steps
    BY DEF Rules!Turns
  <1>6. \A o \in men[s] : ColRow[o] \in b.men[s]
    BY <1>1, PosFacts DEF Image
  <1>7. CASE /\ after.taken > 0
             /\ turn.hops = 1 \/ turn.taken > 0
             /\ <<p, ColRow[to]>> \in Rules!Jumps(t, s, ColRow[at])
    <2>1. Reached(after.men, after.kings, to, turn.hops)
      BY <1>7, OneFurther
    <2>2. PICK o \in men[s] : <<p, ColRow[to]>> \in Rules!After(b, s, ColRow[o])[turn.hops]
      BY <2>1 DEF Reached
    <2>3. turn.hops = 4 \/ ColRow[to][2] = Rules!LastRow(s) \/ Rules!Jumps(p, s, ColRow[to]) = {}
      <3>1. turn.hops = 4 \/ turn.hops < MaxHops
        BY <1>1 DEF MaxHops
      <3>2. Crowns(s, to) <=> ColRow[to][2] = Rules!LastRow(s)
        BY <1>1, CrownsIsLastRow
      <3>3. Rules!Jumps(p, s, ColRow[to]) # {} <=>
              CanTakeFrom(s, to, to \in after.kings[s], after.men[s], after.men[Enemy(s)])
        <4> HIDE DEF s
        <4> DEFINE M == after.men
                   K == after.kings
        <4>1. M \in Sides /\ K \in Sides /\ s \in Side /\ to \in Square
          BY <1>1, <1>3
        <4> HIDE DEF M, K
        <4>2. Rules!Jumps(Pos(M, K), s, ColRow[to]) # {} <=>
                CanTakeFrom(s, to, to \in K[s], M[s], M[Enemy(s)])
          BY <4>1, TakesWhenJumps
        <4> QED
          BY <4>2 DEF M, K
      <3> QED
        BY <1>7, <3>1, <3>2, <3>3
    <2> DEFINE x == <<p, ColRow[to]>>
    <2>4. x[1] = p /\ x[2] = ColRow[to]
      OBVIOUS
    <2> HIDE DEF p, b, x
    <2>5. p \in Rules!Chains(b, s, ColRow[o])
      <3>1. x \in Rules!After(b, s, ColRow[o])[turn.hops]
        BY <2>2 DEF x
      <3> QED
        BY <1>1, <2>3, <2>4, <3>1, ChainEnds
    <2>6. p \in chains
      BY <1>6, <2>5
    <2> QED
      BY <1>5, <2>6 DEF p, b
  <1>8. CASE /\ turn.hops = 1 /\ after.taken = 0
             /\ <<p, ColRow[to]>> \in Rules!Steps(t, s, ColRow[at])
             /\ ~CanTake(s, men[s], kings[s], men[Enemy(s)])
    <2>1. turn.men = men /\ turn.kings = kings
      BY <1>8 DEF Chain
    <2>2. \A c \in b.men[s] : Rules!Jumps(b, s, c) = {}
      BY <1>1, <1>8, TakesWhenChains
    <2>3. chains = {}
      <3>1. \A c \in b.men[s] : Rules!Chains(b, s, c) = {}
        BY <2>2, ChainsBegin
      <3> HIDE DEF b
      <3> QED
        BY <3>1
    <2>4. ColRow[at] \in b.men[s] /\ <<p, ColRow[to]>> \in Rules!Steps(b, s, ColRow[at])
      BY <1>1, <1>6, <1>8, <2>1
    <2> DEFINE x == <<p, ColRow[to]>>
    <2>5. x[1] = p
      OBVIOUS
    <2> HIDE DEF p, b, x
    <2>6. p \in {y[1] : y \in Rules!Steps(b, s, ColRow[at])}
      BY <2>4, <2>5 DEF x
    <2>7. p \in steps
      BY <2>4, <2>6
    <2> QED
      BY <1>5, <2>3, <2>7 DEF p, b
  <1> QED
    BY <1>4, <1>7, <1>8

LEMMA HopIsOfTheRules ==
  ASSUME {"stepThenJump", "more"} \cap Exercised = {}, IInv, OneTurn, Chain, winner = None,
         NEW to \in Square, NEW last \in BOOLEAN, Hop(to, last)
  PROVE  Chain' /\ [Rules!Turn]_(Rules!rvars)
  <1> DEFINE s == toMove
  <1>1. turn # None /\ turn.side = s /\ turn.hops \in 1..4 /\ turn \in TurnRec /\ s \in Side
    BY DEF Hop, IInv, TypeOK, TurnRec, OneTurn, MaxHops
  <1>2. PICK d \in Distance(turn.side, turn.from, to, IsKing) :
          LET took == IF to - turn.from = 2 * d THEN {turn.from + d} ELSE {}
              after == Moved(to, took)
          IN /\ Accepted(to, took)
             /\ \/ /\ ~last /\ turn.hops < MaxHops /\ ~Crowns(s, to)
                   /\ turn' = [after EXCEPT !.from = to, !.hops = @ + 1]
                   /\ UNCHANGED <<men, kings, toMove, winner>>
                \/ /\ ~(/\ after.taken > 0 /\ turn.hops < MaxHops /\ ~Crowns(s, to)
                        /\ CanTakeFrom(s, to, to \in after.kings[s], after.men[s],
                                       after.men[Enemy(s)]))
                   /\ men' = after.men /\ kings' = after.kings /\ toMove' = Enemy(s)
                   /\ turn' = None /\ winner' = Result(s, men', kings')
    BY <1>1 DEF Hop
  <1> DEFINE took == IF to - turn.from = 2 * d THEN {turn.from + d} ELSE {}
             after == Moved(to, took)
  <1>3. to \in Square \ (Own \cup Foe)
    BY DEF Hop
  <1>4. took \in SUBSET Foe /\ Cardinality(took) \in Nat
    BY <1>2, TakenFacts
  <1>5. /\ after \in TurnRec /\ after.hops = turn.hops /\ after.men \in Sides /\ after.kings \in Sides
    <2>1. after \in TurnRec /\ after.hops = turn.hops
      BY <1>1, <1>3, <1>4, MovedFacts
    <2> HIDE DEF after
    <2> QED
      BY <2>1 DEF TurnRec, Sides
  <1>6. CASE /\ ~last /\ turn.hops < MaxHops /\ ~Crowns(s, to)
             /\ turn' = [after EXCEPT !.from = to, !.hops = @ + 1]
             /\ UNCHANGED <<men, kings, toMove, winner>>
    <2>1. after.taken > 0 => Reached(after.men, after.kings, to, turn.hops)
      <3>1. \/ /\ turn.hops = 1 \/ turn.taken > 0
               /\ <<Pos(after.men, after.kings), ColRow[to]>>
                    \in Rules!Jumps(Pos(turn.men, turn.kings), s, ColRow[turn.from])
            \/ after.taken = 0
        BY <1>1, <1>2, <1>3, MovedIsOfTheRules
      <3> HIDE DEF after
      <3>2. CASE /\ turn.hops = 1 \/ turn.taken > 0
                 /\ <<Pos(after.men, after.kings), ColRow[to]>>
                      \in Rules!Jumps(Pos(turn.men, turn.kings), s, ColRow[turn.from])
        BY <1>1, <3>2, OneFurther
      <3> QED
        BY <3>1, <3>2
    <2> HIDE DEF after
    <2>2. /\ turn'.men = after.men /\ turn'.kings = after.kings /\ turn'.from = to
          /\ turn'.taken = after.taken /\ turn'.hops = turn.hops + 1
      BY <1>5, <1>6 DEF TurnRec
    <2>3. turn'.hops > 1 /\ turn'.hops - 1 = turn.hops
      BY <1>1, <2>2
    <2>4. Chain'
      BY <1>6, <2>1, <2>2, <2>3 DEF Chain, Reached, Pos, OnRules
    <2>5. UNCHANGED Rules!rvars
      BY <1>6 DEF Rules!rvars, OnRules
    <2> QED
      BY <2>4, <2>5
  <1>7. CASE /\ ~(/\ after.taken > 0 /\ turn.hops < MaxHops /\ ~Crowns(s, to)
                  /\ CanTakeFrom(s, to, to \in after.kings[s], after.men[s],
                                 after.men[Enemy(s)]))
             /\ men' = after.men /\ kings' = after.kings /\ toMove' = Enemy(s)
             /\ turn' = None /\ winner' = Result(s, men', kings')
    <2>1. Pos(after.men, after.kings) \in Rules!Turns(Pos(men, kings), s)
      BY <1>1, <1>2, <1>3, <1>7, EndsTheTurn
    <2> HIDE DEF after
    <2>2. Rules!Opposite(s) = Enemy(s)
      BY DEF Rules!Opposite, Enemy
    <2>3. winner' = IF Rules!Turns(Pos(after.men, after.kings), Enemy(s)) = {} THEN s ELSE None
      BY <1>1, <1>5, <1>7, ResultIsOfTheRules
    <2>4. (OnRules(men))' = Pos(after.men, after.kings).men
          /\ (OnRules(kings))' = Pos(after.men, after.kings).kings
      BY <1>7 DEF Pos, OnRules
    <2>5. Rules!Turn
      <3> DEFINE p == Pos(after.men, after.kings)
      <3>1. Rules!Turns([men |-> OnRules(men), kings |-> OnRules(kings)], toMove)
              = Rules!Turns(Pos(men, kings), s)
        BY DEF Pos
      <3> HIDE DEF p
      <3>2. /\ p \in Rules!Turns([men |-> OnRules(men), kings |-> OnRules(kings)], toMove)
            /\ (OnRules(men))' = p.men /\ (OnRules(kings))' = p.kings
            /\ toMove' = Rules!Opposite(toMove)
            /\ winner' = IF Rules!Turns(p, toMove') = {} THEN toMove ELSE None
        BY <1>7, <2>1, <2>2, <2>3, <2>4, <3>1 DEF p
      <3> QED
        BY <3>2 DEF Rules!Turn
    <2>6. Chain'
      BY <1>7 DEF Chain
    <2> QED
      BY <2>5, <2>6
  <1> QED
    BY <1>2, <1>6, <1>7

LEMMA NextIsOfTheRules ==
  ASSUME {"stepThenJump", "more"} \cap Exercised = {}, IInv, OneTurn, Chain, [Next]_vars
  PROVE  Chain' /\ [Rules!Turn]_(Rules!rvars)
  <1>1. CASE UNCHANGED vars
    BY <1>1 DEF vars, Chain, Reached, Pos, OnRules, Rules!rvars
  <1>2. ASSUME NEW from \in Square, Begin(from) PROVE Chain' /\ UNCHANGED Rules!rvars
    BY <1>2 DEF Begin, Chain, Rules!rvars, OnRules
  <1>3. ASSUME winner = None, Refused PROVE Chain' /\ UNCHANGED Rules!rvars
    BY <1>3 DEF Refused, OneTurn, Chain, Rules!rvars, OnRules
  <1>4. ASSUME winner = None, NEW to \in Square, NEW last \in BOOLEAN, Hop(to, last)
        PROVE  Chain' /\ [Rules!Turn]_(Rules!rvars)
    BY <1>4, HopIsOfTheRules
  <1> QED
    BY <1>1, <1>2, <1>3, <1>4 DEF Next

LEMMA BeginsByTheRules == Init => OneTurn /\ Chain /\ Rules!Init
  <1> SUFFICES ASSUME Init PROVE OneTurn /\ Chain /\ Rules!Init
    OBVIOUS
  <1>1. PICK p \in Starts : men = p.men /\ kings = p.kings /\ toMove = p.toMove
    BY DEF Init
  <1>2. [men |-> OnRules(men), kings |-> OnRules(kings), toMove |-> toMove] \in RuleStarts
    BY <1>1 DEF RuleStarts
  <1> QED
    BY <1>2 DEF Init, OneTurn, Chain, Rules!Init

\* Every turn the move command makes is a turn of the game of draughts, and the
\* game ends when the other side has none, from any sound positions, when no
\* step is followed by a jump and no square follows the last hop.
THEOREM RulesAreKept ==
  {"stepThenJump", "more"} \cap Exercised = {} => (Spec => KeepsTheRules)
  <1> SUFFICES ASSUME {"stepThenJump", "more"} \cap Exercised = {} PROVE Spec => KeepsTheRules
    OBVIOUS
  <1>1. IInv /\ OneTurn /\ Chain /\ [Next]_vars => (OneTurn /\ Chain)' /\ [Rules!Turn]_(Rules!rvars)
    BY NextGoes, NextIsOfTheRules
  <1> QED
    BY <1>1, BeginsByTheRules, Invariance, PTL DEF Spec, KeepsTheRules, Rules!Spec
============================================================================
