------------------------------ MODULE Draughts ------------------------------
(***************************************************************************)
(* The board of a draughts game and the move command (src/draughts.c).     *)
(*                                                                         *)
(* A square is a number of 1..35.  The numbers are spread so that a move   *)
(* is always 4 or 5 up or down the board: 9, 18 and 27 are not on it, they *)
(* keep the left and the right edge apart.  Black starts at 1 and moves    *)
(* up.  The command names a square and the squares to move it to; it works *)
(* on copies of the board (turn) and writes them back at the end.          *)
(***************************************************************************)
EXTENDS Integers, FiniteSets

CONSTANTS
  Starts,     \* positions to play from: [men, kings, toMove]
  None,       \* no turn, no winner
  Exercised   \* what a move command may name that the code gets wrong

VARIABLES
  men,        \* men[s]: the squares of side s, kings and all (X_locations)
  kings,      \* kings[s]: those of its kings (X_kings)
  toMove,     \* the side to move
  turn,       \* None, or the local variables of user_move_draughts
  winner,     \* the side whose move ended the game
  aborted     \* an assertion has failed

vars == <<men, kings, toMove, turn, winner, aborted>>
board == <<men, kings, toMove>>

Side == {"black", "white"}
Enemy(s) == IF s = "black" THEN "white" ELSE "black"

Gap == {9, 18, 27}
Square == (1..35) \ Gap                        \* valid_board_position

\* get_draught_board_position, of a dark square; rows are counted from the
\* top of the board.
EffectiveCol(col) == IF col = 1 THEN 0 ELSE col \div 2
BoardPosition(col, row) ==
  LET up == 9 - row IN up * 4 + up \div 2 - EffectiveCol(col)

Forward(s) == IF s = "black" THEN 1 ELSE -1
\* Where a piece of side s goes: its directions are 4 and 5, kings have both.
Ahead(s) == {4 * Forward(s), 5 * Forward(s)}
Directions(s, king) == IF king THEN {-5, -4, 4, 5} ELSE Ahead(s)

MaxHops == 4

\* The far row crowns, a king that comes back to it too.
Crowns(s, to) == IF s = "white" THEN to \in 1..4 ELSE to \in 32..35

Position == [men : [Side -> SUBSET Square], kings : [Side -> SUBSET Square],
             toMove : Side]
ASSUME ConstAssumption ==
  /\ \A p \in Starts :
       /\ p \in Position
       /\ p.men["black"] \cap p.men["white"] = {}
       /\ \A s \in Side : p.kings[s] \subseteq p.men[s]
  /\ None \notin Side
  /\ Exercised \subseteq {"edge", "stepThenJump", "more"}

----------------------------------------------------------------------------
\* can_i_take_from: can the piece take one of foe?
CanTakeFrom(s, at, king, own, foe) ==
  \E d \in Directions(s, king) :
    /\ at + d \in foe
    /\ at + 2 * d \in Square \ (own \cup foe)

\* can_i_take: can any piece?
CanTake(s, own, ownKings, foe) ==
  \E at \in own : CanTakeFrom(s, at, at \in ownKings, own, foe)

\* trapped_pieces: no piece of s can move or take.
Trapped(s, own, ownKings, foe) ==
  /\ \A at \in own : \A d \in Directions(s, at \in ownKings) :
       at + d \notin Square \ (own \cup foe)
  /\ ~CanTake(s, own, ownKings, foe)

\* valid_distances: the directions d in which to is one or two moves away.
Distance(s, from, to, king) ==
  {d \in Directions(s, king) : to - from \in {d, 2 * d}}

----------------------------------------------------------------------------
Init ==
  /\ \E p \in Starts : men = p.men /\ kings = p.kings /\ toMove = p.toMove
  /\ turn = None
  /\ winner = None
  /\ aborted = FALSE

\* user_move_draughts up to its loop: the first parameter is one's own piece.
Begin(from) ==
  /\ turn = None
  /\ from \in men[toMove]
  /\ turn' = [side |-> toMove, from |-> from, hops |-> 1, taken |-> 0,
              men |-> men, kings |-> kings, done |-> FALSE]
  /\ UNCHANGED <<men, kings, toMove, winner, aborted>>

Own == turn.men[turn.side]
Foe == turn.men[Enemy(turn.side)]
IsKing == turn.from \in turn.kings[turn.side]

\* Mutants of Moved: the king stays behind; the piece does.
Moved_king(to, took) ==
  LET s == turn.side
      e == Enemy(s)
  IN [turn EXCEPT !.men = [@ EXCEPT ![s] = (@ \ {turn.from}) \cup {to}, ![e] = @ \ took],
                  !.kings = [@ EXCEPT ![s] = @ \cup (IF IsKing THEN {to} ELSE {}),
                                      ![e] = @ \ took],
                  !.taken = @ + Cardinality(took)]
Moved_copy(to, took) ==
  LET s == turn.side
      e == Enemy(s)
  IN [turn EXCEPT !.men = [@ EXCEPT ![s] = @ \cup {to}, ![e] = @ \ took],
                  !.kings = [@ EXCEPT ![e] = @ \ took],
                  !.taken = @ + Cardinality(took)]

\* setup_new_state: the turn with the piece moved and the one taken away.
Moved(to, took) ==
  LET s == turn.side
      e == Enemy(s)
      kept == (turn.kings[s] \ {turn.from})
                \cup (IF IsKing \/ Crowns(s, to) THEN {to} ELSE {})
  IN [turn EXCEPT !.men = [x \in Side |-> IF x = s THEN (@[s] \ {turn.from}) \cup {to}
                                          ELSE @[e] \ took],
                  !.kings = [x \in Side |-> IF x = s THEN kept ELSE @[e] \ took],
                  !.taken = @ + Cardinality(took)]

\* A mutant of Accepted: who can take need not.
Accepted_step(to, took) ==
  \/ took # {} /\ took \subseteq Foe /\ (turn.hops = 1 \/ turn.taken > 0)
  \/ took = {} /\ turn.hops = 1

\* What is tested before a parameter is accepted.  A step is refused while
\* any piece can take, and after the first hop.
Accepted(to, took) ==
  \/ /\ took # {}
     /\ took \subseteq Foe
     /\ turn.hops > 1 /\ turn.taken = 0 => "stepThenJump" \in Exercised
  \/ /\ took = {}
     /\ turn.hops = 1
     /\ IF turn.taken > 0 THEN ~CanTakeFrom(turn.side, to, to \in turn.kings[turn.side], Own, Foe)
        ELSE ~CanTake(turn.side, Own, turn.kings[turn.side], Foe)

\* After user_move_draughts' loop: does the side that moved win?
Result(s, m, k) ==
  IF m[Enemy(s)] = {} \/ Trapped(Enemy(s), m[Enemy(s)], k[Enemy(s)], m[s])
  THEN s ELSE None

\* One turn of the loop, for a parameter it accepts.  The board is written
\* back (make_final_state) by the last parameter, the fourth hop or a hop to
\* the far row; a capture that can go on must.  The loop goes on with the old
\* square when parameters are left after that.
Hop(to, last) ==
  /\ turn # None
  /\ to \in Square \ (Own \cup Foe)
  /\ \E d \in Distance(turn.side, turn.from, to, IsKing) :
       LET s == turn.side
           took == IF to - turn.from = 2 * d THEN {turn.from + d} ELSE {}
           after == Moved(to, took)
           crowned == Crowns(s, to)
           goesOn == ~last /\ turn.hops < MaxHops /\ ~crowned
           mustGoOn == /\ after.taken > 0 /\ turn.hops < MaxHops /\ ~crowned
                       /\ CanTakeFrom(s, to, to \in after.kings[s], after.men[s],
                                      after.men[Enemy(s)])
       IN /\ Accepted(to, took)
          /\ \/ /\ goesOn
                /\ turn' = [after EXCEPT !.from = to, !.hops = @ + 1]
                /\ UNCHANGED <<men, kings, toMove, winner>>
             \/ /\ ~goesOn /\ ~mustGoOn
                /\ men' = after.men
                /\ kings' = after.kings
                /\ toMove' = Enemy(s)
                /\ \/ /\ last
                      /\ turn' = None
                      /\ winner' = Result(s, men', kings')
                   \/ /\ ~last /\ "more" \in Exercised
                      /\ turn' = [after EXCEPT !.done = TRUE]
                      /\ UNCHANGED winner
  /\ UNCHANGED aborted

\* A jump over a number that is not on the board goes from one edge to the
\* other.
JumpsEdge ==
  \E d \in Directions(turn.side, IsKing) :
    turn.from + d \in Gap /\ turn.from + 2 * d \in Square \ (Own \cup Foe)

\* A parameter is refused, or there is none left: the loop ends.  For a jump
\* over the edge piece_at_position fails its assertion instead.
Refused ==
  /\ turn # None
  /\ turn' = None
  /\ winner' = IF turn.done THEN Result(turn.side, men, kings) ELSE None
  /\ aborted' \in {FALSE} \cup (IF JumpsEdge /\ "edge" \in Exercised THEN {TRUE} ELSE {})
  /\ UNCHANGED <<men, kings, toMove>>

Next ==
  /\ winner = None /\ ~aborted
  /\ \/ \E from \in Square : Begin(from)
     \/ \E to \in Square, last \in BOOLEAN : Hop(to, last)
     \/ Refused

Spec == Init /\ [][Next]_vars

----------------------------------------------------------------------------
TurnRec == [side : Side, from : Square, hops : 1..MaxHops, taken : Nat,
            men : [Side -> SUBSET Square], kings : [Side -> SUBSET Square],
            done : BOOLEAN]

TypeOK ==
  /\ men \in [Side -> SUBSET Square]
  /\ kings \in [Side -> SUBSET Square]
  /\ toMove \in Side /\ winner \in Side \cup {None} /\ aborted \in BOOLEAN
  /\ turn = None \/ turn \in TurnRec

Sound(m, k) ==
  m["black"] \cap m["white"] = {} /\ \A s \in Side : k[s] \subseteq m[s]

\* No square has two pieces and no king is without its piece, on the board and
\* on the copies a command works on: four bit sets are changed by hand with
\* every hop.
BoardOK ==
  /\ Sound(men, kings)
  /\ turn # None => Sound(turn.men, turn.kings)

PiecesGo ==
  \A s \in Side :
    /\ Cardinality(men'[s]) <= Cardinality(men[s])
    /\ s = toMove => Cardinality(men'[s]) = Cardinality(men[s])

\* A turn moves one piece of the side to move and takes only from the other:
\* no side gains a piece, and the mover keeps all of his.
PiecesOnlyGo == [][PiecesGo]_men

\* Nothing a player may type fails an assertion.
NoAbort == ~aborted

----------------------------------------------------------------------------
\* The column and row of each square.
ColRow == [at \in Square |->
  CHOOSE c \in (1..8) \X (1..8) :
    (c[1] + c[2]) % 2 = 0 /\ BoardPosition(c[1], 9 - c[2]) = at]
OnRules(sides) == [s \in Side |-> {ColRow[at] : at \in sides[s]}]

RuleStarts == {[men |-> OnRules(p.men), kings |-> OnRules(p.kings), toMove |-> p.toMove] :
                 p \in Starts}

Rules == INSTANCE DraughtsRules WITH
  Starts <- RuleStarts, NoOne <- None, men <- OnRules(men), kings <- OnRules(kings)

\* Every turn the move command makes is one of the game, and it ends the game
\* when the other side has none.
KeepsTheRules == Rules!Spec
============================================================================
