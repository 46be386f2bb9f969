---------------------------- MODULE DraughtsRules ----------------------------
(***************************************************************************)
(* The game of draughts, on an 8 by 8 board of columns and rows: what      *)
(* module Draughts promises the players.  A turn is a step to a            *)
(* neighbouring square, or a chain of jumps that goes on while it can, up  *)
(* to four; who can jump must.  The far row makes a king and ends the      *)
(* turn.  Who has no turn has lost.                                        *)
(***************************************************************************)
EXTENDS Integers, FiniteSets

CONSTANTS Starts, NoOne

VARIABLES
  men,     \* men[s]: the <<column, row>> of the pieces of side s
  kings,   \* kings[s]: those of its kings
  toMove,  \* the side to move
  winner

rvars == <<men, kings, toMove, winner>>

Opposite(s) == IF s = "black" THEN "white" ELSE "black"
OnBoard == (1..8) \X (1..8)
Up(s) == IF s = "black" THEN 1 ELSE -1
LastRow(s) == IF s = "black" THEN 8 ELSE 1

Towards(at, dir, n) == <<at[1] + n * dir[1], at[2] + n * dir[2]>>
Ways(s, king) == {-1, 1} \X (IF king THEN {-1, 1} ELSE {Up(s)})

\* Position b with the piece of s moved from a square to another, and the
\* piece on a square in between taken.
Place(b, s, from, to, took) ==
  LET e == Opposite(s)
      crown == from \in b.kings[s] \/ to[2] = LastRow(s)
  IN [men   |-> [x \in {s, e} |-> IF x = s THEN (b.men[s] \ {from}) \cup {to}
                                  ELSE b.men[e] \ {took}],
      kings |-> [x \in {s, e} |-> IF x = s
                   THEN (b.kings[s] \ {from}) \cup (IF crown THEN {to} ELSE {})
                   ELSE b.kings[e] \ {took}]]

Vacant(b) == OnBoard \ (b.men["black"] \cup b.men["white"])

\* The steps and jumps of the piece on a square: <<position, square>>.
Steps(b, s, from) ==
  {<<Place(b, s, from, Towards(from, w, 1), from), Towards(from, w, 1)>> :
     w \in {v \in Ways(s, from \in b.kings[s]) : Towards(from, v, 1) \in Vacant(b)}}
Jumps(b, s, from) ==
  {<<Place(b, s, from, Towards(from, w, 2), Towards(from, w, 1)), Towards(from, w, 2)>> :
     w \in {v \in Ways(s, from \in b.kings[s]) :
              /\ Towards(from, v, 1) \in b.men[Opposite(s)]
              /\ Towards(from, v, 2) \in Vacant(b)}}

\* The positions after n jumps of a chain from a square, with the square the
\* piece has come to; a piece that has come to the last row stays there.
After(b, s, from) ==
  LET after[n \in 0..4] ==
        IF n = 0 THEN {<<b, from>>}
        ELSE UNION {Jumps(x[1], s, x[2]) :
                      x \in {y \in after[n - 1] : n = 1 \/ y[2][2] # LastRow(s)}}
  IN after

\* Where chains from a square end.
Chains(b, s, from) ==
  LET after == After(b, s, from)
      finished(x, n) == n = 4 \/ x[2][2] = LastRow(s) \/ Jumps(x[1], s, x[2]) = {}
  IN UNION {{x[1] : x \in {y \in after[n] : finished(y, n)}} : n \in 1..4}

Turns(b, s) ==
  LET chains == UNION {Chains(b, s, from) : from \in b.men[s]}
      steps  == UNION {{x[1] : x \in Steps(b, s, from)} : from \in b.men[s]}
  IN IF chains # {} THEN chains ELSE steps

Init ==
  /\ [men |-> men, kings |-> kings, toMove |-> toMove] \in Starts
  /\ winner = NoOne

Turn ==
  /\ winner = NoOne
  /\ \E b \in Turns([men |-> men, kings |-> kings], toMove) :
       /\ men' = b.men
       /\ kings' = b.kings
       /\ toMove' = Opposite(toMove)
       /\ winner' = IF Turns(b, toMove') = {} THEN toMove ELSE NoOne

Spec == Init /\ [][Turn]_rvars
==============================================================================
