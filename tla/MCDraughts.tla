---------------------------- MODULE MCDraughts ----------------------------
(* Draughts for model checking: end games, and a chain of five. *)
EXTENDS Draughts, FiniteSetsExt

CONSTANTS Field,                      \* the squares end games start on
          Blacks, Whites, MaxKings    \* how many pieces, and kings of each side

\* The pieces of side s: <<squares, kings>>.  A man is not on the far row.
Armies(s, n) ==
  {a \in kSubset(n, Field) \X UNION {kSubset(k, Field) : k \in 0..MaxKings} :
     a[2] \subseteq a[1] /\ \A at \in a[1] \ a[2] : ~Crowns(s, at)}

EndGame(b, w) ==
  [men    |-> [s \in Side |-> IF s = "black" THEN b[1] ELSE w[1]],
   kings  |-> [s \in Side |-> IF s = "black" THEN b[2] ELSE w[2]],
   toMove |-> "black"]

\* A king that can take five in one chain, one more than a command may.
FiveToTake ==
  [men    |-> [s \in Side |-> IF s = "black" THEN {3} ELSE {7, 15, 16, 24, 25}],
   kings  |-> [s \in Side |-> IF s = "black" THEN {3} ELSE {}],
   toMove |-> "black"]

EndGames == {FiveToTake} \cup
  UNION {{EndGame(b, w) : w \in {a \in Armies("white", Whites) : a[1] \cap b[1] = {}}} :
           b \in Armies("black", Blacks)}
============
