------------------------------ MODULE MCTimerQ ------------------------------
(* The timer queue with two bases and a few nodes. *)
EXTENDS TimerQ, TLC
CONSTANTS b1, b2

TwoBases == {b1, b2}

\* A call back touches its own base only, every base, or none.
OwnReach == [b \in TwoBases |-> {b}]
AnyReach == [b \in TwoBases |-> TwoBases]
NoReach == [b \in TwoBases |-> {}]

NodePerms == Permutations(Node)
=============================================================================
