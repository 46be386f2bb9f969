------------------------------ MODULE Presence ------------------------------
(***************************************************************************)
(* What logging on and off promises to the people at the other end of the  *)
(* wire.  A connection waits in the lobby until it serves one character.   *)
(* A character that is present is served by one connection: somebody who   *)
(* logs on again takes the character over, without it leaving the program, *)
(* and the connection it was served by is closed.                          *)
(***************************************************************************)
CONSTANTS Conn, Name

VARIABLES
  conn,     \* conn[c]: "free", "lobby" or the character c serves
  present   \* the characters on the program

vars == <<conn, present>>

Init == conn = [c \in Conn |-> "free"] /\ present = {}

Connect(c) ==
  /\ conn[c] = "free"
  /\ conn' = [conn EXCEPT ![c] = "lobby"]
  /\ UNCHANGED present

Drop(c) ==
  /\ conn[c] = "lobby"
  /\ conn' = [conn EXCEPT ![c] = "free"]
  /\ UNCHANGED present

Sit(c, n) ==
  /\ conn[c] = "lobby" /\ n \notin present
  /\ conn' = [conn EXCEPT ![c] = n]
  /\ present' = present \cup {n}

TakeOver(c, n) ==
  /\ conn[c] = "lobby" /\ n \in present
  /\ conn' = [d \in Conn |-> IF d = c THEN n
                             ELSE IF conn[d] = n THEN "free" ELSE conn[d]]
  /\ UNCHANGED present

Depart(n) ==
  /\ n \in present
  /\ present' = present \ {n}
  /\ conn' = [d \in Conn |-> IF conn[d] = n THEN "free" ELSE conn[d]]

Next ==
  \/ \E c \in Conn : Connect(c) \/ Drop(c)
  \/ \E c \in Conn, n \in Name : Sit(c, n) \/ TakeOver(c, n)
  \/ \E n \in Name : Depart(n)

Spec == Init /\ [][Next]_vars
=============================================================================
