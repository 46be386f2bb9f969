----------------------------- MODULE MCSession -----------------------------
(* Session for model checking: permutations of players and connections. *)
EXTENDS Session, TLC

Perms == Permutations(Player) \cup Permutations(Conn)
=============================================================================
