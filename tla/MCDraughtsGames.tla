-------------------------- MODULE MCDraughtsGames --------------------------
(* DraughtsGames for model checking: game blocks are interchangeable, and so *)
(* are the players with the same setting of auto_private_game.              *)
EXTENDS DraughtsGames, TLC

Perms == Permutations(Game) \cup Permutations(Player \ AutoPrivate)
============================================================================
