------------------------------- MODULE MCDns -------------------------------
(* Dns for model checking: two players, two addresses and that of the boot. *)
EXTENDS Dns

CONSTANTS ann, bob, x, y, z

Addresses == (ann :> x) @@ (bob :> y)
=============================================================================
