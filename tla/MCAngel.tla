------------------------------ MODULE MCAngel ------------------------------
(* Angel for model checking. *)
EXTENDS Angel
=============================================================================
