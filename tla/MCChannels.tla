----------------------------- MODULE MCChannels -----------------------------
(* Small instances of Channels. *)
EXTENDS Channels

CONSTANTS ann, bob

\* Everybody may be on every channel; or bob on the last one only.
AllInterest == [p \in Player |-> Channel]
SomeInterest == [p \in Player |-> IF p = bob THEN Channel \ {1, 2} ELSE Channel]
=============================================================================
