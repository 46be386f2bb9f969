---------------------------- MODULE TimerService ----------------------------
(***************************************************************************)
(* What the timer queue promises its users, whatever lists and cached time *)
(* stamps it keeps: a node that was scheduled is called at most once per   *)
(* scheduling, never before its time, never after it was deleted, and      *)
(* after the nodes of its base that are due earlier.                       *)
(***************************************************************************)
EXTENDS Naturals

CONSTANTS Base, Node, MaxTime, NoBase, NoNode

VARIABLES
  home,    \* home[n]: the base n is scheduled on, or NoBase
  due,     \* due[n]: when n is to be called
  struck,  \* nodes that are deleted but still take up their place
  running, \* the node whose call back is running, or NoNode
  now

svars == <<home, due, struck, running, now>>

SInit ==
  /\ home = [n \in Node |-> NoBase]
  /\ due = [n \in Node |-> 0]
  /\ struck = {}
  /\ running = NoNode
  /\ now = 0

Schedule(n, b, t) ==
  /\ home[n] = NoBase
  /\ t > now
  /\ home' = [home EXCEPT ![n] = b]
  /\ due' = [due EXCEPT ![n] = t]
  /\ struck' = struck \ {n}
  /\ UNCHANGED <<running, now>>

\* Nodes are deleted, one by one or with their base.
Drop(S) ==
  /\ \A n \in S : home[n] # NoBase
  /\ home' = [n \in Node |-> IF n \in S THEN NoBase ELSE home[n]]
  /\ UNCHANGED <<due, struck, running, now>>

Strike(n) ==
  /\ home[n] # NoBase
  /\ struck' = struck \cup {n}
  /\ UNCHANGED <<home, due, running, now>>

Call(n) ==
  /\ running = NoNode /\ running' = n
  /\ home[n] # NoBase /\ n \notin struck
  /\ due[n] <= now
  /\ \A m \in Node \ struck : home[m] = home[n] => due[n] <= due[m]
  /\ home' = [home EXCEPT ![n] = NoBase]
  /\ UNCHANGED <<due, struck, now>>

Return ==
  /\ running # NoNode /\ running' = NoNode
  /\ UNCHANGED <<home, due, struck, now>>

\* Time stands still for a call back.
Advance ==
  /\ running = NoNode
  /\ now < MaxTime /\ now' = now + 1
  /\ UNCHANGED <<home, due, struck, running>>

SNext ==
  \/ \E n \in Node, b \in Base, t \in 0..MaxTime : Schedule(n, b, t)
  \/ \E S \in SUBSET Node : Drop(S)
  \/ \E n \in Node : Strike(n) \/ Call(n)
  \/ Return \/ Advance

ServiceSpec == SInit /\ [][SNext]_svars
=============================================================================
