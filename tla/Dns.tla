-------------------------------- MODULE Dns --------------------------------
(***************************************************************************)
(* Host names: the talker (dns.c), the name server it starts               *)
(* (dnsserver/dns.c) and the children that call gethostbyaddr              *)
(* (dnsserver/dns_child.c), joined by pipes (child_com.c).                 *)
(*                                                                         *)
(* The talker writes an address for every connection it accepts.  The      *)
(* server takes one address at a time, starts a child for it in a free     *)
(* slot, and writes back the address with the name the child found, or     *)
(* with the address again when there is none.  The talker gives a name to  *)
(* every player with that address.  An address that has a slot already is  *)
(* dropped: the answer is for everybody.  Server and children may die at   *)
(* any time; the talker starts a new server for the next connection.       *)
(***************************************************************************)
EXTENDS Integers, FiniteSets, Sequences, SequencesExt

CONSTANTS
  Player,         \* connections of the talker
  Ip,             \* addresses
  IpOf,           \* p->ip_address
  Local,          \* 127.0.0.1, asked for at boot
  Slot,           \* requests[MAX_PARALLELISM]
  Hangs,          \* the addresses gethostbyaddr never returns for
  DnsTimeout,     \* MAX_DNS_TIMEOUT, in ticks
  ServerTimeout,  \* MAX_SERVER_TIMEOUT and DNS_SERVER_TIMEOUT, which are equal
  PipeSize,       \* lines in a pipe
  None

ASSUME IpAssumption ==
  Local \in Ip /\ IpOf \in [Player -> Ip] /\ Hangs \subseteq Ip /\ None \notin Ip
ASSUME SlotAssumption == IsFiniteSet(Slot)
ASSUME TimeAssumption ==
  DnsTimeout \in Nat /\ ServerTimeout \in Nat /\ DnsTimeout < ServerTimeout
ASSUME PipeAssumption == PipeSize \in Nat \ {0}

VARIABLES
  player,   \* what became of the request of each player
  server,   \* the talker has a dns_server
  alive,    \* its process runs
  reqs,     \* from the talker to the server
  reps,     \* from the server to the talker
  slot,     \* requests[].inet_address, None when there is no child
  child,    \* what the child of a slot has done
  going,    \* requests_going
  stamp     \* time stamps of each pipe, by the process that looks at them

vars == <<player, server, alive, reqs, reps, slot, child, going, stamp>>

\* For s_timestamp and r_timestamp of a child_com all that matters is how long
\* ago something was received, and whether something was sent in a later second.
Stamps == [age : 0..(ServerTimeout + 1), asked : BOOLEAN]
Fresh  == [age |-> 0, asked |-> FALSE]
Sent(w) == [w EXCEPT !.asked = w.age > 0]
Later(w) == [w EXCEPT !.age = IF w.age > ServerTimeout THEN @ ELSE @ + 1]
\* child_com_waiting_input
WaitingInput(w, seconds) == w.asked /\ w.age > seconds

Ends == {"talker", "server"} \cup Slot

TypeOK ==
  /\ player \in [Player -> {"away", "waiting", "resolved", "unknown", "lost"}]
  /\ server \in BOOLEAN /\ alive \in BOOLEAN
  /\ reqs \in Seq(Ip) /\ Len(reqs) <= PipeSize
  /\ reps \in Seq(Ip \X {"name", "none"})
  /\ slot \in [Slot -> Ip \cup {None}]
  /\ child \in [Slot -> {"none", "asked", "name", "gone"}]
  /\ going \in Nat
  /\ stamp \in [Ends -> Stamps]

\* The server is gone, and with it its children and what is in the pipes.
NoServer ==
  /\ alive' = FALSE
  /\ reqs' = <<>>
  /\ reps' = <<>>
  /\ slot' = [s \in Slot |-> None]
  /\ child' = [s \in Slot |-> "none"]
  /\ going' = 0
  /\ stamp' = [e \in Ends |-> Fresh]

\* init_dns
Init ==
  /\ player = [p \in Player |-> "away"]
  /\ server = TRUE /\ alive = TRUE
  /\ reqs = <<Local>> /\ reps = <<>>
  /\ slot = [s \in Slot |-> None]
  /\ child = [s \in Slot |-> "none"]
  /\ going = 0
  /\ stamp = [e \in Ends |-> Fresh]

Used == {s \in Slot : slot[s] # None}
Pending(rq, sl, rp) ==
  ToSet(rq) \cup {sl[s] : s \in Slot} \cup {rp[k][1] : k \in DOMAIN rp}

\* Everybody who waits for the server that is no more.
Lose(ps) == [q \in Player |->
  IF q \in ps \/ player[q] = "waiting" THEN "lost" ELSE player[q]]

-----------------------------------------------------------------------------
(* The talker *)

\* dns_add, called by socket_accept_connection.  A server is started if there
\* is none.  When the write fails the server is deleted, and the second try
\* does nothing, since it may not start another one.
Add(p) ==
  /\ player[p] = "away"
  /\ Len(reqs) < PipeSize
  /\ IF server /\ ~alive
     THEN /\ player' = Lose({p})
          /\ server' = FALSE
          /\ NoServer
     ELSE \/ /\ player' = [player EXCEPT ![p] = "waiting"]
             /\ server' = TRUE /\ alive' = TRUE
             /\ reqs' = Append(reqs, IpOf[p])
             /\ stamp' = [stamp EXCEPT !["talker"] = Sent(@)]
             /\ UNCHANGED <<reps, slot, child, going>>
          \/ /\ ~server                                 \* child_com_create fails
             /\ player' = [player EXCEPT ![p] = "lost"]
             /\ UNCHANGED <<server, alive, reqs, reps, slot, child, going, stamp>>

\* dns_resolve, called once a round of the main loop, reads an answer.
Resolve ==
  /\ server /\ alive /\ reps # <<>>
  /\ LET i == Head(reps)[1]  found == Head(reps)[2] = "name" IN
     player' = [q \in Player |->
       IF player[q] = "away" \/ IpOf[q] # i THEN player[q]
       ELSE IF found THEN "resolved"
       ELSE IF player[q] = "waiting" THEN "unknown" ELSE player[q]]
  /\ reps' = Tail(reps)
  /\ stamp' = [stamp EXCEPT !["talker"] = Fresh]
  /\ UNCHANGED <<server, alive, reqs, slot, child, going>>

\* ... finds that the server has gone, or that it waits too long.
GiveUp ==
  /\ server
  /\ alive => reps = <<>> /\ WaitingInput(stamp["talker"], ServerTimeout)
  /\ player' = Lose({})
  /\ server' = FALSE
  /\ NoServer

\* player_destroy
Leave(p) ==
  /\ player[p] # "away"
  /\ player' = [player EXCEPT ![p] = "away"]
  /\ UNCHANGED <<server, alive, reqs, reps, slot, child, going, stamp>>

-----------------------------------------------------------------------------
(* The server *)

\* (A version of FreeSlots that does not look for the address.)
FreeSlots_mutant(i) == Slot \ Used
FreeSlots(i) == IF \E s \in Slot : slot[s] = i THEN {} ELSE Slot \ Used

\* (A version of TakesIn that does not ask for a free slot.)
TakesIn_mutant == alive /\ reqs # <<>> /\ reqs' = Tail(reqs)

\* deal_with_main takes an address, if it may start another child.
TakesIn ==
  /\ alive /\ reqs # <<>> /\ going < Cardinality(Slot)
  /\ reqs' = Tail(reqs)
Take ==
  /\ TakesIn
  /\ LET i == Head(reqs) IN
     IF FreeSlots(i) = {}
     THEN /\ stamp' = [stamp EXCEPT !["server"] = Fresh]
          /\ UNCHANGED <<slot, child, going>>
     ELSE LET s == CHOOSE f \in FreeSlots(i) : TRUE IN
          /\ slot' = [slot EXCEPT ![s] = i]
          /\ child' = [child EXCEPT ![s] = "asked"]
          /\ going' = going + 1
          /\ stamp' = [stamp EXCEPT !["server"] = Fresh, ![s] = Sent(Fresh)]
  /\ UNCHANGED <<player, server, alive, reps>>

\* The child is gone before the address is written to it: the address is
\* forgotten and no answer is sent.
TakeFails ==
  /\ TakesIn
  /\ FreeSlots(Head(reqs)) # {}
  /\ player' = [q \in Player |->
       IF player[q] = "waiting" /\ IpOf[q] = Head(reqs) THEN "lost" ELSE player[q]]
  /\ stamp' = [stamp EXCEPT !["server"] = Fresh]
  /\ UNCHANGED <<server, alive, reps, slot, child, going>>

\* (A version of Done that does not see that a child has gone.)
Done_mutant(s) == child[s] = "name" \/ WaitingInput(stamp[s], DnsTimeout)

\* deal_with_requests: the child of s has answered, is gone, or is given up.
Done(s) == child[s] \in {"name", "gone"} \/ WaitingInput(stamp[s], DnsTimeout)
Serve(s) ==
  /\ slot[s] # None /\ Done(s)
  /\ Len(reps) < PipeSize
  /\ reps' = Append(reps, <<slot[s], IF child[s] = "name" THEN "name" ELSE "none">>)
  /\ slot' = [slot EXCEPT ![s] = None]
  /\ child' = [child EXCEPT ![s] = "none"]
  /\ going' = going - 1
  /\ stamp' = [stamp EXCEPT !["server"] = Sent(@), ![s] = Fresh]
  /\ UNCHANGED <<player, server, alive, reqs>>

\* The main loop leaves after MAX_SERVER_TIMEOUT without anything to do; it does
\* not look at the slots.
Idle ==
  /\ alive /\ reqs = <<>> /\ WaitingInput(stamp["server"], ServerTimeout)
  /\ NoServer
  /\ UNCHANGED <<player, server>>
Crash ==
  /\ alive
  /\ NoServer
  /\ UNCHANGED <<player, server>>

-----------------------------------------------------------------------------
(* The children, and time *)

\* gethostbyaddr returns; without a name the child writes the address.
ChildAnswers(s) ==
  /\ child[s] = "asked" /\ slot[s] \notin Hangs
  /\ child' = [child EXCEPT ![s] = "name"]
  /\ UNCHANGED <<player, server, alive, reqs, reps, slot, going, stamp>>
\* It exits two seconds after it answered, read or not, or dies.
ChildGoes(s) ==
  /\ child[s] \in {"asked", "name"}
  /\ child' = [child EXCEPT ![s] = "gone"]
  /\ UNCHANGED <<player, server, alive, reqs, reps, slot, going, stamp>>

\* Nothing more is sent to a child, so that its age matters once it was asked.
Tick ==
  /\ stamp' = [e \in Ends |->
       IF e \in Slot /\ ~stamp[e].asked THEN stamp[e] ELSE Later(stamp[e])]
  /\ UNCHANGED <<player, server, alive, reqs, reps, slot, child, going>>

Next ==
  \/ \E p \in Player : Add(p) \/ Leave(p)
  \/ Resolve \/ GiveUp
  \/ Take \/ TakeFails \/ Idle \/ Crash
  \/ \E s \in Slot : Serve(s) \/ ChildAnswers(s) \/ ChildGoes(s)
  \/ Tick

Spec == Init /\ [][Next]_vars

\* The main loops of the talker and of the server go round, and each round of
\* the server comes to every slot, waiting for room in the pipe if it must;
\* gethostbyaddr returns, except where it hangs.
Fairness ==
  /\ WF_vars(Resolve) /\ WF_vars(GiveUp) /\ WF_vars(Take)
  /\ \A s \in Slot : SF_vars(Serve(s)) /\ WF_vars(ChildAnswers(s))
FairSpec == Spec /\ Fairness

-----------------------------------------------------------------------------
(* Properties *)

\* requests_going is the number of slots with a child (the server stops taking
\* addresses when it is MAX_PARALLELISM), and no address has two children.
SlotsCounted ==
  /\ going = Cardinality(Used)
  /\ \A s, t \in Used : slot[s] = slot[t] => s = t

\* No request is forgotten: while a player waits, there is a server and its
\* address is on the way there, with a child, or on the way back, although an
\* address that comes in twice has one child and one answer.
WaitingIsPending ==
  \A p \in Player : player[p] = "waiting" =>
    server /\ (alive => IpOf[p] \in Pending(reqs, slot, reps))

\* A request comes to an end: a name, no name, or the server is lost.
WaitingEnds == \A p \in Player : player[p] = "waiting" ~> player[p] # "waiting"
=============================================================================
