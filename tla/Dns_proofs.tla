----------------------------- MODULE Dns_proofs -----------------------------
(***************************************************************************)
(* Theorems about the name server: for every number of players, addresses  *)
(* and slots, the slots are counted and no request is forgotten.           *)
(***************************************************************************)
EXTENDS Dns, FiniteSetTheorems, TLAPS

-----------------------------------------------------------------------------
(* What is on its way *)

\* A line that is written is in the pipe, and so is what was there before.
LEMMA AppendFacts ==
  ASSUME NEW S, NEW w \in Seq(S), NEW e \in S
  PROVE  /\ Append(w, e) \in Seq(S)
         /\ DOMAIN Append(w, e) = 1..(Len(w) + 1)
         /\ DOMAIN w = 1..Len(w)
         /\ Append(w, e)[Len(w) + 1] = e
         /\ \A k \in 1..Len(w) : Append(w, e)[k] = w[k]
  OBVIOUS

\* When a line is read, the others are still there.
LEMMA TailFacts ==
  ASSUME NEW S, NEW w \in Seq(S), w # <<>>
  PROVE  /\ Tail(w) \in Seq(S) /\ Head(w) = w[1] /\ Head(w) \in S
         /\ DOMAIN w = 1..Len(w) /\ DOMAIN Tail(w) = 1..(Len(w) - 1)
         /\ \A k \in 1..Len(w) : k # 1 => k - 1 \in 1..(Len(w) - 1) /\ Tail(w)[k - 1] = w[k]
  OBVIOUS

Lines == Ip \X {"name", "none"}

\* An address is on its way in three cases.
LEMMA PendingCases ==
  ASSUME NEW rq, NEW sl, NEW rp, NEW i
  PROVE  i \in Pending(rq, sl, rp) <=>
           \/ \E k \in DOMAIN rq : rq[k] = i
           \/ \E s \in Slot : sl[s] = i
           \/ \E k \in DOMAIN rp : rp[k][1] = i
  BY DEF Pending, ToSet

\* Writing an address to the server.
LEMMA PendingAdd ==
  ASSUME NEW rq \in Seq(Ip), NEW sl, NEW rp, NEW e \in Ip
  PROVE  Pending(Append(rq, e), sl, rp) = Pending(rq, sl, rp) \cup {e}
<1>1. ToSet(Append(rq, e)) = ToSet(rq) \cup {e}
  BY AppendFacts DEF ToSet
<1> QED BY <1>1 DEF Pending

\* Reading one from the pipe to the server.
LEMMA PendingTake ==
  ASSUME NEW rq \in Seq(Ip), NEW sl, NEW rp, rq # <<>>
  PROVE  Pending(rq, sl, rp) \subseteq Pending(Tail(rq), sl, rp) \cup {Head(rq)}
<1>1. ToSet(rq) \subseteq ToSet(Tail(rq)) \cup {Head(rq)}
  <2> SUFFICES ASSUME NEW k \in DOMAIN rq, k # 1 PROVE rq[k] \in ToSet(Tail(rq))
    BY TailFacts DEF ToSet
  <2>1. k - 1 \in DOMAIN Tail(rq) /\ Tail(rq)[k - 1] = rq[k]
    BY TailFacts
  <2> QED BY <2>1 DEF ToSet
<1> QED BY <1>1 DEF Pending

\* Reading an answer.
LEMMA PendingResolve ==
  ASSUME NEW rq, NEW sl, NEW rp \in Seq(Lines), rp # <<>>
  PROVE  Pending(rq, sl, rp) \subseteq Pending(rq, sl, Tail(rp)) \cup {Head(rp)[1]}
<1>1. {rp[k][1] : k \in DOMAIN rp}
        \subseteq {Tail(rp)[k][1] : k \in DOMAIN Tail(rp)} \cup {Head(rp)[1]}
  <2> SUFFICES ASSUME NEW k \in DOMAIN rp, k # 1
               PROVE  rp[k][1] \in {Tail(rp)[j][1] : j \in DOMAIN Tail(rp)}
    BY TailFacts
  <2>1. k - 1 \in DOMAIN Tail(rp) /\ Tail(rp)[k - 1] = rp[k]
    BY TailFacts
  <2> QED BY <2>1
<1> QED BY <1>1 DEF Pending

\* Writing the answer for a slot.
LEMMA PendingServe ==
  ASSUME NEW rq, NEW sl \in [Slot -> Ip \cup {None}], NEW rp \in Seq(Lines),
         NEW s \in Slot, sl[s] # None, NEW a \in {"name", "none"}
  PROVE  Pending(rq, sl, rp) \subseteq
           Pending(rq, [sl EXCEPT ![s] = None], Append(rp, <<sl[s], a>>)) \cup {None}
<1> DEFINE sl2 == [sl EXCEPT ![s] = None]
           rp2 == Append(rp, <<sl[s], a>>)
<1>0. sl[s] \in Ip /\ <<sl[s], a>> \in Lines
  BY DEF Lines
<1>1. {rp[k][1] : k \in DOMAIN rp} \cup {sl[s]} \subseteq {rp2[k][1] : k \in DOMAIN rp2}
  BY <1>0, AppendFacts
<1>2. {sl[t] : t \in Slot} \subseteq {sl2[t] : t \in Slot} \cup {sl[s]}
  <2> SUFFICES ASSUME NEW t \in Slot, t # s PROVE sl[t] \in {sl2[u] : u \in Slot}
    OBVIOUS
  <2>1. sl2[t] = sl[t]
    OBVIOUS
  <2> QED BY <2>1
<1> QED BY <1>1, <1>2 DEF Pending

-----------------------------------------------------------------------------
(***************************************************************************)
(* The invariant.  WaitingIsPending rests on SlotsCounted: an address is   *)
(* only taken from the pipe when going is less than the number of slots,   *)
(* and then there is a free slot for it, unless it has one.                *)
(***************************************************************************)
Fates == {"away", "waiting", "resolved", "unknown", "lost"}
Shape ==
  /\ player \in [Player -> Fates]
  /\ reqs \in Seq(Ip) /\ reps \in Seq(Lines)
  /\ slot \in [Slot -> Ip \cup {None}]
Inv == Shape /\ SlotsCounted /\ WaitingIsPending

\* At boot one address is on its way and nobody waits.
LEMMA InitInv == ASSUME Init PROVE Inv
<1>1. Shape
  BY IpAssumption DEF Init, Shape, Fates
<1>2. Used = {}
  BY DEF Init, Used
<1>3. SlotsCounted
  BY <1>2, FS_EmptySet DEF Init, SlotsCounted
<1>4. WaitingIsPending
  BY DEF Init, WaitingIsPending
<1> QED BY <1>1, <1>3, <1>4 DEF Inv

\* Without a server the slots are free and the pipes empty.
LEMMA NoServerFacts ==
  ASSUME NoServer
  PROVE  /\ reqs' \in Seq(Ip) /\ reps' \in Seq(Lines)
         /\ slot' \in [Slot -> Ip \cup {None}]
         /\ SlotsCounted'
<1>1. Used' = {}
  BY DEF NoServer, Used
<1>2. SlotsCounted'
  BY <1>1, FS_EmptySet DEF NoServer, SlotsCounted
<1> QED BY <1>2 DEF NoServer

\* When the slots and their count stay as they are.
LEMMA SameSlots ==
  ASSUME SlotsCounted, UNCHANGED <<slot, going>> PROVE SlotsCounted'
  BY DEF SlotsCounted, Used

\* Nobody waits for a server that is lost.
LEMMA LoseFacts ==
  ASSUME Shape, NEW ps
  PROVE  /\ Lose(ps) \in [Player -> Fates]
         /\ \A p \in Player : Lose(ps)[p] # "waiting"
  BY DEF Lose, Shape, Fates

LEMMA AddInv ==
  ASSUME Inv, NEW p \in Player, Add(p) PROVE Inv'
<1>1. CASE server /\ ~alive
  <2>1. player' = Lose({p}) /\ NoServer
    BY <1>1 DEF Add
  <2>2. Shape' /\ SlotsCounted'
    BY <2>1, NoServerFacts, LoseFacts DEF Inv, Shape
  <2>3. WaitingIsPending'
    BY <2>1, LoseFacts DEF Inv, WaitingIsPending
  <2> QED BY <2>2, <2>3 DEF Inv
<1>2. CASE ~(server /\ ~alive)
  <2>1. CASE UNCHANGED reqs
    <3>1. /\ player' = [player EXCEPT ![p] = "lost"]
          /\ UNCHANGED <<server, alive, reqs, reps, slot, going>>
      <4>1. reqs # Append(reqs, IpOf[p])
        BY IpAssumption, AppendFacts DEF Inv, Shape
      <4> QED BY <1>2, <2>1, <4>1 DEF Add
    <3>2. Shape'
      BY <3>1 DEF Inv, Shape, Fates
    <3>3. ASSUME NEW q \in Player, player'[q] = "waiting" PROVE player[q] = "waiting"
      BY <3>1, <3>3 DEF Inv, Shape
    <3>4. WaitingIsPending'
      BY <3>1, <3>3 DEF Inv, WaitingIsPending, Pending
    <3> QED BY <3>1, <3>2, <3>4, SameSlots DEF Inv
  <2>2. CASE ~UNCHANGED reqs
    <3>1. /\ player' = [player EXCEPT ![p] = "waiting"]
          /\ server'
          /\ reqs' = Append(reqs, IpOf[p])
          /\ UNCHANGED <<reps, slot, going>>
      BY <1>2, <2>2 DEF Add
    <3>2. IpOf[p] \in Ip
      BY IpAssumption
    <3>3. Shape'
      BY <3>1, <3>2, AppendFacts DEF Inv, Shape, Fates
    <3>4. Pending(reqs', slot', reps') = Pending(reqs, slot, reps) \cup {IpOf[p]}
      BY <3>1, <3>2, PendingAdd DEF Inv, Shape
    <3>5. ASSUME NEW q \in Player, player'[q] = "waiting"
          PROVE  IpOf[q] \in Pending(reqs', slot', reps')
      <4>1. CASE q = p
        BY <3>4, <4>1
      <4>2. CASE q # p
        <5>1. player[q] = "waiting"
          BY <3>1, <3>5, <4>2 DEF Inv, Shape
        <5>2. server /\ alive
          BY <5>1, <1>2 DEF Inv, WaitingIsPending
        <5>3. IpOf[q] \in Pending(reqs, slot, reps)
          BY <5>1, <5>2 DEF Inv, WaitingIsPending
        <5> QED BY <3>4, <5>3
      <4> QED BY <4>1, <4>2
    <3>6. WaitingIsPending'
      BY <3>1, <3>5 DEF WaitingIsPending
    <3> QED BY <3>1, <3>3, <3>6, SameSlots DEF Inv
  <2> QED BY <2>1, <2>2
<1> QED BY <1>1, <1>2

LEMMA ResolveInv == ASSUME Inv, Resolve PROVE Inv'
<1> DEFINE i == Head(reps)[1]
<1>1. /\ server /\ alive /\ reps # <<>> /\ reps' = Tail(reps)
      /\ UNCHANGED <<server, alive, reqs, slot, going>>
  BY DEF Resolve
<1>2. /\ reps \in Seq(Lines)
      /\ player \in [Player -> Fates]
  BY DEF Inv, Shape
<1>3. player' \in [Player -> Fates]
  BY <1>2 DEF Resolve, Fates
<1>4. Shape'
  BY <1>1, <1>2, <1>3, TailFacts DEF Inv, Shape
<1>5. ASSUME NEW q \in Player, player'[q] = "waiting"
      PROVE  IpOf[q] \in Pending(reqs', slot', reps')
  <2>1. player[q] = "waiting" /\ IpOf[q] # i
    BY <1>5 DEF Resolve
  <2>2. IpOf[q] \in Pending(reqs, slot, reps)
    BY <1>1, <2>1 DEF Inv, WaitingIsPending
  <2>3. Pending(reqs, slot, reps) \subseteq Pending(reqs, slot, Tail(reps)) \cup {i}
    BY <1>1, <1>2, PendingResolve
  <2> QED BY <1>1, <2>1, <2>2, <2>3
<1>6. WaitingIsPending'
  BY <1>1, <1>5 DEF WaitingIsPending
<1> QED BY <1>1, <1>4, <1>6, SameSlots DEF Inv

LEMMA GiveUpInv == ASSUME Inv, GiveUp PROVE Inv'
<1>1. player' = Lose({}) /\ NoServer
  BY DEF GiveUp
<1>2. Shape' /\ SlotsCounted'
  BY <1>1, NoServerFacts, LoseFacts DEF Inv, Shape
<1>3. WaitingIsPending'
  BY <1>1, LoseFacts DEF Inv, WaitingIsPending
<1> QED BY <1>2, <1>3 DEF Inv

LEMMA GoneInv == ASSUME Inv, Idle \/ Crash PROVE Inv'
<1>1. NoServer /\ UNCHANGED <<player, server>>
  BY DEF Idle, Crash
<1>2. Shape' /\ SlotsCounted'
  BY <1>1, NoServerFacts DEF Inv, Shape
<1>3. ~alive'
  BY <1>1 DEF NoServer
<1>4. WaitingIsPending'
  BY <1>1, <1>3 DEF Inv, WaitingIsPending
<1> QED BY <1>2, <1>4 DEF Inv

\* Steps that leave the pipes and slots alone, and make nobody wait.
LEMMA QuietInv ==
  ASSUME Inv, UNCHANGED <<server, alive, reqs, reps, slot, going>>,
         player' \in [Player -> Fates],
         \A q \in Player : player'[q] = "waiting" => player[q] = "waiting"
  PROVE  Inv'
<1>1. Shape'
  BY DEF Inv, Shape
<1>2. WaitingIsPending'
  BY DEF Inv, WaitingIsPending, Pending
<1> QED BY <1>1, <1>2, SameSlots DEF Inv

\* While going is less than the number of slots, one of them is free.
LEMMA FreeSlot ==
  ASSUME SlotsCounted, going < Cardinality(Slot) PROVE Slot \ Used # {}
<1> SUFFICES ASSUME Slot \ Used = {} PROVE FALSE
  OBVIOUS
<1>1. Used = Slot
  BY DEF Used
<1>2. going = Cardinality(Slot) /\ Cardinality(Slot) \in Nat
  BY <1>1, SlotAssumption, FS_CardinalityType DEF SlotsCounted
<1> QED BY <1>2

LEMMA TakeInv == ASSUME Inv, Take PROVE Inv'
<1> DEFINE i == Head(reqs)
<1>1. /\ alive /\ reqs # <<>> /\ going < Cardinality(Slot) /\ reqs' = Tail(reqs)
      /\ UNCHANGED <<player, server, alive, reps>>
  BY DEF Take, TakesIn
<1>2. /\ reqs \in Seq(Ip) /\ slot \in [Slot -> Ip \cup {None}]
      /\ SlotsCounted
  BY DEF Inv, Shape
<1>3. i \in Ip /\ i # None /\ Tail(reqs) \in Seq(Ip)
  BY <1>1, <1>2, TailFacts, IpAssumption
<1>4. Pending(reqs, slot, reps) \subseteq Pending(Tail(reqs), slot, reps) \cup {i}
  BY <1>1, <1>2, PendingTake
<1>5. CASE FreeSlots(i) = {}
  <2>1. UNCHANGED <<slot, going>>
    BY <1>5 DEF Take
  <2>2. \E s \in Slot : slot[s] = i
    BY <1>1, <1>2, <1>5, FreeSlot DEF FreeSlots
  <2>3. i \in Pending(Tail(reqs), slot, reps)
    BY <2>2, PendingCases
  <2>4. WaitingIsPending'
    BY <1>1, <1>4, <2>1, <2>3 DEF Inv, WaitingIsPending
  <2>5. Shape'
    BY <1>1, <1>3, <2>1 DEF Inv, Shape
  <2> QED BY <1>2, <2>1, <2>4, <2>5, SameSlots DEF Inv
<1>6. CASE FreeSlots(i) # {}
  <2>1. PICK s \in FreeSlots(i) : slot' = [slot EXCEPT ![s] = i] /\ going' = going + 1
    <3> DEFINE f == CHOOSE f \in FreeSlots(i) : TRUE
    <3>1. f \in FreeSlots(i)
      BY <1>6
    <3>2. slot' = [slot EXCEPT ![f] = i] /\ going' = going + 1
      BY <1>6 DEF Take
    <3> QED BY <3>1, <3>2
  <2>2. s \in Slot /\ slot[s] = None /\ \A t \in Slot : slot[t] # i
    BY <2>1 DEF FreeSlots, Used
  <2>3. Used' = Used \cup {s} /\ s \notin Used
    BY <1>2, <1>3, <2>1, <2>2 DEF Used
  <2>4. going' = Cardinality(Used')
    <3>1. IsFiniteSet(Used)
      BY SlotAssumption, FS_Subset DEF Used
    <3> QED BY <1>2, <2>1, <2>3, <3>1, FS_AddElement DEF SlotsCounted
  <2>5. SlotsCounted'
    BY <1>2, <2>1, <2>2, <2>3, <2>4 DEF SlotsCounted, Used
  <2>6. Shape'
    BY <1>1, <1>2, <1>3, <2>1, <2>2 DEF Inv, Shape
  <2>7. Pending(Tail(reqs), slot, reps) \subseteq Pending(reqs', slot', reps') \cup {None}
    <3>1. ASSUME NEW t \in Slot PROVE slot[t] \in {slot'[u] : u \in Slot} \cup {None}
      BY <1>2, <2>1, <2>2
    <3>2. reqs' = Tail(reqs) /\ reps' = reps
      BY <1>1
    <3> QED BY <3>1, <3>2 DEF Pending
  <2>8. i \in Pending(reqs', slot', reps')
    <3>1. slot'[s] = i
      BY <1>2, <2>1, <2>2
    <3> QED BY <2>2, <3>1 DEF Pending
  <2>9. ASSUME NEW q \in Player, player'[q] = "waiting"
        PROVE  server' /\ IpOf[q] \in Pending(reqs', slot', reps')
    <3>1. server /\ IpOf[q] \in Pending(reqs, slot, reps)
      BY <1>1, <2>9 DEF Inv, WaitingIsPending
    <3>2. IpOf[q] # None
      BY IpAssumption
    <3> QED BY <1>1, <1>4, <2>7, <2>8, <3>1, <3>2
  <2>10. WaitingIsPending'
    BY <2>9 DEF WaitingIsPending
  <2> QED BY <2>5, <2>6, <2>10 DEF Inv
<1> QED BY <1>5, <1>6

LEMMA TakeFailsInv == ASSUME Inv, TakeFails PROVE Inv'
<1> DEFINE i == Head(reqs)
<1>1. /\ alive /\ reqs # <<>> /\ reqs' = Tail(reqs)
      /\ UNCHANGED <<server, alive, reps, slot, going>>
  BY DEF TakeFails, TakesIn
<1>2. reqs \in Seq(Ip) /\ player \in [Player -> Fates]
  BY DEF Inv, Shape
<1>3. player' \in [Player -> Fates]
  BY <1>2 DEF TakeFails, Fates
<1>4. Shape'
  BY <1>1, <1>2, <1>3, TailFacts DEF Inv, Shape
<1>5. ASSUME NEW q \in Player, player'[q] = "waiting"
      PROVE  server' /\ IpOf[q] \in Pending(reqs', slot', reps')
  <2>1. player[q] = "waiting" /\ IpOf[q] # i
    BY <1>5 DEF TakeFails
  <2>2. server /\ IpOf[q] \in Pending(reqs, slot, reps)
    BY <1>1, <2>1 DEF Inv, WaitingIsPending
  <2>3. Pending(reqs, slot, reps) \subseteq Pending(Tail(reqs), slot, reps) \cup {i}
    BY <1>1, <1>2, PendingTake
  <2> QED BY <1>1, <2>1, <2>2, <2>3
<1>6. WaitingIsPending'
  BY <1>5 DEF WaitingIsPending
<1> QED BY <1>1, <1>4, <1>6, SameSlots DEF Inv

LEMMA ServeInv == ASSUME Inv, NEW s \in Slot, Serve(s) PROVE Inv'
<1>1. PICK a \in {"name", "none"} :
        /\ slot[s] # None
        /\ reps' = Append(reps, <<slot[s], a>>)
        /\ slot' = [slot EXCEPT ![s] = None]
        /\ going' = going - 1
        /\ UNCHANGED <<player, server, alive, reqs>>
  BY DEF Serve
<1>2. slot \in [Slot -> Ip \cup {None}] /\ reps \in Seq(Lines) /\ SlotsCounted
  BY DEF Inv, Shape
<1>3. <<slot[s], a>> \in Lines
  BY <1>1, <1>2 DEF Lines
<1>4. Shape'
  BY <1>1, <1>2, <1>3, AppendFacts DEF Inv, Shape
<1>5. Used' = Used \ {s} /\ s \in Used
  BY <1>1, <1>2 DEF Used
<1>6. going' = Cardinality(Used')
  <2>1. IsFiniteSet(Used)
    BY SlotAssumption, FS_Subset DEF Used
  <2> QED BY <1>1, <1>2, <1>5, <2>1, FS_RemoveElement DEF SlotsCounted
<1>7. SlotsCounted'
  BY <1>1, <1>2, <1>5, <1>6 DEF SlotsCounted, Used
<1>8. Pending(reqs, slot, reps) \subseteq Pending(reqs', slot', reps') \cup {None}
  BY <1>1, <1>2, PendingServe
<1>9. WaitingIsPending'
  <2> SUFFICES ASSUME NEW q \in Player, player'[q] = "waiting", alive'
               PROVE  server' /\ IpOf[q] \in Pending(reqs', slot', reps')
    BY <1>1 DEF Inv, WaitingIsPending
  <2>1. server /\ IpOf[q] \in Pending(reqs, slot, reps)
    BY <1>1 DEF Inv, WaitingIsPending
  <2>2. IpOf[q] # None
    BY IpAssumption
  <2> QED BY <1>1, <1>8, <2>1, <2>2
<1> QED BY <1>4, <1>7, <1>9 DEF Inv

\* Every step keeps the invariant.
LEMMA NextInv == ASSUME Inv, [Next]_vars PROVE Inv'
<1>0. player \in [Player -> Fates]
  BY DEF Inv, Shape
<1>1. ASSUME NEW p \in Player, Leave(p) PROVE Inv'
  <2>1. /\ player' = [player EXCEPT ![p] = "away"]
        /\ UNCHANGED <<server, alive, reqs, reps, slot, going>>
    BY <1>1 DEF Leave
  <2>2. player' \in [Player -> Fates]
    BY <1>0, <2>1 DEF Fates
  <2>3. \A q \in Player : player'[q] = "waiting" => player[q] = "waiting"
    BY <1>0, <2>1
  <2> QED BY <2>1, <2>2, <2>3, QuietInv
<1>2. ASSUME UNCHANGED <<player, server, alive, reqs, reps, slot, going>> PROVE Inv'
  BY <1>0, <1>2, QuietInv
<1>3. ASSUME NEW s \in Slot, ChildAnswers(s) \/ ChildGoes(s) PROVE Inv'
  BY <1>2, <1>3 DEF ChildAnswers, ChildGoes
<1>4. ASSUME Tick \/ UNCHANGED vars PROVE Inv'
  BY <1>2, <1>4 DEF Tick, vars
<1> QED BY <1>1, <1>3, <1>4, AddInv, ResolveInv, GiveUpInv, GoneInv, TakeInv,
           TakeFailsInv, ServeInv DEF Next

LEMMA Invariance == Spec => []Inv
<1>1. Init => Inv
  BY InitInv
<1>2. Inv /\ [Next]_vars => Inv'
  BY NextInv
<1> QED BY <1>1, <1>2, PTL DEF Spec

\* requests_going is the number of children, and no address has two
\* (deal_with_main, deal_with_requests), whatever the number of slots.
THEOREM SlotsAreCounted == Spec => []SlotsCounted
<1>1. Inv => SlotsCounted
  BY DEF Inv
<1> QED BY <1>1, Invariance, PTL

\* A player who waits has its address on the way (dns_add, find_slot,
\* dns_resolve), whatever the number of players, addresses and slots.
THEOREM NobodyIsForgotten == Spec => []WaitingIsPending
<1>1. Inv => WaitingIsPending
  BY DEF Inv
<1> QED BY <1>1, Invariance, PTL
-----------------------------------------------------------------------------
(* The types of the rest *)

\* What the counts do not depend on.
Rest ==
  /\ server \in BOOLEAN /\ alive \in BOOLEAN
  /\ Len(reqs) <= PipeSize
  /\ child \in [Slot -> {"none", "asked", "name", "gone"}]
  /\ stamp \in [Ends -> Stamps]

\* Time stamps stay in their bounds.
LEMMA StampTypes ==
  /\ Fresh \in Stamps
  /\ \A w \in Stamps : Sent(w) \in Stamps /\ Later(w) \in Stamps
<1>1. Fresh \in Stamps
  BY TimeAssumption DEF Fresh, Stamps
<1>2. ASSUME NEW w \in Stamps PROVE Sent(w) \in Stamps
  <2> DEFINE b == w.age > 0
  <2>1. b \in BOOLEAN /\ Sent(w) = [w EXCEPT !.asked = b]
    BY DEF Sent
  <2> HIDE DEF b
  <2> QED BY <2>1 DEF Stamps
<1>3. ASSUME NEW w \in Stamps PROVE Later(w) \in Stamps
  BY TimeAssumption DEF Later, Stamps
<1> QED BY <1>1, <1>2, <1>3

\* A pipe that is read has less in it, and one that has room has room for a line.
LEMMA PipeTypes ==
  ASSUME Shape, Len(reqs) <= PipeSize
  PROVE  /\ reqs # <<>> => Len(Tail(reqs)) <= PipeSize
         /\ Len(reqs) < PipeSize => \A i \in Ip : Len(Append(reqs, i)) <= PipeSize
  BY PipeAssumption DEF Shape

LEMMA InitRest == ASSUME Init PROVE Rest
  BY StampTypes, PipeAssumption DEF Init, Rest

\* Losing the server leaves everything empty.
LEMMA NoServerRest == ASSUME Rest, NoServer, server' \in BOOLEAN PROVE Rest'
<1>1. alive' \in BOOLEAN
  BY DEF NoServer
<1>2. Len(reqs') <= PipeSize
  BY PipeAssumption DEF NoServer
<1>3. child' \in [Slot -> {"none", "asked", "name", "gone"}]
  BY DEF NoServer
<1>4. stamp' \in [Ends -> Stamps]
  BY StampTypes DEF NoServer
<1> QED BY <1>1, <1>2, <1>3, <1>4 DEF Rest

\* A step of the talker, of the server, of a child, or of time keeps the types.
LEMMA NextRest == ASSUME Shape, Rest, [Next]_vars PROVE Rest'
<1> USE StampTypes, PipeTypes DEF Rest
<1>1. ASSUME NEW p \in Player, Add(p) PROVE Rest'
  <2>1. CASE server /\ ~alive
    BY <1>1, <2>1, NoServerRest DEF Add
  <2>2. CASE ~(server /\ ~alive)
    <3>1. IpOf[p] \in Ip /\ Len(reqs) < PipeSize
      BY <1>1, IpAssumption DEF Add
    <3>2. Len(Append(reqs, IpOf[p])) <= PipeSize
      BY <3>1
    <3>3. stamp["talker"] \in Stamps
      BY DEF Ends
    <3>4. CASE server' = TRUE /\ alive' = TRUE /\ reqs' = Append(reqs, IpOf[p])
               /\ stamp' = [stamp EXCEPT !["talker"] = Sent(@)] /\ UNCHANGED child
      BY <3>2, <3>3, <3>4
    <3>5. CASE UNCHANGED <<server, alive, reqs, child, stamp>>
      BY <3>5
    <3> QED BY <1>1, <2>2, <3>4, <3>5 DEF Add
  <2> QED BY <2>1, <2>2
<1>2. CASE Resolve
  BY <1>2 DEF Resolve
<1>3. CASE GiveUp \/ Idle \/ Crash
  BY <1>3, NoServerRest DEF GiveUp, Idle, Crash
<1>4. ASSUME NEW p \in Player, Leave(p) PROVE Rest'
  BY <1>4 DEF Leave
<1>5. CASE Take
  <2>1. CASE FreeSlots(Head(reqs)) = {}
    BY <1>5, <2>1 DEF Take, TakesIn
  <2>2. CASE FreeSlots(Head(reqs)) # {}
    <3> DEFINE s == CHOOSE f \in FreeSlots(Head(reqs)) : TRUE
    <3>1. s \in Slot
      BY <2>2 DEF FreeSlots
    <3>2. Sent(Fresh) \in Stamps
      OBVIOUS
    <3>3. /\ child' = [child EXCEPT ![s] = "asked"]
          /\ stamp' = [stamp EXCEPT !["server"] = Fresh, ![s] = Sent(Fresh)]
          /\ reqs # <<>> /\ reqs' = Tail(reqs) /\ UNCHANGED <<server, alive>>
      BY <1>5, <2>2 DEF Take, TakesIn
    <3> HIDE DEF s
    <3> QED BY <3>1, <3>2, <3>3
  <2> QED BY <2>1, <2>2
<1>6. CASE TakeFails
  BY <1>6 DEF TakeFails, TakesIn
<1>7. ASSUME NEW s \in Slot, Serve(s) PROVE Rest'
  <2>1. stamp["server"] \in Stamps
    BY DEF Ends
  <2> QED BY <1>7, <2>1 DEF Serve
<1>8. ASSUME NEW s \in Slot, ChildAnswers(s) \/ ChildGoes(s) PROVE Rest'
  BY <1>8 DEF ChildAnswers, ChildGoes
<1>9. CASE Tick
  BY <1>9 DEF Tick
<1>10. CASE UNCHANGED vars
  BY <1>10 DEF vars
<1> QED BY <1>1, <1>2, <1>3, <1>4, <1>5, <1>6, <1>7, <1>8, <1>9, <1>10 DEF Next

\* The types: what is in the pipes, slots and time stamps, that the pipe to the
\* server never holds more than it can, and that requests_going is never
\* taken below zero (deal_with_requests), for any number of players and slots.
THEOREM TypeInvariance == Spec => []TypeOK
<1>1. Init => Rest
  BY InitRest
<1>2. Inv /\ Rest /\ [Next]_vars => Rest'
  BY NextRest DEF Inv
<1>3. Inv /\ Rest => TypeOK
  <2> SUFFICES ASSUME Inv, Rest PROVE TypeOK
    OBVIOUS
  <2>1. IsFiniteSet(Used)
    BY SlotAssumption, FS_Subset DEF Used
  <2>2. going \in Nat
    BY <2>1, FS_CardinalityType DEF Inv, SlotsCounted
  <2> QED BY <2>2 DEF Inv, Shape, Rest, TypeOK, Fates, Lines
<1> QED BY <1>1, <1>2, <1>3, Invariance, PTL DEF Spec
=============================================================================
