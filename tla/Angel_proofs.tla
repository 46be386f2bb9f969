---------------------------- MODULE Angel_proofs ----------------------------
(* Theorems about the angel and the talker, for any time-outs and limits. *)
EXTENDS Angel, TLAPS

\* What one side heard of the other, while both loops go round: what is in the
\* pipe is at most two ticks younger than what was heard before, and when the
\* pipe is empty nothing is owed but by a writer that has not acted yet.
OnTime(stamps, pipe, reader, writer) ==
  /\ stamps.age <= 2
  /\ pipe /\ reader \in acted => stamps.age <= 1
  /\ ~pipe => stamps.age = 0 \/ (stamps.age = 1 /\ writer \notin acted)

Watched == angel = "watch" /\ talker = "run"

\* The inductive invariant.  The talker answers on time as soon as it runs, the
\* angel counts on it once it has heard of it.
IInv ==
  /\ TypeOK
  /\ ~booted => crashes = 0
  /\ angel = "watch" => talker # "none"
  /\ angel = "watch" /\ talker = "boot" => ~parent /\ ~didBoot /\ ~toAngel
  /\ Watched => parent /\ OnTime(answered, toTalker, "talker", "angel")
  /\ Watched /\ didBoot => OnTime(heard, toAngel, "angel", "talker")

LEMMA CapIsBig == Cap \in Nat /\ Cap > 2
  BY TimeAssumption DEF Cap

LEMMA StampTypes ==
  /\ Fresh \in Stamps /\ Fresh.age = 0
  /\ \A w \in Stamps : Sent(w) \in Stamps /\ Sent(w).age = w.age
  /\ \A w \in Stamps : [w EXCEPT !.age = Grow(@)] \in Stamps
  <1>1. 0 \in 0..Cap
    BY CapIsBig
  <1>2. Fresh \in Stamps /\ Fresh.age = 0
    BY <1>1 DEF Fresh, Stamps
  <1>3. ASSUME NEW w \in Stamps PROVE Sent(w) \in Stamps /\ Sent(w).age = w.age
    <2>1. w.age \in 0..Cap /\ (w.age > 0) \in BOOLEAN
      BY CapIsBig DEF Stamps
    <2>2. Sent(w) = [age |-> w.age, asked |-> w.age > 0]
      BY DEF Sent, Stamps
    <2> QED BY <2>1, <2>2 DEF Stamps
  <1>4. ASSUME NEW w \in Stamps PROVE [w EXCEPT !.age = Grow(@)] \in Stamps
    BY CapIsBig DEF Grow, Stamps
  <1> QED BY <1>2, <1>3, <1>4

LEMMA GrowBound == \A n \in 0..Cap : Grow(n) \in 0..Cap /\ Grow(n) <= n + 1
  BY CapIsBig DEF Grow

\* The angel has nothing to fear from a talker, nor the talker from an angel,
\* while both are on time.
LEMMA NotOverdue ==
  ASSUME NEW stamps \in Stamps, NEW pipe \in BOOLEAN, NEW reader, NEW writer,
         NEW seconds \in Nat \ {0}, OnTime(stamps, pipe, reader, writer)
  PROVE  pipe \/ ~WaitingInput(stamps, seconds)
  BY CapIsBig DEF OnTime, WaitingInput, Stamps

LEMMA InitIInv == Init => IInv
  <1> SUFFICES ASSUME Init PROVE IInv
    OBVIOUS
  <1>1. 0 \in 0..Cap /\ 0 \in 0..(RebootLimit + 1)
    BY CapIsBig, LimitAssumption
  <1>2. TypeOK
    BY <1>1, StampTypes DEF Init, TypeOK
  <1> QED BY <1>2 DEF Init, IInv, Watched

-----------------------------------------------------------------------------
(* The angel's steps. *)

LEMMA ForkIInv == ASSUME IInv, Fork PROVE IInv'
  <1>1. TypeOK'
    <2>1. 0 \in 0..Cap
      BY CapIsBig
    <2>2. crashes' \in 0..(RebootLimit + 1)
      BY LimitAssumption DEF IInv, TypeOK, Fork, Halts
    <2>3. since' \in 0..Cap
      BY <2>1 DEF IInv, TypeOK, Fork
    <2>4. /\ booted' \in BOOLEAN /\ didBoot' \in BOOLEAN /\ parent' \in BOOLEAN
          /\ toAngel' \in BOOLEAN /\ toTalker' \in BOOLEAN
          /\ acted' \subseteq {"angel", "talker"} /\ lived' \in 0..Cap
      BY <2>1 DEF Fork
    <2>5. angel' \in {"fork", "watch", "gone"} /\ talker' \in {"none", "boot", "run", "hung", "dead"}
      BY DEF IInv, TypeOK, Fork
    <2>6. heard' \in Stamps /\ answered' \in Stamps
      BY StampTypes DEF Fork
    <2> QED BY <2>2, <2>3, <2>4, <2>5, <2>6 DEF TypeOK
  <1>2. booted'
    BY DEF Fork
  <1>3. angel' = "watch" => talker' = "boot" /\ ~parent' /\ ~didBoot' /\ ~toAngel'
    BY DEF Fork, IInv, TypeOK
  <1> QED BY <1>1, <1>2, <1>3 DEF IInv, Watched

LEMMA LookIInv == ASSUME IInv, Look PROVE IInv'
  <1>1. TypeOK'
    BY StampTypes, CapIsBig DEF IInv, TypeOK, Look, counters
  <1>2. Watched' => Watched /\ "angel" \in acted'
    BY DEF Look, Watched
  <1>3. Watched => parent' /\ OnTime(answered, toTalker, "talker", "angel")'
    BY StampTypes DEF IInv, Look, OnTime, Stamps, TypeOK
  <1>4. Watched /\ didBoot' => OnTime(heard, toAngel, "angel", "talker")'
    <2> SUFFICES ASSUME Watched, didBoot' PROVE OnTime(heard, toAngel, "angel", "talker")'
      OBVIOUS
    <2>1. CASE toAngel
      <3>1. heard'.age = 0
        BY <2>1, StampTypes DEF Look
      <3> QED BY <3>1 DEF OnTime
    <2>2. CASE ~toAngel
      <3>1. didBoot /\ heard'.age = heard.age /\ ~toAngel'
        BY <2>2, StampTypes DEF Look, IInv, TypeOK
      <3>2. OnTime(heard, toAngel, "angel", "talker")
        BY <3>1 DEF IInv
      <3>3. "talker" \in acted' <=> "talker" \in acted
        BY DEF Look
      <3> QED BY <2>2, <3>1, <3>2, <3>3 DEF OnTime
    <2> QED BY <2>1, <2>2
  <1>5. ~booted' => crashes' = 0
    BY DEF IInv, Look, counters
  <1>6. /\ angel' = "watch" => talker' # "none"
        /\ angel' = "watch" /\ talker' = "boot" => ~parent' /\ ~didBoot' /\ ~toAngel'
    BY DEF IInv, Look
  <1> QED BY <1>1, <1>2, <1>3, <1>4, <1>5, <1>6 DEF IInv

LEMMA EndingIInv == ASSUME IInv, Stop \/ GiveUp \/ AngelDies PROVE IInv'
  <1>1. TypeOK'
    BY DEF IInv, TypeOK, Stop, GiveUp, AngelDies, counters, pipes
  <1>2. angel' # "watch"
    BY DEF Stop, GiveUp, AngelDies
  <1>3. ~booted' => crashes' = 0
    BY DEF IInv, Stop, GiveUp, AngelDies, counters
  <1> QED BY <1>1, <1>2, <1>3 DEF IInv, Watched

-----------------------------------------------------------------------------
(* The talker's steps, and time. *)

LEMMA BootIInv == ASSUME IInv, Boot PROVE IInv'
  <1>1. TypeOK'
    BY StampTypes DEF IInv, TypeOK, Boot, counters
  <1>2. answered'.age = 0 /\ parent' /\ talker' = "run"
    BY StampTypes DEF Boot
  <1>3. Watched' => ~didBoot'
    BY DEF IInv, Boot, Watched
  <1>4. OnTime(answered, toTalker, "talker", "angel")'
    BY <1>2 DEF OnTime
  <1>5. ~booted' => crashes' = 0
    BY DEF IInv, Boot, counters
  <1> QED BY <1>1, <1>2, <1>3, <1>4, <1>5 DEF IInv

LEMMA PingIInv == ASSUME IInv, Ping PROVE IInv'
  <1>1. TypeOK'
    BY StampTypes DEF IInv, TypeOK, Ping, CloseParent, counters
  <1>2. ~booted' => crashes' = 0
    BY DEF IInv, Ping, counters
  <1>3. talker' = "run"
    BY DEF Ping
  <1>4. CASE Watched'
    <2>1. /\ Watched /\ parent' /\ toAngel' /\ ~toTalker'
          /\ answered' = Sent(IF toTalker THEN Fresh ELSE answered)
          /\ acted' = acted \cup {"talker"} /\ heard' = heard /\ didBoot' = didBoot
      BY <1>4 DEF Ping, CloseParent, Watched
    <2>2. OnTime(answered, toTalker, "talker", "angel")'
      <3>1. OnTime(answered, toTalker, "talker", "angel")
        BY <2>1 DEF IInv
      <3>2. answered'.age = IF toTalker THEN 0 ELSE answered.age
        BY <2>1, StampTypes DEF IInv, TypeOK
      <3>3. "angel" \in acted' <=> "angel" \in acted
        BY <2>1
      <3> QED BY <2>1, <3>1, <3>2, <3>3 DEF OnTime
    <2>3. didBoot => OnTime(heard, toAngel, "angel", "talker")'
      <3> SUFFICES ASSUME didBoot PROVE OnTime(heard, toAngel, "angel", "talker")'
        OBVIOUS
      <3>1. OnTime(heard, toAngel, "angel", "talker")
        BY <2>1 DEF IInv
      <3>2. "angel" \in acted' <=> "angel" \in acted
        BY <2>1
      <3> QED BY <2>1, <3>1, <3>2 DEF OnTime
    <2> QED BY <1>1, <1>2, <1>3, <2>1, <2>2, <2>3 DEF IInv
  <1>5. CASE ~Watched'
    BY <1>1, <1>2, <1>3, <1>5 DEF IInv
  <1> QED BY <1>4, <1>5

LEMMA TalkerEndsIInv == ASSUME IInv, Hang \/ Die PROVE IInv'
  <1>1. TypeOK'
    BY DEF IInv, TypeOK, Hang, Die, counters, pipes
  <1>2. talker' \in {"hung", "dead"}
    BY DEF Hang, Die
  <1>3. ~booted' => crashes' = 0
    BY DEF IInv, Hang, Die, counters
  <1> QED BY <1>1, <1>2, <1>3 DEF IInv, Watched

\* A tick passes only when both have acted, so that what is one tick late is in
\* the pipe.
LEMMA TickOnTime ==
  ASSUME NEW stamps \in Stamps, NEW pipe \in BOOLEAN, NEW reader \in acted,
         NEW writer \in acted, OnTime(stamps, pipe, reader, writer), acted' = {}
  PROVE  LET later == [stamps EXCEPT !.age = Grow(@)] IN
           /\ later.age <= 2
           /\ ~pipe => later.age = 0 \/ later.age = 1
  BY GrowBound, CapIsBig DEF OnTime, Stamps

LEMMA TickIInv == ASSUME IInv, Tick PROVE IInv'
  <1>1. TypeOK'
    BY StampTypes, GrowBound DEF IInv, TypeOK, Tick, pipes
  <1>2. acted' = {} /\ toAngel' = toAngel /\ toTalker' = toTalker
    BY DEF Tick, pipes
  <1>3. Watched' => Watched /\ parent /\ "angel" \in acted /\ "talker" \in acted
    BY DEF Tick, Watched, IInv
  <1>4. Watched' => parent' /\ OnTime(answered, toTalker, "talker", "angel")'
    <2> SUFFICES ASSUME Watched' PROVE parent' /\ OnTime(answered, toTalker, "talker", "angel")'
      OBVIOUS
    <2>1. OnTime(answered, toTalker, "talker", "angel")
      BY <1>3 DEF IInv
    <2>2. answered' = [answered EXCEPT !.age = Grow(@)] /\ parent' = parent
      BY DEF Tick
    <2>3. answered'.age <= 2 /\ (~toTalker => answered'.age = 0 \/ answered'.age = 1)
      BY <1>2, <1>3, <2>1, <2>2, TickOnTime DEF IInv, TypeOK
    <2> QED BY <1>2, <1>3, <2>2, <2>3 DEF OnTime
  <1>5. Watched' /\ didBoot' => OnTime(heard, toAngel, "angel", "talker")'
    <2> SUFFICES ASSUME Watched', didBoot' PROVE OnTime(heard, toAngel, "angel", "talker")'
      OBVIOUS
    <2>1. OnTime(heard, toAngel, "angel", "talker")
      BY <1>3 DEF IInv, Tick
    <2>2. heard' = [heard EXCEPT !.age = Grow(@)]
      BY DEF Tick
    <2>3. heard'.age <= 2 /\ (~toAngel => heard'.age = 0 \/ heard'.age = 1)
      BY <1>2, <1>3, <2>1, <2>2, TickOnTime DEF IInv, TypeOK
    <2> QED BY <1>2, <2>3 DEF OnTime
  <1>6. /\ ~booted' => crashes' = 0
        /\ angel' = "watch" => talker' # "none"
        /\ angel' = "watch" /\ talker' = "boot" => ~parent' /\ ~didBoot' /\ ~toAngel'
    BY DEF IInv, Tick, pipes
  <1> QED BY <1>1, <1>4, <1>5, <1>6 DEF IInv

-----------------------------------------------------------------------------
LEMMA NextIInv == IInv /\ [Next]_vars => IInv'
  <1> SUFFICES ASSUME IInv, [Next]_vars PROVE IInv'
    OBVIOUS
  <1>1. CASE UNCHANGED vars
    BY <1>1 DEF vars, counters, pipes, IInv, TypeOK, Watched, OnTime
  <1>2. CASE Next
    BY <1>2, ForkIInv, LookIInv, EndingIInv, BootIInv, PingIInv, TalkerEndsIInv, TickIInv
    DEF Next
  <1> QED BY <1>1, <1>2

LEMMA Invariance == Spec => []IInv
  BY InitIInv, NextIInv, PTL DEF Spec

\* The angel's counters and time stamps keep their types; in particular the
\* talker is never started more often than ANGEL_MAX_REBOOT_LIMIT allows before
\* the count begins anew.
THEOREM TypeInvariance == Spec => []TypeOK
  <1>1. IInv => TypeOK
    BY DEF IInv
  <1> QED BY <1>1, Invariance, PTL

\* GiveUp and angel_close_parent end nobody who still answers.
LEMMA KillsOnlyTheDead ==
  ASSUME IInv, [Next]_vars
  PROVE  /\ talker = "run" /\ talker' = "none" => FALSE
         /\ angel = "watch" /\ ~parent' /\ parent => talker \in {"hung", "dead"}
  <1>1. Watched => toTalker \/ ~WaitingInput(answered, TimeoutAngel)
    BY NotOverdue, TimeAssumption DEF IInv, TypeOK
  <1>2. Watched /\ didBoot => toAngel \/ ~WaitingInput(heard, TimeoutBoot)
    BY NotOverdue, TimeAssumption DEF IInv, TypeOK
  <1>3. CASE GiveUp
    BY <1>2, <1>3 DEF GiveUp, Watched, IInv, TypeOK
  <1>4. CASE Ping
    BY <1>1, <1>4 DEF Ping, Watched
  <1>5. CASE Fork
    BY <1>5 DEF Fork, IInv
  <1>6. CASE Stop \/ Look \/ AngelDies \/ Boot \/ Hang \/ Die \/ Tick \/ UNCHANGED vars
    BY <1>6 DEF Stop, Look, AngelDies, Boot, Hang, Die, Tick, vars
  <1> QED BY <1>3, <1>4, <1>5, <1>6 DEF Next

\* Whatever the time-outs are, as long as they are at least a tick, a talker
\* whose timers run is not killed by its angel, nor its angel by it.
THEOREM LivingAreSafe == Spec => NobodyKillsTheLiving
  <1>1. IInv /\ [Next]_vars =>
          [/\ talker = "run" /\ talker' = "none" => FALSE
           /\ angel = "watch" /\ ~parent' /\ parent => talker \in {"hung", "dead"}]_vars
    BY KillsOnlyTheDead
  <1> QED BY <1>1, Invariance, PTL DEF Spec, NobodyKillsTheLiving

=============================================================================
