---------------------------- MODULE Session_proofs ----------------------------
(***************************************************************************)
(* Theorems about the life of a connection, for any number of players,     *)
(* connections and names.                                                  *)
(***************************************************************************)
EXTENDS Session, FiniteSetTheorems, TLAPS

-----------------------------------------------------------------------------
(* The invariant. *)

Stays(p) == event[p] \notin Leaving

Shape ==
  /\ alloc \subseteq Player /\ cron \subseteq alloc /\ on \subseteq cron
  /\ idle \subseteq on
  /\ event \in [Player -> Event]
  /\ saved \in [Player -> Node \cup {None}]
  /\ io \in [Player -> Conn \cup {None}]
  /\ hungup \subseteq Conn
  /\ mode \in [Player -> Mode]
  /\ timer \in [Player -> {"none", "start", "logout"}]
  /\ ptr \in [Node -> Player \cup {None}]
  /\ tree \subseteq Name /\ agreed \subseteq Node
  /\ banished \subseteq Name /\ nuking \subseteq Name
  /\ fatal \in {"no", "dangling", "count", "twice", "name", "unloaded", "freed"}

\* What is not in use is blank.
Blank ==
  /\ \A x \in Player \ alloc : event[x] = "choose" /\ saved[x] = None /\ mode[x] = "none"
  /\ \A x \in Player \ cron : io[x] = None /\ timer[x] = "none" /\ mode[x] = "none"

\* What the prompt of a player that stays says about whom it stands for.
Prompted(x) ==
  /\ timer[x] = "start" => mode[x] = "wait"
  /\ mode[x] = "wait" => saved[x] = None
  /\ mode[x] = "name" /\ Stays(x) => saved[x] = None
  /\ mode[x] \in Passwd \cup {"mail", "motd"} /\ Stays(x) =>
       saved[x] # None /\ saved[x][1] = "resident" /\ ptr[saved[x]] # x
  /\ mode[x] \in {"newbie", "disclaimer", "finish"} /\ Stays(x) =>
       saved[x] # None /\ ptr[saved[x]] = x
  /\ x \in on <=> mode[x] = "base"
  /\ x \in on => timer[x] = "none" /\ saved[x] # None /\ ptr[saved[x]] = x
  /\ x \notin on /\ Stays(x) => timer[x] # "none"

\* Nodes and the players that stand for them.
Nodes ==
  /\ \A x \in Player : IsNewbie(x) => x \in cron /\ ptr[saved[x]] = x
  /\ \A x \in cron, n \in Name : saved[x] = Resident(n) => n \in tree
  /\ \A x \in on, n \in Name : saved[x] = Newbie(n) => n \notin tree
  /\ \A n \in Name \ tree : ptr[Resident(n)] = None

Points == \A s \in Node : ptr[s] # None => ptr[s] \in alloc /\ saved[ptr[s]] = s

Sane == Shape /\ Blank /\ (\A x \in cron : Prompted(x)) /\ Nodes /\ (fatal = "no" => Points)

-----------------------------------------------------------------------------
(* Names and events. *)

LEMMA NodeFacts ==
  /\ \A n \in Name : /\ Newbie(n) \in Node /\ Newbie(n)[1] = "newbie" /\ Newbie(n)[2] = n
                     /\ Resident(n) \in Node /\ Resident(n)[1] = "resident" /\ Resident(n)[2] = n
  /\ \A s \in Node : /\ s[2] \in Name /\ s # None
                     /\ s = Newbie(s[2]) \/ s = Resident(s[2])
                     /\ s[1] = "newbie" <=> s = Newbie(s[2])
                     /\ s[1] = "resident" <=> s = Resident(s[2])
                     /\ s[1] = "newbie" <=> s[1] # "resident"
  BY NodeAssumption DEF Node, Newbie, Resident

LEMMA EventFacts ==
  /\ Event = {"choose", "input", "run_command"} \cup Leaving
  /\ \A e \in Event : /\ Upgrade(e, "logoff") \in Leaving /\ Upgrade(e, "bad_fd") \in Leaving
                      /\ e \in Leaving => Upgrade(e, "logoff") = e
  BY DEF Event, Rank, Leaving, Upgrade

-----------------------------------------------------------------------------
(* Steps that change no node and leave the players where they are. *)

LEMMA QuietSane ==
  ASSUME Sane, UNCHANGED <<alloc, cron, saved, on, io, ptr, tree, fatal>>,
         Shape', Blank', \A x \in cron : Prompted(x)'
  PROVE  Sane'
<1>1. Nodes' /\ (fatal' = "no" => Points')
  BY DEF Sane, Nodes, Points, IsNewbie
<1> QED BY <1>1 DEF Sane

LEMMA StopsSane ==
  ASSUME Sane, NEW why \in {"dangling", "count", "twice", "name", "unloaded", "freed"}, Stops(why)
  PROVE  Sane' /\ fatal' # "no"
<1>1. Shape' /\ Blank' /\ Nodes' /\ fatal' # "no"
  BY DEF Sane, Stops, Shape, Blank, Nodes, IsNewbie
<1>2. \A x \in cron : Prompted(x)'
  BY DEF Sane, Stops, Prompted, Stays
<1> QED BY <1>1, <1>2 DEF Sane, Stops

LEMMA LogonStartRealSane == ASSUME Sane, NEW p \in Player, LogonStartReal(p) PROVE Sane'
<1> USE DEF LogonStartReal, nodes
<1>1. p \in cron /\ mode[p] = "wait" /\ saved[p] = None /\ p \notin on
  BY DEF Sane, Shape, Blank, Prompted
<1>2. Shape' /\ Blank'
  BY <1>1 DEF Sane, Shape, Blank, Mode, Dialogue
<1>3. \A x \in cron : Prompted(x)'
  <2> SUFFICES ASSUME NEW x \in cron PROVE Prompted(x)'
    OBVIOUS
  <2>1. CASE x = p
    BY <1>1, <2>1 DEF Prompted, Sane, Shape, Stays, Passwd
  <2>2. CASE x # p
    BY <2>2 DEF Prompted, Sane, Shape, Stays
  <2> QED BY <2>1, <2>2
<1> QED BY <1>2, <1>3, QuietSane

LEMMA TimedLogoutSane == ASSUME Sane, NEW p \in Player, TimedLogout(p) PROVE Sane'
<1> USE DEF TimedLogout, UserLogoff, nodes
<1>1. p \in cron /\ p \notin on
  BY DEF Sane, Shape, Blank, Prompted
<1>2. Shape' /\ Blank'
  BY <1>1, EventFacts DEF Sane, Shape, Blank
<1>3. \A x \in cron : Prompted(x)'
  <2> SUFFICES ASSUME NEW x \in cron PROVE Prompted(x)'
    OBVIOUS
  <2>1. CASE x = p
    <3>1. event'[p] \in Leaving /\ timer'[p] = "none"
      BY EventFacts DEF Sane, Shape
    <3> QED BY <1>1, <2>1, <3>1 DEF Prompted, Sane, Shape, Stays
  <2>2. CASE x # p
    BY <2>2 DEF Prompted, Sane, Shape, Stays
  <2> QED BY <2>1, <2>2
<1> QED BY <1>2, <1>3, QuietSane

LEMMA TimedIdleSane == ASSUME Sane, NEW p \in Player, TimedIdle(p) PROVE Sane'
<1> USE DEF TimedIdle, UserLogoff, nodes
<1>1. p \in on
  BY DEF Sane, Shape
<1>2. Shape' /\ Blank'
  BY <1>1, EventFacts DEF Sane, Shape, Blank
<1>3. \A x \in cron : Prompted(x)'
  BY <1>1, EventFacts DEF Prompted, Sane, Shape, Stays
<1> QED BY <1>2, <1>3, QuietSane

LEMMA PeerClosesSane == ASSUME Sane, NEW c \in Conn, PeerCloses(c) PROVE Sane'
<1> USE DEF PeerCloses, nodes
<1>1. Shape' /\ Blank' /\ \A x \in cron : Prompted(x)'
  BY DEF Sane, Shape, Blank, Prompted, Stays
<1> QED BY <1>1, QuietSane

LEMMA ChooseSane == ASSUME Sane, NEW p \in Player, NEW e \in Event, Choose(p, e) PROVE Sane'
<1> USE DEF Choose, nodes
<1>1. Shape' /\ Blank'
  BY DEF Sane, Shape, Blank
<1>2. \A x \in cron : Prompted(x)'
  BY DEF Prompted, Sane, Shape, Stays, Leaving
<1> QED BY <1>1, <1>2, QuietSane

LEMMA InputSane == ASSUME Sane, NEW p \in Player, Input(p) PROVE Sane'
<1> USE DEF Input, nodes
<1>1. Shape' /\ Blank'
  BY EventFacts DEF Sane, Shape, Blank, Leaving
<1>2. \A x \in cron : Prompted(x)'
  BY DEF Prompted, Sane, Shape, Stays, Leaving
<1> QED BY <1>1, <1>2, QuietSane

\* A line that changes nothing, or that ends the logon.
LEMMA PlainLineSane == ASSUME Sane, NEW p \in Player, PlainLine(p) \/ QuitLine(p) PROVE Sane'
<1>1. /\ p \in cron /\ Stays(p) /\ event' = [event EXCEPT ![p] = event'[p]] /\ event'[p] \in {"choose", "logoff"}
      /\ UNCHANGED <<alloc, cron, saved, on, io, hungup, mode, timer, idle, nodes, count, current, fatal>>
  BY DEF PlainLine, QuitLine, Running, Stays, Leaving, Sane, Shape
<1>2. Shape' /\ Blank'
  BY <1>1, EventFacts DEF Sane, Shape, Blank, Leaving, nodes
<1>3. \A x \in cron : Prompted(x)'
  BY <1>1 DEF Prompted, Sane, Shape, Stays, Leaving, nodes
<1> QED BY <1>1, <1>2, <1>3, QuietSane DEF nodes

LEMMA AgreeSane == ASSUME Sane, NEW p \in Player, Agree(p) PROVE Sane'
<1> USE DEF Agree, Prompt
<1>1. p \in cron /\ Stays(p) /\ mode[p] = "disclaimer"
  BY DEF Running, Stays, Leaving
<1>2. saved[p] # None /\ p \notin on
  BY <1>1 DEF Sane, Prompted
<1>3. Shape' /\ Blank'
  BY <1>1, <1>2, EventFacts DEF Sane, Shape, Blank, Mode, Dialogue
<1>4. \A x \in cron : Prompted(x)'
  <2> SUFFICES ASSUME NEW x \in cron PROVE Prompted(x)'
    OBVIOUS
  <2>1. CASE x = p
    BY <1>1, <2>1 DEF Prompted, Sane, Shape, Stays, Passwd
  <2>2. CASE x # p
    BY <2>2 DEF Prompted, Sane, Shape, Stays
  <2> QED BY <2>1, <2>2
<1> QED BY <1>3, <1>4, QuietSane

LEMMA AskDisclaimerSane ==
  ASSUME Sane, NEW p \in Player, NEW s \in Node, s = saved[p], p \in cron \ on, Stays(p), mode[p] # "wait",
         AskDisclaimer(p, s)
  PROVE  Sane'
<1> USE DEF AskDisclaimer, Prompt, nodes
<1>1. s # None
  BY NodeFacts
<1>2. Shape' /\ Blank'
  BY EventFacts DEF Sane, Shape, Blank, Mode, Dialogue
<1>3. \A x \in cron : Prompted(x)'
  <2> SUFFICES ASSUME NEW x \in cron PROVE Prompted(x)'
    OBVIOUS
  <2>1. CASE x = p
    BY <1>1, <2>1 DEF Prompted, Sane, Shape, Stays, Passwd
  <2>2. CASE x # p
    BY <2>2 DEF Prompted, Sane, Shape, Stays
  <2> QED BY <2>1, <2>2
<1> QED BY <1>2, <1>3, QuietSane

LEMMA NukeSane == ASSUME Sane, NEW n \in Name, Nuke(n) PROVE Sane'
<1> USE DEF Nuke, dialogue
<1>1. Shape' /\ Blank' /\ \A x \in cron : Prompted(x)'
  BY DEF Sane, Shape, Blank, Prompted, Stays
<1> QED BY <1>1, QuietSane

-----------------------------------------------------------------------------
(* Players come and go. *)

LEMMA AcceptSane ==
  ASSUME Sane, NEW p \in Player, NEW c \in Conn, Accept(p, c)
  PROVE  Sane'
<1> USE DEF Accept, UserLogoff, nodes
<1>1. p \notin cron /\ p \notin on /\ event[p] = "choose" /\ saved[p] = None /\ p \notin idle
  BY DEF Sane, Shape, Blank
<1>2. timer'[p] = "start" \/ event'[p] \in Leaving
  BY EventFacts DEF Sane, Shape
<1>3. timer'[p] \in {"start", "none"} /\ mode'[p] = "wait" /\ saved'[p] = None
  BY <1>1 DEF Sane, Shape, Blank
<1>4. /\ event' \in [Player -> Event] /\ \A x \in Player \ {p} : event'[x] = event[x]
      /\ timer' \in [Player -> {"none", "start", "logout"}] /\ \A x \in Player \ {p} : timer'[x] = timer[x]
  BY EventFacts DEF Sane, Shape
<1>5. Shape'
  BY <1>4 DEF Sane, Shape, Mode
<1>6. Blank'
  BY <1>4 DEF Sane, Shape, Blank
<1>7. \A x \in cron' : Prompted(x)'
  <2>1. Prompted(p)'
    BY <1>1, <1>2, <1>3 DEF Prompted, Stays, Passwd
  <2>2. \A x \in cron : x # p => Prompted(x)'
    BY <1>4 DEF Prompted, Sane, Shape, Stays
  <2> QED BY <1>1, <2>1, <2>2
<1>8. Nodes' /\ (fatal' = "no" => Points')
  BY <1>1, NodeFacts DEF Sane, Shape, Nodes, Points, IsNewbie
<1> QED BY <1>5, <1>6, <1>7, <1>8 DEF Sane

LEMMA NewbieQuitsSane == ASSUME Sane, NEW p \in Player, NewbieQuits(p) PROVE Sane'
<1>0. CASE saved[p][2] \in tree
  BY <1>0, StopsSane DEF NewbieQuits
<1> SUFFICES ASSUME saved[p][2] \notin tree PROVE Sane'
  BY <1>0
<1> USE DEF NewbieQuits, Closes, Free
<1>1. p \in cron /\ saved[p] \in Node /\ ptr[saved[p]] = p /\ saved[p][1] = "newbie" /\ ptr'[saved[p]] = None
  BY NodeFacts DEF Sane, Shape, Nodes, IsNewbie, Quits
<1>2. Shape'
  BY <1>1, EventFacts DEF Sane, Shape, Mode, Quits, Leaving
<1>3. Blank'
  BY DEF Sane, Shape, Blank
<1>4. \A x \in cron' : Prompted(x)'
  BY <1>1 DEF Prompted, Sane, Shape, Stays
<1>5. Nodes'
  BY <1>1, NodeFacts DEF Sane, Shape, Nodes, IsNewbie
<1>6. fatal' = "no" => Points'
  BY <1>1 DEF Sane, Shape, Points
<1> QED BY <1>2, <1>3, <1>4, <1>5, <1>6 DEF Sane

LEMMA StrangerQuitsSane == ASSUME Sane, NEW p \in Player, StrangerQuits(p) PROVE Sane'
<1> USE DEF StrangerQuits, Closes, Free
<1>1. CASE count = 0
  BY <1>1, StopsSane
<1>2. CASE count # 0
  <2> USE <1>2 DEF nodes
  <2>1. p \in cron /\ p \notin on /\ ~IsNewbie(p)
    BY DEF Quits
  <2>2. Shape'
    BY <2>1, EventFacts DEF Sane, Shape, Mode, Leaving
  <2>3. Blank'
    BY DEF Sane, Shape, Blank
  <2>4. \A x \in cron' : Prompted(x)'
    BY <2>1 DEF Prompted, Sane, Shape, Stays
  <2>5. Nodes'
    BY <2>1, NodeFacts DEF Sane, Shape, Nodes, IsNewbie
  <2>6. fatal' = "no" => Points'
    <3> SUFFICES ASSUME fatal' = "no", NEW s \in Node, ptr[s] # None PROVE ptr[s] \in alloc' /\ saved'[ptr[s]] = s
      BY DEF Points
    <3>1. p \notin Range(ptr)
      OBVIOUS
    <3>2. ptr[s] # p /\ ptr[s] \in Player
      BY <3>1 DEF Range, Sane, Shape
    <3> QED BY <3>2 DEF Sane, Shape, Points
  <2> QED BY <2>2, <2>3, <2>4, <2>5, <2>6 DEF Sane
<1> QED BY <1>1, <1>2

LEMMA ResidentQuitsSane == ASSUME Sane, NEW p \in Player, ResidentQuits(p) PROVE Sane'
<1> USE DEF ResidentQuits, Closes, nodes
<1>1. p \in cron /\ p \in on /\ ~IsNewbie(p)
  BY DEF Quits
<1>2. Shape'
  BY <1>1, EventFacts DEF Sane, Shape, Mode, Leaving
<1>3. Blank'
  BY <1>1 DEF Sane, Shape, Blank
<1>4. \A x \in cron' : Prompted(x)'
  BY <1>1 DEF Prompted, Sane, Shape, Stays
<1>5. Nodes'
  BY <1>1 DEF Sane, Shape, Nodes, IsNewbie
<1>6. fatal' = "no" => Points'
  BY DEF Sane, Points
<1> QED BY <1>2, <1>3, <1>4, <1>5, <1>6 DEF Sane

-----------------------------------------------------------------------------
(* The player of a node is loaded. *)

\* Who is at a prompt is not the player that is loaded for it.
LEMMA LoadsFacts ==
  ASSUME Sane, fatal = "no", NEW s \in Node, NEW q \in Player, Loads(s, q), Loaded(s, q)
  PROVE  /\ alloc' = alloc \cup {q} /\ ptr' \in [Node -> Player \cup {None}] /\ ptr'[s] = q
         /\ \A r \in Node \ {s} : ptr'[r] = ptr[r]
         /\ \A x \in alloc : ptr[s] = x => q = x
         /\ \A x \in alloc : ptr[s] # x => q # x
         /\ q \notin alloc => saved[q] = None /\ event[q] = "choose" /\ mode[q] = "none"
         /\ q \in alloc => saved[q] = s
<1>1. alloc' = alloc \cup {q} /\ ptr' \in [Node -> Player \cup {None}] /\ ptr'[s] = q
      /\ \A r \in Node \ {s} : ptr'[r] = ptr[r]
  BY DEF Loaded, Sane, Shape
<1>2. None \notin alloc
  BY NoneAssumption DEF Sane, Shape
<1>3. (\A x \in alloc : ptr[s] = x => q = x) /\ (\A x \in alloc : ptr[s] # x => q # x)
  BY <1>2 DEF Loads
<1>4. q \notin alloc => saved[q] = None /\ event[q] = "choose" /\ mode[q] = "none"
  BY DEF Sane, Blank
<1>5. q \in alloc => saved[q] = s
  BY <1>3 DEF Sane, Points, Loads
<1> QED BY <1>1, <1>3, <1>4, <1>5

\* Somebody at a prompt has the player of a resident loaded.
LEMMA LoadSane ==
  ASSUME Sane, fatal = "no", NEW p \in Player, NEW s \in Node, NEW q \in Player, p \in cron \ on,
         s[1] = "resident", s[2] \in tree, ptr[s] # p, saved[p] \in {None, s},
         Loads(s, q), Loaded(s, q),
         saved' \in [Player -> Node \cup {None}], saved'[p] \in {None, s}, saved'[q] = s,
         \A x \in Player \ {p, q} : saved'[x] = saved[x],
         event' \in [Player -> Event], mode' \in [Player -> Mode],
         \A x \in Player \ {p} : event'[x] = event[x] /\ mode'[x] = mode[x],
         Prompted(p)',
         UNCHANGED <<cron, on, io, hungup, timer, idle, tree, agreed, banished, nuking, fatal>>
  PROVE  Sane'
<1>1. /\ alloc' = alloc \cup {q} /\ ptr' \in [Node -> Player \cup {None}] /\ ptr'[s] = q
      /\ \A r \in Node \ {s} : ptr'[r] = ptr[r]
      /\ \A x \in alloc : ptr[s] = x => q = x
      /\ \A x \in alloc : ptr[s] # x => q # x
      /\ q \notin alloc => saved[q] = None /\ event[q] = "choose" /\ mode[q] = "none"
      /\ q \in alloc => saved[q] = s
  BY LoadsFacts
<1>2. p \in alloc /\ q # p /\ cron \subseteq alloc
  BY <1>1 DEF Sane, Shape
<1>3. s # None /\ s = Resident(s[2]) /\ s[2] \in Name /\ s[1] # "newbie"
  BY NodeFacts
<1>5. Shape'
  BY <1>1, EventFacts DEF Sane, Shape, Mode, Dialogue
<1>6. Blank'
  BY <1>1, <1>2 DEF Sane, Shape, Blank
<1>7. \A x \in cron' : Prompted(x)'
  <2> SUFFICES ASSUME NEW x \in cron PROVE Prompted(x)'
    OBVIOUS
  <2>1. CASE x = p
    BY <2>1
  <2>2. CASE x # p
    <3>1. saved'[x] = saved[x] /\ event'[x] = event[x] /\ mode'[x] = mode[x]
      BY <1>1, <1>2, <2>2 DEF Sane, Shape
    <3>2. saved[x] # None => (ptr'[saved[x]] = x <=> ptr[saved[x]] = x)
      BY <1>1, <1>2 DEF Sane, Shape
    <3> QED BY <3>1, <3>2 DEF Prompted, Sane, Shape, Stays
  <2> QED BY <2>1, <2>2
<1>8. Nodes'
  <2>1. \A x \in Player : IsNewbie(x)' => x \in cron' /\ ptr'[saved'[x]] = x
    BY <1>1, <1>3 DEF Sane, Shape, Nodes, IsNewbie
  <2>2. \A x \in cron', n \in Name : saved'[x] = Resident(n) => n \in tree'
    BY <1>1, <1>2, <1>3, NodeFacts DEF Sane, Shape, Nodes
  <2>3. \A x \in on', n \in Name : saved'[x] = Newbie(n) => n \notin tree'
    BY <1>3, NodeFacts DEF Sane, Shape, Nodes
  <2>4. \A n \in Name \ tree' : ptr'[Resident(n)] = None
    BY <1>1, <1>3, NodeFacts DEF Sane, Shape, Nodes
  <2> QED BY <2>1, <2>2, <2>3, <2>4 DEF Nodes
<1>9. Points'
  <2> SUFFICES ASSUME NEW r \in Node, ptr'[r] # None PROVE ptr'[r] \in alloc' /\ saved'[ptr'[r]] = r
    BY DEF Points
  <2>1. CASE r = s
    BY <1>1, <2>1
  <2>2. CASE r # s
    <3>1. ptr'[r] = ptr[r] /\ ptr[r] \in alloc /\ saved[ptr[r]] = r /\ r # None
      BY <1>1, <2>2, NodeFacts DEF Sane, Points
    <3>2. ptr[r] # q /\ ptr[r] # p
      BY <1>1, <2>2, <3>1
    <3> QED BY <1>1, <3>1, <3>2 DEF Sane, Shape
  <2> QED BY <2>1, <2>2
<1> QED BY <1>5, <1>6, <1>7, <1>8, <1>9 DEF Sane

LEMMA MotdSane ==
  ASSUME Sane, fatal = "no", NEW p \in Player, NEW s \in Node, NEW q \in Player, p \in cron \ on, Stays(p),
         mode[p] # "wait", s[1] = "resident", s[2] \in tree, ptr[s] # p, saved[p] \in {None, s}, Loads(s, q), Motd(p, s, q)
  PROVE  Sane'
<1> USE DEF Motd, Prompt
<1>1. p \in alloc /\ q # p /\ ptr'[s] = q
  BY LoadsFacts DEF Sane, Shape
<1>2. /\ saved' \in [Player -> Node \cup {None}] /\ saved'[p] = s /\ saved'[q] = s
      /\ \A x \in Player \ {p, q} : saved'[x] = saved[x]
  BY <1>1 DEF Sane, Shape
<1>3. event' \in [Player -> Event] /\ mode' \in [Player -> Mode] /\ mode'[p] = "motd"
  BY EventFacts DEF Sane, Shape, Mode, Dialogue
<1>4. \A x \in Player \ {p} : event'[x] = event[x] /\ mode'[x] = mode[x]
  BY DEF Sane, Shape
<1>5. Prompted(p)'
  <2>1. timer[p] # "start" /\ timer[p] # "none"
    BY DEF Sane, Prompted
  <2> QED BY <1>1, <1>2, <1>3, <2>1, NodeFacts DEF Prompted, Stays, Passwd
<1> QED BY <1>2, <1>3, <1>4, <1>5, LoadSane

\* logon_name_command finds the resident and asks for the password.
LEMMA AskPasswordSane ==
  ASSUME Sane, fatal = "no", NEW p \in Player, NEW n \in tree, Running(p, "name"), NEW q \in Player \ {p},
         Loads(Resident(n), q), Loaded(Resident(n), q),
         saved' = [saved EXCEPT ![p] = Resident(n), ![q] = Resident(n)],
         \/ Prompt(p, "passwd_1")
         \/ event' = [event EXCEPT ![p] = "logoff"] /\ UNCHANGED mode,
         UNCHANGED <<cron, on, io, hungup, timer, idle, tree, agreed, banished, nuking, fatal>>
  PROVE  Sane'
<1> DEFINE s == Resident(n)
<1> USE DEF Prompt
<1>0. n \in Name
  BY DEF Sane, Shape
<1>1. s \in Node /\ s[1] = "resident" /\ s[2] = n /\ s # None
  BY <1>0, NodeFacts
<1> HIDE DEF s
<1>2. p \in cron /\ p \in alloc /\ Stays(p) /\ mode[p] = "name"
  BY DEF Running, Stays, Leaving, Sane, Shape
<1>3. saved[p] = None /\ p \notin on /\ timer[p] # "start" /\ timer[p] # "none"
  BY <1>2 DEF Sane, Prompted
<1>4. ptr[s] # p
  BY <1>1, <1>3, NoneAssumption DEF Sane, Points
<1>5. Loads(s, q) /\ Loaded(s, q)
  BY DEF s
<1>6. ptr'[s] = q
  BY <1>1, <1>5, LoadsFacts
<1>7. /\ saved' \in [Player -> Node \cup {None}] /\ saved'[p] = s /\ saved'[q] = s
      /\ \A x \in Player \ {p, q} : saved'[x] = saved[x]
  BY <1>1 DEF Sane, Shape, s
<1>8. /\ event' \in [Player -> Event] /\ mode' \in [Player -> Mode]
      /\ mode'[p] = "passwd_1" \/ (mode'[p] = "name" /\ event'[p] = "logoff")
  BY <1>2, EventFacts DEF Sane, Shape, Mode, Dialogue, Passwd, Leaving
<1>9. \A x \in Player \ {p} : event'[x] = event[x] /\ mode'[x] = mode[x]
  BY DEF Sane, Shape
<1>10. Prompted(p)'
  BY <1>1, <1>3, <1>6, <1>7, <1>8 DEF Prompted, Stays, Passwd, Leaving
<1> QED BY <1>1, <1>2, <1>3, <1>4, <1>5, <1>7, <1>8, <1>9, <1>10, LoadSane

\* Who is at a prompt for a password.
LEMMA AtPassword ==
  ASSUME Sane, NEW p \in Player, NEW m \in Passwd \cup {"mail", "motd"}, Running(p, m)
  PROVE  /\ p \in cron \ on /\ Stays(p) /\ saved[p] \in Node /\ saved[p][1] = "resident"
         /\ saved[p][2] \in tree /\ ptr[saved[p]] # p /\ timer[p] # "none" /\ timer[p] # "start" /\ mode[p] # "wait"
<1>1. p \in cron /\ Stays(p) /\ mode[p] = m
  BY DEF Running, Stays, Leaving
<1>2. p \notin on /\ saved[p] # None /\ saved[p][1] = "resident" /\ ptr[saved[p]] # p
  BY <1>1 DEF Sane, Prompted, Passwd
<1>3. timer[p] # "none" /\ timer[p] # "start" /\ mode[p] # "wait"
  BY <1>1, <1>2 DEF Sane, Prompted, Passwd
<1>4. saved[p] \in Node
  BY <1>2 DEF Sane, Shape
<1>5. saved[p][2] \in tree
  BY <1>1, <1>2, <1>4, NodeFacts DEF Sane, Nodes
<1> QED BY <1>1, <1>2, <1>3, <1>4, <1>5

LEMMA PasswordWrongSane == ASSUME Sane, fatal = "no", NEW p \in Player, PasswordWrong(p) PROVE Sane'
<1>1. PICK m \in Passwd, q \in Player :
        /\ Running(p, m)
        /\ Loads(saved[p], q) /\ Loaded(saved[p], q)
        /\ \/ /\ \/ m = "passwd_1" /\ Prompt(p, "passwd_2")
                 \/ m = "passwd_2" /\ Prompt(p, "passwd_3")
                 \/ m = "passwd_3" /\ Prompt(p, "mail")
              /\ saved' = [saved EXCEPT ![q] = saved[p]]
           \/ /\ saved' = [[saved EXCEPT ![q] = saved[p]] EXCEPT ![p] = None]
              /\ event' = [event EXCEPT ![p] = "logoff"]
              /\ mode' = [mode EXCEPT ![p] = "none"]
        /\ UNCHANGED <<cron, on, io, hungup, timer, idle, tree, agreed, banished, nuking, count, current, fatal>>
  BY DEF PasswordWrong, Passwd
<1>2. PICK s : s = saved[p]
  OBVIOUS
<1>3. /\ p \in cron \ on /\ Stays(p) /\ s \in Node /\ s[1] = "resident"
      /\ s[2] \in tree /\ ptr[s] # p /\ timer[p] # "none" /\ timer[p] # "start" /\ mode[p] # "wait"
  BY <1>1, <1>2, AtPassword
<1>4. Loads(s, q) /\ Loaded(s, q)
  BY <1>1, <1>2
<1>5. ptr'[s] = q /\ q # p /\ s # None
  BY <1>3, <1>4, LoadsFacts, NodeFacts DEF Sane, Shape
<1>6. /\ saved' \in [Player -> Node \cup {None}] /\ saved'[q] = s
      /\ \A x \in Player \ {p, q} : saved'[x] = saved[x]
  BY <1>1, <1>2, <1>3, <1>5 DEF Sane, Shape
<1>7. event' \in [Player -> Event] /\ mode' \in [Player -> Mode]
  BY <1>1, EventFacts DEF Sane, Shape, Prompt, Mode, Dialogue, Passwd, Leaving
<1>8. \A x \in Player \ {p} : event'[x] = event[x] /\ mode'[x] = mode[x]
  BY <1>1 DEF Sane, Shape, Prompt
<1>9. \/ saved'[p] = s /\ mode'[p] \in {"passwd_2", "passwd_3", "mail"}
      \/ saved'[p] = None /\ mode'[p] = "none" /\ event'[p] = "logoff"
  BY <1>1, <1>2, <1>5 DEF Sane, Shape, Prompt
<1>10. Prompted(p)'
  BY <1>1, <1>3, <1>5, <1>9 DEF Prompted, Stays, Passwd, Leaving
<1> QED BY <1>1, <1>2, <1>3, <1>4, <1>6, <1>7, <1>8, <1>9, <1>10, LoadSane

-----------------------------------------------------------------------------
(* The connection is handed over to the player of the node. *)

\* What Reconnect and Attach have in common.
LEMMA HandOverSane ==
  ASSUME Sane, fatal = "no", NEW p \in Player, NEW s \in Node, NEW q \in Player, p \in cron \ on,
         s[1] = "resident", s[2] \in tree, ptr[s] # p, saved[p] \in {None, s},
         Loads(s, q), HandsOver(p, s, q),
         cron' = cron \cup {q}, on' = on \/ on' = on \cup {q}, idle' \subseteq on',
         mode' \in [Player -> Mode], timer' \in [Player -> {"none", "start", "logout"}],
         mode'[p] = "none", timer'[p] = "none",
         \/ q \in on' /\ mode'[q] = "base" /\ timer'[q] = "none"
         \/ q \notin on' /\ mode'[q] = "disclaimer" /\ timer'[q] \notin {"none", "start"},
         \A x \in Player \ {p, q} : mode'[x] = mode[x] /\ timer'[x] = timer[x],
         UNCHANGED <<tree, agreed, banished, nuking, fatal>>
  PROVE  Sane'
<1> USE DEF HandsOver
<1>1. /\ alloc' = alloc \cup {q} /\ ptr' \in [Node -> Player \cup {None}] /\ ptr'[s] = q
      /\ \A r \in Node \ {s} : ptr'[r] = ptr[r]
      /\ \A x \in alloc : ptr[s] = x => q = x
      /\ \A x \in alloc : ptr[s] # x => q # x
      /\ q \notin alloc => saved[q] = None /\ event[q] = "choose" /\ mode[q] = "none"
      /\ q \in alloc => saved[q] = s
  BY LoadsFacts
<1>2. p \in alloc /\ q # p /\ cron \subseteq alloc /\ on \subseteq cron
  BY <1>1 DEF Sane, Shape
<1>3. s # None /\ s = Resident(s[2]) /\ s[2] \in Name /\ s[1] # "newbie" /\ q # None
  BY NodeFacts, NoneAssumption
<1>4. /\ saved' \in [Player -> Node \cup {None}] /\ saved'[p] = None /\ saved'[q] = s
      /\ \A x \in Player \ {p, q} : saved'[x] = saved[x]
      /\ event' \in [Player -> Event] /\ event'[p] = "reconnection" /\ event'[q] = "choose"
      /\ \A x \in Player \ {p, q} : event'[x] = event[x]
      /\ io' \in [Player -> Conn \cup {None}] /\ \A x \in Player \ {p, q} : io'[x] = io[x]
  BY <1>2, EventFacts DEF Sane, Shape, Leaving
<1>5. Shape'
  BY <1>1, <1>2, <1>4 DEF Sane, Shape
<1>6. Blank'
  BY <1>1, <1>2, <1>4 DEF Sane, Shape, Blank
<1>7. \A x \in cron' : Prompted(x)'
  <2> SUFFICES ASSUME NEW x \in cron' PROVE Prompted(x)'
    OBVIOUS
  <2>1. CASE x = p
    BY <1>2, <1>4, <2>1 DEF Prompted, Stays, Leaving, Passwd
  <2>2. CASE x = q
    BY <1>1, <1>3, <1>4, <2>2 DEF Prompted, Stays, Leaving, Passwd
  <2>3. CASE x # p /\ x # q
    <3>1. /\ x \in cron /\ x \in Player /\ saved'[x] = saved[x] /\ event'[x] = event[x] /\ mode'[x] = mode[x]
          /\ timer'[x] = timer[x] /\ (x \in on' <=> x \in on)
      BY <1>2, <1>4, <2>3 DEF Sane, Shape
    <3>2. saved[x] # None => (ptr'[saved[x]] = x <=> ptr[saved[x]] = x)
      BY <1>1, <1>2, <2>3, <3>1 DEF Sane, Shape
    <3> QED BY <3>1, <3>2 DEF Prompted, Sane, Stays
  <2> QED BY <2>1, <2>2, <2>3
<1>8. Nodes'
  <2>1. \A x \in Player : IsNewbie(x)' => x \in cron' /\ ptr'[saved'[x]] = x
    <3> SUFFICES ASSUME NEW x \in Player, IsNewbie(x)' PROVE x \in cron' /\ ptr'[saved'[x]] = x
      OBVIOUS
    <3>1. x # p /\ x # q /\ saved'[x] = saved[x] /\ IsNewbie(x)
      BY <1>3, <1>4 DEF IsNewbie
    <3>2. x \in cron /\ ptr[saved[x]] = x /\ saved[x] \in Node /\ saved[x] # s
      BY <1>3, <3>1 DEF Sane, Shape, Nodes, IsNewbie
    <3> QED BY <1>1, <3>1, <3>2
  <2>2. \A x \in cron', n \in Name : saved'[x] = Resident(n) => n \in tree'
    BY <1>1, <1>2, <1>3, <1>4, NodeFacts DEF Sane, Shape, Nodes
  <2>3. \A x \in on', n \in Name : saved'[x] = Newbie(n) => n \notin tree'
    BY <1>2, <1>3, <1>4, NodeFacts DEF Sane, Shape, Nodes
  <2>4. \A n \in Name \ tree' : ptr'[Resident(n)] = None
    BY <1>1, <1>3, NodeFacts DEF Sane, Shape, Nodes
  <2> QED BY <2>1, <2>2, <2>3, <2>4 DEF Nodes
<1>9. Points'
  <2> SUFFICES ASSUME NEW r \in Node, ptr'[r] # None PROVE ptr'[r] \in alloc' /\ saved'[ptr'[r]] = r
    BY DEF Points
  <2>1. CASE r = s
    BY <1>1, <1>4, <2>1
  <2>2. CASE r # s
    <3>1. ptr'[r] = ptr[r] /\ ptr[r] \in alloc /\ saved[ptr[r]] = r /\ r # None
      BY <1>1, <2>2, NodeFacts DEF Sane, Points
    <3>2. ptr[r] # q /\ ptr[r] # p
      BY <1>1, <2>2, <3>1
    <3> QED BY <1>1, <1>4, <3>1, <3>2 DEF Sane, Shape
  <2> QED BY <2>1, <2>2
<1> QED BY <1>5, <1>6, <1>7, <1>8, <1>9 DEF Sane

LEMMA ReconnectSane ==
  ASSUME Sane, fatal = "no", NEW p \in Player, NEW s \in Node, NEW q \in Player, p \in cron \ on,
         s[1] = "resident", s[2] \in tree, ptr[s] # p, saved[p] \in {None, s}, Loads(s, q), Reconnect(p, s, q)
  PROVE  Sane'
<1> USE DEF Reconnect
<1>1. q # p /\ q \in cron /\ mode[q] = "base" /\ timer[q] = "none"
  BY DEF Sane, Shape, Prompted
<1>2. /\ mode' \in [Player -> Mode] /\ timer' \in [Player -> {"none", "start", "logout"}]
      /\ mode'[p] = "none" /\ timer'[p] = "none"
      /\ \A x \in Player \ {p} : mode'[x] = mode[x] /\ timer'[x] = timer[x]
  BY DEF Sane, Shape, Mode
<1>3. cron' = cron \cup {q} /\ on' = on /\ idle' \subseteq on'
  BY <1>1 DEF Sane, Shape
<1> QED BY <1>1, <1>2, <1>3, HandOverSane

LEMMA AttachSane ==
  ASSUME Sane, fatal = "no", NEW p \in Player, NEW s \in Node, NEW q \in Player, p \in cron \ on,
         timer[p] \notin {"none", "start"},
         s[1] = "resident", s[2] \in tree, ptr[s] # p, saved[p] \in {None, s}, Loads(s, q), Attach(p, s, q)
  PROVE  Sane'
<1>1. CASE timer[q] # "none"
  BY <1>1, StopsSane DEF Attach
<1>2. CASE timer[q] = "none"
  <2>1. q # p
    BY <1>2
  <2>2. HandsOver(p, s, q) /\ cron' = cron \cup {q} /\ UNCHANGED <<tree, agreed, banished, nuking, fatal>> /\ q \notin on
    BY <1>2 DEF Attach
  <2>3. CASE s \in agreed
    <3>1. /\ on' = on \cup {q} /\ idle' = idle \cup {q} /\ timer' = [timer EXCEPT ![p] = "none"]
          /\ mode' = [mode EXCEPT ![p] = "none", ![q] = "base"]
      BY <1>2, <2>3 DEF Attach
    <3>2. /\ mode' \in [Player -> Mode] /\ timer' \in [Player -> {"none", "start", "logout"}]
          /\ mode'[p] = "none" /\ timer'[p] = "none" /\ mode'[q] = "base" /\ timer'[q] = "none"
          /\ \A x \in Player \ {p, q} : mode'[x] = mode[x] /\ timer'[x] = timer[x]
          /\ idle' \subseteq on' /\ q \in on'
      BY <1>2, <2>1, <3>1 DEF Sane, Shape, Mode
    <3> QED BY <2>2, <3>1, <3>2, HandOverSane
  <2>4. CASE s \notin agreed
    <3>1. /\ UNCHANGED <<on, idle>> /\ timer' = [timer EXCEPT ![p] = "none", ![q] = timer[p]]
          /\ mode' = [mode EXCEPT ![p] = "none", ![q] = "disclaimer"]
      BY <1>2, <2>4 DEF Attach
    <3>2. /\ mode' \in [Player -> Mode] /\ timer' \in [Player -> {"none", "start", "logout"}]
          /\ mode'[p] = "none" /\ timer'[p] = "none" /\ mode'[q] = "disclaimer" /\ timer'[q] \notin {"none", "start"}
          /\ \A x \in Player \ {p, q} : mode'[x] = mode[x] /\ timer'[x] = timer[x]
          /\ idle' \subseteq on' /\ q \notin on' /\ on' = on
      BY <2>1, <2>2, <3>1 DEF Sane, Shape, Mode, Dialogue
    <3> QED BY <2>2, <3>1, <3>2, HandOverSane
  <2> QED BY <2>3, <2>4
<1> QED BY <1>1, <1>2

LEMMA LogonResidentSane ==
  ASSUME Sane, fatal = "no", NEW p \in Player, NEW s \in Node, p \in cron \ on, Stays(p), mode[p] # "wait",
         s[2] \in tree, saved[p] \in {None, s}, LogonResident(p, s)
  PROVE  Sane'
<1>1. PICK q \in Player : Loads(s, q) /\ (Reconnect(p, s, q) \/ Attach(p, s, q) \/ Motd(p, s, q))
  BY DEF LogonResident
<1>2. s[1] = "resident" /\ ptr[s] # p
  BY DEF LogonResident
<1>3. timer[p] \notin {"none", "start"}
  BY DEF Sane, Prompted
<1> QED BY <1>1, <1>2, <1>3, ReconnectSane, AttachSane, MotdSane
LEMMA FullyOnSane ==
  ASSUME Sane, fatal = "no", NEW p \in Player, NEW s \in Node, s = saved[p], p \in cron \ on, Stays(p),
         mode[p] # "wait", FullyOn(p, s)
  PROVE  Sane'
<1> DEFINE taken == s[1] = "newbie" /\ s[2] \in tree
<1>1. CASE taken
  BY <1>1, StopsSane DEF FullyOn
<1>2. CASE ~taken
  <2>1. /\ ptr[s] = p /\ mode' = [mode EXCEPT ![p] = "base"] /\ event' = [event EXCEPT ![p] = "choose"]
        /\ on' = on \cup {p} /\ idle' = idle \cup {p} /\ timer' = [timer EXCEPT ![p] = "none"]
        /\ UNCHANGED <<alloc, cron, saved, io, hungup, ptr, tree, agreed, banished, nuking, fatal>>
    BY <1>2 DEF FullyOn, Prompt, nodes
  <2>2. Shape' /\ Blank'
    BY <2>1, EventFacts DEF Sane, Shape, Blank, Mode, Dialogue
  <2>3. \A x \in cron' : Prompted(x)'
    <3> SUFFICES ASSUME NEW x \in cron PROVE Prompted(x)'
      BY <2>1
    <3>1. CASE x = p
      BY <2>1, <3>1, NodeFacts DEF Prompted, Sane, Shape, Stays, Passwd
    <3>2. CASE x # p
      BY <2>1, <3>2 DEF Prompted, Sane, Shape, Stays
    <3> QED BY <3>1, <3>2
  <2>4. Nodes' /\ Points'
    <3>1. \A n \in Name : s = Newbie(n) => n \notin tree
      BY <1>2, NodeFacts
    <3> QED BY <2>1, <3>1 DEF Sane, Nodes, Points, IsNewbie
  <2> QED BY <2>1, <2>2, <2>3, <2>4 DEF Sane
<1> QED BY <1>1, <1>2

-----------------------------------------------------------------------------
(* The dialogue of residents and newbies. *)

\* The logon program, called with the node that the player stands for.
LEMMA LogonProgramSane ==
  ASSUME Sane, fatal = "no", NEW p \in Player, p \in cron \ on, Stays(p), mode[p] # "wait", saved[p] # None,
         LogonProgram(p, saved[p])
  PROVE  Sane'
<1>1. PICK s \in Node : s = saved[p]
  BY DEF Sane, Shape
<1>2. LogonResident(p, s) => s[2] \in tree
  BY <1>1, NodeFacts DEF Sane, Nodes, LogonResident
<1>3. LogonResident(p, s) \/ AskDisclaimer(p, s) \/ FullyOn(p, s)
  BY <1>1 DEF LogonProgram
<1> QED BY <1>1, <1>2, <1>3, LogonResidentSane, AskDisclaimerSane, FullyOnSane

LEMMA NameResidentSane ==
  ASSUME Sane, fatal = "no", NEW p \in Player, NEW n \in Name, NameResident(p, n) PROVE Sane'
<1>1. Running(p, "name") /\ n \in tree
  BY DEF NameResident
<1>2. p \in cron \ on /\ Stays(p) /\ mode[p] = "name" /\ saved[p] = None
  BY <1>1 DEF Running, Stays, Leaving, Sane, Prompted
<1>3. CASE LogonProgram(p, Resident(n))
  <2>1. PICK s \in Node : s = Resident(n)
    BY NodeFacts
  <2>2. ptr[s] # p
    BY <1>2, <2>1, NodeFacts, NoneAssumption DEF Sane, Points
  <2>3. LogonResident(p, s)
    BY <1>3, <2>1, <2>2 DEF LogonProgram, AskDisclaimer, FullyOn
  <2> QED BY <1>1, <1>2, <2>1, <2>3, NodeFacts, LogonResidentSane
<1>4. CASE ~LogonProgram(p, Resident(n))
  <2>1. PICK q \in Player \ {p} :
          /\ Loads(Resident(n), q) /\ Loaded(Resident(n), q)
          /\ saved' = [saved EXCEPT ![p] = Resident(n), ![q] = Resident(n)]
    BY <1>4 DEF NameResident
  <2> QED BY <1>1, <1>4, <2>1, AskPasswordSane DEF NameResident
<1> QED BY <1>3, <1>4

LEMMA PasswordRightSane ==
  ASSUME Sane, fatal = "no", NEW p \in Player, PasswordRight(p) PROVE Sane'
<1>1. PICK m \in Passwd : Running(p, m)
  BY DEF PasswordRight
<1>2. p \in cron \ on /\ Stays(p) /\ mode[p] # "wait" /\ saved[p] \in Node
  BY <1>1, AtPassword
<1> QED BY <1>2, NodeFacts, LogonProgramSane DEF PasswordRight

LEMMA MotdReadSane ==
  ASSUME Sane, fatal = "no", NEW p \in Player, MotdRead(p) PROVE Sane'
<1>1. CASE ptr[saved[p]] = None
  BY <1>1, StopsSane DEF MotdRead
<1>2. CASE ptr[saved[p]] # None
  <2>1. p \in cron \ on /\ Stays(p) /\ mode[p] # "wait" /\ saved[p] \in Node
    BY AtPassword DEF MotdRead
  <2> QED BY <1>2, <2>1, NodeFacts, LogonProgramSane DEF MotdRead
<1> QED BY <1>1, <1>2

LEMMA NewbieAnswersSane ==
  ASSUME Sane, fatal = "no", NEW p \in Player, NewbieAnswers(p) \/ Finish(p) PROVE Sane'
<1>1. p \in cron /\ Stays(p) /\ mode[p] \in {"newbie", "finish"}
  BY DEF NewbieAnswers, Finish, Running, Stays, Leaving
<1>2. p \notin on /\ saved[p] # None
  BY <1>1 DEF Sane, Prompted
<1> QED BY <1>1, <1>2, LogonProgramSane DEF NewbieAnswers, Finish

LEMMA NameNewbieSane ==
  ASSUME Sane, fatal = "no", NEW p \in Player, NEW n \in Name, NameNewbie(p, n) PROVE Sane'
<1>1. PICK s \in Node : s = Newbie(n)
  BY NodeFacts
<1>2. /\ Running(p, "name") /\ n \notin tree
      /\ \A q \in cron : saved[q] # None => saved[q][2] # n
      /\ saved' = [saved EXCEPT ![p] = s] /\ ptr' = [ptr EXCEPT ![s] = p]
      /\ \/ Prompt(p, "newbie") /\ timer' = [timer EXCEPT ![p] = "logout"]
         \/ event' = [event EXCEPT ![p] = "logoff"] /\ UNCHANGED <<mode, timer>>
      /\ UNCHANGED <<alloc, cron, on, io, hungup, idle, tree, agreed, banished, nuking, fatal>>
  BY <1>1 DEF NameNewbie
<1>3. p \in cron \ on /\ Stays(p) /\ mode[p] = "name" /\ saved[p] = None /\ timer[p] # "none" /\ timer[p] # "start"
  BY <1>2 DEF Running, Stays, Leaving, Sane, Prompted
<1>4. s[1] = "newbie" /\ s[2] = n /\ s # None /\ \A m \in Name : s # Resident(m) /\ (s = Newbie(m) => m = n)
  BY <1>1, NodeFacts
<1>5. \A x \in Player : saved[x] # s
  BY <1>2, <1>4 DEF Sane, Nodes, IsNewbie
<1>6. saved'[p] = s /\ ptr'[s] = p /\ (\A x \in Player \ {p} : saved'[x] = saved[x]) /\ \A r \in Node \ {s} : ptr'[r] = ptr[r]
  BY <1>2 DEF Sane, Shape
<1>7. /\ event' \in [Player -> Event] /\ mode' \in [Player -> Mode] /\ timer' \in [Player -> {"none", "start", "logout"}]
      /\ \/ mode'[p] = "newbie" /\ timer'[p] = "logout"
         \/ mode'[p] = "name" /\ event'[p] = "logoff" /\ timer'[p] = timer[p]
      /\ \A x \in Player \ {p} : event'[x] = event[x] /\ mode'[x] = mode[x] /\ timer'[x] = timer[x]
  BY <1>2, <1>3, EventFacts DEF Prompt, Sane, Shape, Mode, Dialogue, Leaving
<1>8. Shape'
  BY <1>2, <1>7 DEF Sane, Shape
<1>9. Blank'
  BY <1>2, <1>3, <1>6, <1>7 DEF Sane, Shape, Blank
<1>10. \A x \in cron' : Prompted(x)'
  <2> SUFFICES ASSUME NEW x \in cron PROVE Prompted(x)'
    BY <1>2
  <2>1. CASE x = p
    BY <1>2, <1>3, <1>4, <1>6, <1>7, <2>1 DEF Prompted, Stays, Passwd, Leaving
  <2>2. CASE x # p
    <3>1. saved[x] # None => saved[x] \in Node \ {s}
      BY <1>5 DEF Sane, Shape
    <3>2. x \in Player
      BY DEF Sane, Shape
    <3> QED BY <1>2, <1>6, <1>7, <2>2, <3>1, <3>2 DEF Prompted, Sane, Stays
  <2> QED BY <2>1, <2>2
<1>11. Nodes'
  <2>1. \A x \in Player : IsNewbie(x)' => x \in cron' /\ ptr'[saved'[x]] = x
    BY <1>2, <1>3, <1>5, <1>6 DEF Sane, Shape, Nodes, IsNewbie
  <2>2. \A x \in cron', m \in Name : saved'[x] = Resident(m) => m \in tree'
    BY <1>2, <1>4, <1>6 DEF Sane, Shape, Nodes
  <2>3. \A x \in on', m \in Name : saved'[x] = Newbie(m) => m \notin tree'
    BY <1>2, <1>4, <1>6 DEF Sane, Shape, Nodes
  <2>4. \A m \in Name \ tree' : ptr'[Resident(m)] = None
    BY <1>2, <1>4, <1>6, NodeFacts DEF Sane, Nodes
  <2> QED BY <2>1, <2>2, <2>3, <2>4 DEF Nodes
<1>12. Points'
  <2> SUFFICES ASSUME NEW r \in Node, ptr'[r] # None PROVE ptr'[r] \in alloc' /\ saved'[ptr'[r]] = r
    BY DEF Points
  <2>1. CASE r = s
    BY <1>2, <1>3, <1>6, <2>1 DEF Sane, Shape
  <2>2. CASE r # s
    <3>1. ptr'[r] = ptr[r] /\ ptr[r] \in alloc /\ saved[ptr[r]] = r
      BY <1>6, <2>2 DEF Sane, Points
    <3>2. ptr[r] # p
      BY <1>3, <3>1, NodeFacts
    <3> QED BY <1>2, <1>6, <3>1, <3>2 DEF Sane, Shape
  <2> QED BY <2>1, <2>2
<1> QED BY <1>2, <1>8, <1>9, <1>10, <1>11, <1>12 DEF Sane

LEMMA MailPasswordSane ==
  ASSUME Sane, fatal = "no", NEW p \in Player, NEW yes \in BOOLEAN, MailPassword(p, yes) PROVE Sane'
<1> USE DEF MailPassword, Fails, nodes
<1>1. CASE yes /\ ptr[saved[p]] = None
  BY <1>1, StopsSane
<1>2. CASE ~(yes /\ ptr[saved[p]] = None)
  <2>1. p \in cron \ on /\ saved[p] \in Node /\ saved[p][1] = "resident" /\ ptr[saved[p]] # p
    BY AtPassword
  <2>2. Shape' /\ Blank'
    BY <1>2, <2>1, EventFacts DEF Sane, Shape, Blank, Mode, Leaving
  <2>3. \A x \in cron' : Prompted(x)'
    <3> SUFFICES ASSUME NEW x \in cron PROVE Prompted(x)'
      BY <1>2
    <3>1. CASE x = p
      <4>1. timer'[p] # "start" /\ p \notin on' /\ saved'[p] = None
        BY <1>2, <2>1, AtPassword DEF Sane, Shape
      <4>2. mode'[p] = "none" /\ event'[p] = "logoff"
        BY <1>2 DEF Sane, Shape
      <4> QED BY <3>1, <4>1, <4>2 DEF Prompted, Stays, Passwd, Leaving
    <3>2. CASE x # p
      BY <1>2, <3>2 DEF Prompted, Sane, Shape, Stays
    <3> QED BY <3>1, <3>2
  <2>4. Nodes'
    BY <1>2, <2>1, NodeFacts DEF Sane, Shape, Nodes, IsNewbie
  <2>5. Points'
    BY <1>2, <2>1 DEF Sane, Shape, Points
  <2> QED BY <1>2, <2>2, <2>3, <2>4, <2>5 DEF Sane
<1> QED BY <1>1, <1>2
-----------------------------------------------------------------------------
(* Residency, staff commands and unloading. *)

LEMMA BecomeResidentSane ==
  ASSUME Sane, fatal = "no", NEW p \in Player, BecomeResident(p) PROVE Sane'
<1>1. p \in on /\ Stays(p) /\ mode[p] = "base" /\ p \in cron /\ saved[p] \in Node /\ saved[p][1] = "newbie"
  BY DEF BecomeResident, Running, Stays, Leaving, Sane, Shape, Prompted, IsNewbie
<1>2. PICK n \in Name : n = saved[p][2]
  BY <1>1, NodeFacts
<1>3. PICK s \in Node, r \in Node : s = Newbie(n) /\ r = Resident(n)
  BY NodeFacts
<1>4. /\ saved[p] = s /\ s[1] = "newbie" /\ r[1] = "resident" /\ s # None /\ r # None /\ s # r
      /\ \A m \in Name : (s = Newbie(m) => m = n) /\ (r = Resident(m) => m = n) /\ r # Newbie(m) /\ s # Resident(m)
  BY <1>1, <1>2, <1>3, NodeFacts
<1>5. /\ tree' = tree \cup {n} /\ saved' = [saved EXCEPT ![p] = r]
      /\ ptr' = [ptr EXCEPT ![s] = None, ![r] = p] /\ agreed' = (agreed \ {s}) \cup {r}
      /\ event' = [event EXCEPT ![p] = "choose"]
      /\ UNCHANGED <<alloc, cron, on, io, hungup, mode, timer, idle, banished, nuking, fatal>>
  BY <1>2, <1>3, <1>4 DEF BecomeResident
<1>6. n \notin tree /\ ptr[r] = None /\ ptr[s] = p
  BY <1>1, <1>3, <1>4 DEF Sane, Nodes, Prompted
<1>7. /\ saved'[p] = r /\ ptr'[s] = None /\ ptr'[r] = p /\ (\A x \in Player \ {p} : saved'[x] = saved[x])
      /\ \A t \in Node \ {r, s} : ptr'[t] = ptr[t]
  BY <1>4, <1>5 DEF Sane, Shape
<1>8. \A x \in Player \ {p} : saved[x] # s /\ (x \in cron => saved[x] # r)
  BY <1>3, <1>4, <1>6 DEF Sane, Nodes, IsNewbie
<1>9. Shape' /\ Blank'
  BY <1>1, <1>5, EventFacts DEF Sane, Shape, Blank
<1>10. \A x \in cron' : Prompted(x)'
  <2> SUFFICES ASSUME NEW x \in cron PROVE Prompted(x)'
    BY <1>5
  <2>1. CASE x = p
    BY <1>1, <1>4, <1>5, <1>7, <2>1 DEF Prompted, Sane, Passwd
  <2>2. CASE x # p
    <3>1. saved[x] # None => saved[x] \in Node \ {r, s}
      BY <1>8, <2>2 DEF Sane, Shape
    <3>2. x \in Player /\ event'[x] = event[x]
      BY <1>5, <2>2 DEF Sane, Shape
    <3>3. saved'[x] = saved[x] /\ (saved[x] # None => ptr'[saved[x]] = ptr[saved[x]])
      BY <1>7, <2>2, <3>1, <3>2
    <3>4. Prompted(x)
      BY DEF Sane
    <3> QED BY <1>5, <3>2, <3>3, <3>4 DEF Prompted, Stays
  <2> QED BY <2>1, <2>2
<1>11. Nodes'
  <2>1. \A x \in Player : IsNewbie(x)' => x \in cron' /\ ptr'[saved'[x]] = x
    <3> SUFFICES ASSUME NEW x \in Player, IsNewbie(x)' PROVE x \in cron' /\ ptr'[saved'[x]] = x
      OBVIOUS
    <3>1. x # p
      BY <1>4, <1>7 DEF IsNewbie
    <3>2. saved'[x] = saved[x] /\ IsNewbie(x) /\ saved[x] # s /\ saved[x] # r /\ saved[x] \in Node
      BY <1>4, <1>7, <1>8, <3>1 DEF IsNewbie, Sane, Shape
    <3>3. x \in cron /\ ptr[saved[x]] = x
      BY <3>2 DEF Sane, Nodes
    <3>4. ptr'[saved[x]] = ptr[saved[x]] /\ cron' = cron
      BY <1>5, <1>7, <3>2
    <3> QED BY <3>2, <3>3, <3>4
  <2>2. \A x \in cron', m \in Name : saved'[x] = Resident(m) => m \in tree'
    BY <1>4, <1>5, <1>7 DEF Sane, Shape, Nodes
  <2>3. \A x \in on', m \in Name : saved'[x] = Newbie(m) => m \notin tree'
    <3> SUFFICES ASSUME NEW x \in on, NEW m \in Name, saved'[x] = Newbie(m) PROVE m \notin tree'
      BY <1>5
    <3>1. x # p /\ x \in Player
      BY <1>4, <1>7 DEF Sane, Shape
    <3>2. saved[x] = Newbie(m) /\ m # n
      BY <1>3, <1>7, <1>8, <3>1
    <3> QED BY <1>5, <3>2 DEF Sane, Nodes
  <2>4. \A m \in Name \ tree' : ptr'[Resident(m)] = None
    <3> SUFFICES ASSUME NEW m \in Name \ tree' PROVE ptr'[Resident(m)] = None
      OBVIOUS
    <3>1. m # n /\ m \notin tree
      BY <1>5
    <3>2. Resident(m) \in Node \ {r, s}
      BY <1>4, <3>1, NodeFacts
    <3> QED BY <1>7, <3>1, <3>2 DEF Sane, Nodes
  <2> QED BY <2>1, <2>2, <2>3, <2>4 DEF Nodes
<1>12. Points'
  <2> SUFFICES ASSUME NEW t \in Node, ptr'[t] # None PROVE ptr'[t] \in alloc' /\ saved'[ptr'[t]] = t
    BY DEF Points
  <2>1. CASE t = r
    BY <1>1, <1>5, <1>7, <2>1 DEF Sane, Shape
  <2>2. CASE t # r
    <3>1. t # s /\ ptr'[t] = ptr[t] /\ ptr[t] \in alloc /\ saved[ptr[t]] = t
      BY <1>7, <2>2 DEF Sane, Points
    <3>2. ptr[t] # p
      BY <1>4, <3>1
    <3> QED BY <1>5, <1>7, <3>1, <3>2 DEF Sane, Shape
  <2> QED BY <2>1, <2>2
<1> QED BY <1>5, <1>9, <1>10, <1>11, <1>12 DEF Sane

\* A player of a node is loaded for a command of somebody else.
LEMMA FetchSane ==
  ASSUME Sane, fatal = "no", NEW n \in Name, NEW s \in Node, s = Resident(n), NEW q \in Player,
         Loads(s, q), Loaded(s, q), saved' = [saved EXCEPT ![q] = s],
         n \in tree', tree \subseteq tree', tree' \subseteq tree \cup {n}, \A x \in on : saved[x] # Newbie(n),
         banished' \subseteq Name,
         UNCHANGED <<cron, on, event, io, hungup, mode, timer, idle, agreed, nuking, fatal>>
  PROVE  Sane'
<1>1. /\ alloc' = alloc \cup {q} /\ ptr' \in [Node -> Player \cup {None}] /\ ptr'[s] = q
      /\ \A r \in Node \ {s} : ptr'[r] = ptr[r]
      /\ \A x \in alloc : ptr[s] = x => q = x
      /\ \A x \in alloc : ptr[s] # x => q # x
      /\ q \notin alloc => saved[q] = None /\ event[q] = "choose" /\ mode[q] = "none"
      /\ q \in alloc => saved[q] = s
  BY LoadsFacts
<1>2. s # None /\ s[1] # "newbie" /\ \A m \in Name : s # Newbie(m) /\ (s = Resident(m) => m = n)
  BY NodeFacts
<1>3. saved' \in [Player -> Node \cup {None}] /\ saved'[q] = s /\ \A x \in Player \ {q} : saved'[x] = saved[x]
  BY DEF Sane, Shape
<1>4. \A x \in alloc : saved'[x] = saved[x]
  BY <1>1, <1>3 DEF Sane, Shape
<1>5. Shape' /\ Blank'
  BY <1>1, <1>3 DEF Sane, Shape, Blank
<1>6. \A x \in cron' : Prompted(x)'
  <2> SUFFICES ASSUME NEW x \in cron PROVE Prompted(x)'
    OBVIOUS
  <2>1. x \in alloc /\ saved'[x] = saved[x]
    BY <1>4 DEF Sane, Shape
  <2>2. saved[x] # None => (ptr'[saved[x]] = x <=> ptr[saved[x]] = x)
    BY <1>1, <2>1 DEF Sane, Shape
  <2> QED BY <2>1, <2>2 DEF Prompted, Sane, Stays
<1>7. Nodes'
  <2>1. \A x \in Player : IsNewbie(x)' => x \in cron' /\ ptr'[saved'[x]] = x
    BY <1>1, <1>2, <1>3 DEF Sane, Shape, Nodes, IsNewbie
  <2>2. \A x \in cron', m \in Name : saved'[x] = Resident(m) => m \in tree'
    BY <1>4 DEF Sane, Shape, Nodes
  <2>3. \A x \in on', m \in Name : saved'[x] = Newbie(m) => m \notin tree'
    BY <1>4 DEF Sane, Shape, Nodes
  <2>4. \A m \in Name \ tree' : ptr'[Resident(m)] = None
    BY <1>1, <1>2, NodeFacts DEF Sane, Nodes
  <2> QED BY <2>1, <2>2, <2>3, <2>4 DEF Nodes
<1>8. Points'
  <2> SUFFICES ASSUME NEW r \in Node, ptr'[r] # None PROVE ptr'[r] \in alloc' /\ saved'[ptr'[r]] = r
    BY DEF Points
  <2>1. CASE r = s
    BY <1>1, <1>3, <2>1
  <2>2. CASE r # s
    BY <1>1, <1>4, <2>2 DEF Sane, Points
  <2> QED BY <2>1, <2>2
<1> QED BY <1>5, <1>6, <1>7, <1>8 DEF Sane

LEMMA MakeSane ==
  ASSUME Sane, fatal = "no", NEW n \in Name, NEW q \in Player, Make(n, q) PROVE Sane'
<1>1. PICK s \in Node : s = Resident(n)
  BY NodeFacts
<1>2. Loads(s, q)
  BY <1>1 DEF Make, Loads, Sane, Nodes
<1> QED BY <1>1, <1>2, FetchSane DEF Make, Sane, Shape

LEMMA BanishSane ==
  ASSUME Sane, fatal = "no", NEW n \in Name, Banish(n) PROVE Sane'
<1>1. PICK s \in Node : s = Resident(n)
  BY NodeFacts
<1>2. PICK q \in Player :
        /\ n \in tree /\ Loads(s, q) /\ Loaded(s, q) /\ banished' = banished \cup {n}
        /\ IF q \in on THEN LogoffAll(s) ELSE saved' = [saved EXCEPT ![q] = s] /\ UNCHANGED event
        /\ UNCHANGED <<cron, on, io, hungup, mode, timer, idle, tree, agreed, nuking, count, current, fatal>>
  BY <1>1 DEF Banish
<1>3. CASE q \notin on
  <2>1. \A x \in on : saved[x] # Newbie(n)
    BY <1>2 DEF Sane, Nodes
  <2> QED BY <1>1, <1>2, <1>3, <2>1, FetchSane DEF Sane, Shape
<1>4. CASE q \in on
  <2>1. q \in alloc /\ saved[q] = s /\ ptr[s] = q
    <3>1. q \in alloc
      BY <1>4 DEF Sane, Shape
    <3>2. ptr[s] = q
      BY <1>2, <3>1 DEF Loads
    <3> QED BY <1>2, <3>1, <3>2, LoadsFacts
  <2>2. alloc' = alloc /\ ptr' = ptr
    BY <1>2, <2>1 DEF Loaded, Sane, Shape
  <2>3. /\ saved' \in [Player -> Node \cup {None}] /\ event' \in [Player -> Event]
        /\ \A x \in Player : saved'[x] = IF x \in cron \ on /\ saved[x] = s THEN None ELSE saved[x]
        /\ \A x \in Player : event'[x] = IF x \in cron /\ saved[x] = s THEN Upgrade(event[x], "logoff") ELSE event[x]
    <3>1. LogoffAll(s)
      BY <1>2, <1>4
    <3>2. saved' = [x \in Player |-> IF x \in cron \ on /\ saved[x] = s THEN None ELSE saved[x]]
      BY <3>1 DEF LogoffAll, Mine
    <3>3. event' = [x \in Player |-> IF x \in cron /\ saved[x] = s THEN Upgrade(event[x], "logoff") ELSE event[x]]
      BY <3>1 DEF LogoffAll, UserLogoff, Mine
    <3>4. \A x \in Player : event[x] \in Event /\ Upgrade(event[x], "logoff") \in Event
      BY EventFacts DEF Sane, Shape
    <3> QED BY <3>2, <3>3, <3>4 DEF Sane, Shape
  <2>4. s # None /\ s[1] # "newbie"
    BY <1>1, NodeFacts
  <2>5. Shape' /\ Blank'
    BY <1>2, <2>2, <2>3 DEF Sane, Shape, Blank
  <2>6. \A x \in cron' : Prompted(x)'
    <3> SUFFICES ASSUME NEW x \in cron PROVE Prompted(x)'
      BY <1>2
    <3>1. CASE saved[x] = s
      <4>1. event'[x] \in Leaving /\ x \in Player
        BY <2>3, <3>1, EventFacts DEF Sane, Shape
      <4>2. x \in on => saved'[x] = s
        BY <2>3, <3>1, <4>1
      <4> QED BY <1>2, <2>2, <2>3, <3>1, <4>1, <4>2, <2>4 DEF Prompted, Sane, Stays
    <3>2. CASE saved[x] # s
      BY <1>2, <2>2, <2>3, <3>2 DEF Prompted, Sane, Shape, Stays
    <3> QED BY <3>1, <3>2
  <2>7. Nodes'
    BY <1>2, <2>2, <2>3, <2>4, NodeFacts DEF Sane, Shape, Nodes, IsNewbie
  <2>8. Points'
    BY <1>4, <2>1, <2>2, <2>3 DEF Sane, Shape, Points
  <2> QED BY <1>2, <2>5, <2>6, <2>7, <2>8 DEF Sane
<1> QED BY <1>3, <1>4

LEMMA TimedNukeSane ==
  ASSUME Sane, fatal = "no", NEW n \in Name, TimedNuke(n) PROVE Sane'
<1>1. PICK s \in Node : s = Resident(n)
  BY NodeFacts
<1>2. CASE Mine(s) # {}
  BY <1>1, <1>2, StopsSane DEF TimedNuke
<1>3. CASE Mine(s) = {}
  <2>1. /\ nuking' = nuking \ {n} /\ tree' = tree \ {n} /\ banished' = banished \ {n}
        /\ agreed' = agreed \ {s} /\ ptr' = [ptr EXCEPT ![s] = None]
        /\ UNCHANGED <<alloc, cron, saved, on, io, hungup, idle, event, mode, timer, fatal>>
    BY <1>1, <1>3 DEF TimedNuke, dialogue
  <2>2. \A x \in cron : saved[x] # s
    BY <1>3 DEF Mine
  <2>3. ptr'[s] = None /\ \A r \in Node \ {s} : ptr'[r] = ptr[r]
    BY <2>1 DEF Sane, Shape
  <2>4. Shape' /\ Blank'
    BY <2>1 DEF Sane, Shape, Blank
  <2>5. \A x \in cron' : Prompted(x)'
    <3> SUFFICES ASSUME NEW x \in cron PROVE Prompted(x)'
      BY <2>1
    <3>1. saved[x] # None => saved[x] \in Node \ {s}
      BY <2>2 DEF Sane, Shape
    <3> QED BY <2>1, <2>3, <3>1 DEF Prompted, Sane, Stays
  <2>6. Nodes'
    BY <1>1, <2>1, <2>2, <2>3, NodeFacts DEF Sane, Shape, Nodes, IsNewbie
  <2>7. Points'
    BY <2>1, <2>3 DEF Sane, Points
  <2> QED BY <2>1, <2>4, <2>5, <2>6, <2>7 DEF Sane
<1> QED BY <1>2, <1>3

LEMMA UnloadSane ==
  ASSUME Sane, fatal = "no", NEW n \in Name, Unload(n) PROVE Sane'
<1>1. PICK s \in Node : s = Resident(n)
  BY NodeFacts
<1>2. PICK q \in Player : q = ptr[s] /\ q # None
  BY <1>1 DEF Unload, Sane, Shape
<1>3. CASE q \in cron
  BY <1>1, <1>2, <1>3, StopsSane DEF Unload
<1>4. CASE q \notin cron
  <2>1. /\ alloc' = alloc \ {q} /\ event' = [event EXCEPT ![q] = "choose"] /\ saved' = [saved EXCEPT ![q] = None]
        /\ mode' = [mode EXCEPT ![q] = "none"] /\ ptr' = [ptr EXCEPT ![s] = None]
        /\ UNCHANGED <<cron, on, io, hungup, timer, idle, tree, agreed, banished, nuking, fatal>>
    BY <1>1, <1>2, <1>4 DEF Unload, Free
  <2>2. saved[q] = s /\ s # None
    BY <1>2, NodeFacts DEF Sane, Points
  <2>3. ptr'[s] = None /\ \A r \in Node \ {s} : ptr'[r] = ptr[r]
    BY <2>1 DEF Sane, Shape
  <2>4. Shape' /\ Blank'
    BY <1>4, <2>1, EventFacts DEF Sane, Shape, Blank, Mode, Leaving
  <2>5. \A x \in cron' : Prompted(x)'
    <3> SUFFICES ASSUME NEW x \in cron PROVE Prompted(x)'
      BY <2>1
    <3>1. x # q /\ x \in Player /\ x # None
      BY <1>4, NoneAssumption DEF Sane, Shape
    <3>2. saved[x] # None => (ptr'[saved[x]] = x <=> ptr[saved[x]] = x)
      BY <1>2, <2>3, <3>1 DEF Sane, Shape
    <3>3. event'[x] = event[x] /\ mode'[x] = mode[x] /\ saved'[x] = saved[x]
      BY <2>1, <3>1 DEF Sane, Shape
    <3> QED BY <2>1, <3>2, <3>3 DEF Prompted, Sane, Stays
  <2>6. Nodes'
    <3>1. \A x \in Player : IsNewbie(x)' => x \in cron' /\ ptr'[saved'[x]] = x
      BY <1>1, <2>1, <2>3, NodeFacts DEF Sane, Shape, Nodes, IsNewbie
    <3>2. \A x \in cron', m \in Name : saved'[x] = Resident(m) => m \in tree'
      BY <1>4, <2>1 DEF Sane, Shape, Nodes
    <3>3. \A x \in on', m \in Name : saved'[x] = Newbie(m) => m \notin tree'
      BY <1>4, <2>1 DEF Sane, Shape, Nodes
    <3>4. \A m \in Name \ tree' : ptr'[Resident(m)] = None
      BY <2>1, <2>3, NodeFacts DEF Sane, Nodes
    <3> QED BY <3>1, <3>2, <3>3, <3>4 DEF Nodes
  <2>7. Points'
    BY <2>1, <2>2, <2>3 DEF Sane, Shape, Points
  <2> QED BY <2>1, <2>4, <2>5, <2>6, <2>7 DEF Sane
<1> QED BY <1>3, <1>4

-----------------------------------------------------------------------------
(* Every behaviour. *)

LEMMA SaneInit == ASSUME Init PROVE Sane
<1> USE DEF Init
<1>1. Shape
  <2>1. agreed \subseteq Node /\ tree \subseteq Name
    BY NameAssumption, NodeFacts
  <2>2. event \in [Player -> Event] /\ mode \in [Player -> Mode]
    BY DEF Event, Rank, Mode
  <2> QED BY <2>1, <2>2 DEF Shape
<1>2. Blank /\ (\A x \in cron : Prompted(x)) /\ Nodes /\ Points
  BY NodeFacts DEF Blank, Nodes, IsNewbie, Points
<1> QED BY <1>1, <1>2 DEF Sane

LEMMA SaneNext == ASSUME Sane, Next PROVE Sane'
<1>1. fatal = "no"
  BY DEF Next
<1>2. ASSUME NEW p \in Player, (\E c \in Conn : Accept(p, c)) \/ (\E e \in Event : Choose(p, e)) PROVE Sane'
  BY <1>2, AcceptSane, ChooseSane
<1>3. ASSUME NEW p \in Player, Visit(p) PROVE Sane'
  BY <1>3, InputSane, NewbieQuitsSane, StrangerQuitsSane, ResidentQuitsSane DEF Visit
<1>4. ASSUME NEW p \in Player, RunLine(p) PROVE Sane'
  BY <1>1, <1>4, PlainLineSane, NameResidentSane, NameNewbieSane, PasswordRightSane, PasswordWrongSane,
     MailPasswordSane, MotdReadSane, NewbieAnswersSane, AgreeSane, BecomeResidentSane DEF RunLine
<1>5. ASSUME NEW p \in Player, Timers(p) PROVE Sane'
  BY <1>5, LogonStartRealSane, TimedLogoutSane, TimedIdleSane DEF Timers
<1>6. ASSUME NEW c \in Conn, PeerCloses(c) PROVE Sane'
  BY <1>6, PeerClosesSane
<1>7. ASSUME NEW n \in Name, Staff(n) PROVE Sane'
  BY <1>1, <1>7, MakeSane, BanishSane, NukeSane, TimedNukeSane, UnloadSane DEF Staff
<1> QED BY <1>2, <1>3, <1>4, <1>5, <1>6, <1>7 DEF Next

LEMMA SaneStutters == ASSUME Sane, UNCHANGED vars PROVE Sane'
<1>1. Shape' /\ Blank' /\ \A x \in cron : Prompted(x)'
  BY DEF vars, Sane, Shape, Blank, Prompted, Stays
<1> QED BY <1>1, QuietSane DEF vars

LEMMA AlwaysSane == Spec => []Sane
  BY SaneInit, SaneNext, SaneStutters, PTL DEF Spec
-----------------------------------------------------------------------------
(* What a step does to players and nodes: the rest of the proofs look at no  *)
(* more of a step than this.                                                 *)

\* Nobody who is leaving is called back.
Leavers == \A x \in cron : event[x] \in Leaving => event'[x] \in Leaving

\* Nobody comes or goes.
Quiet ==
  /\ UNCHANGED <<alloc, cron, on, saved, io, ptr, tree, agreed, count, current, fatal>>
  /\ UNCHANGED nuking \/ "nuke" \in Exercised
  /\ Leavers

\* The program stops, and why.
Cause(why) ==
  \/ why \in {"unloaded", "freed"}
  \/ why = "count" /\ count = 0 /\ \E x \in cron : x \notin on
  \/ /\ why \in {"twice", "dangling"}
     /\ \E x \in cron \ on : saved[x] # None /\ saved[x][1] = "resident" /\ ptr[saved[x]] = x
  \/ why = "name" /\ \E x \in cron, n \in tree : saved[x] = Newbie(n)
\* A newbie goes whose name nobody has.
NewbieGoes(p) == NewbieQuits(p) /\ saved[p][2] \notin tree
Halts ==
  \E why \in {"dangling", "count", "twice", "name", "unloaded", "freed"} : Stops(why) /\ Cause(why)

\* p wants to be the resident s.
Calls(p, s) ==
  /\ p \in cron \ on /\ Stays(p)
  /\ s[1] = "resident" /\ s[2] \in tree /\ ptr[s] # p /\ saved[p] \in {None, s}

\* p is asked for something, and the player of s is loaded.
Asks(p, s, q) ==
  /\ Calls(p, s) /\ Loads(s, q) /\ Loaded(s, q)
  /\ saved' \in [Player -> Node \cup {None}] /\ saved'[p] \in {None, s} /\ saved'[q] = s
  /\ \A x \in Player \ {p, q} : saved'[x] = saved[x]
  /\ Leavers
  /\ UNCHANGED <<cron, on, io, tree, agreed, nuking, count, current, fatal>>

\* Staff load the player of a resident, or make one.
Fetches(n, s, q) ==
  /\ s = Resident(n) /\ Loads(s, q) /\ Loaded(s, q)
  /\ saved' = [saved EXCEPT ![q] = s]
  /\ tree' = tree \cup {n} /\ (n \in tree \/ "make" \in Exercised)
  /\ UNCHANGED <<cron, on, event, io, agreed, nuking, count, current, fatal>>

\* Everybody who wants to be the resident q is sent off.
SentOff(s, q) ==
  /\ q \in on /\ saved[q] = s /\ s[1] = "resident"
  /\ saved' = [x \in Player |-> IF x \in cron \ on /\ saved[x] = s THEN None ELSE saved[x]]
  /\ Leavers
  /\ UNCHANGED <<alloc, cron, on, io, ptr, tree, agreed, nuking, count, current, fatal>>

\* p is nobody any more.
Forgotten(p) ==
  /\ p \in cron \ on /\ saved[p] \in Node /\ saved[p][1] = "resident" /\ ptr[saved[p]] # p
  /\ saved' = [saved EXCEPT ![p] = None]
  /\ Leavers
  /\ UNCHANGED <<alloc, cron, on, io, ptr, tree, agreed, nuking, count, current, fatal>>

\* p is a newbie from now on.
Named(p, n) ==
  /\ p \in cron \ on /\ Stays(p) /\ saved[p] = None
  /\ n \notin tree /\ \A x \in cron : saved[x] # None => saved[x][2] # n
  /\ saved' = [saved EXCEPT ![p] = Newbie(n)] /\ ptr' = [ptr EXCEPT ![Newbie(n)] = p]
  /\ Leavers
  /\ UNCHANGED <<alloc, cron, on, io, tree, agreed, nuking, count, current, fatal>>

Agrees(p) ==
  /\ p \in cron \ on /\ saved[p] \in Node /\ agreed' = agreed \cup {saved[p]}
  /\ Leavers
  /\ UNCHANGED <<alloc, cron, on, saved, io, ptr, tree, nuking, count, current, fatal>>

\* The player p that came with the connection is on.
Arrives(p) ==
  /\ p \in cron \ on /\ Stays(p) /\ saved[p] \in Node /\ ptr[saved[p]] = p
  /\ saved[p][1] = "newbie" => saved[p][2] \notin tree
  /\ on' = on \cup {p} /\ current' = current + 1
  /\ count' = IF saved[p][1] = "newbie" /\ count > 0 THEN count - 1 ELSE count
  /\ Leavers
  /\ UNCHANGED <<alloc, cron, saved, io, ptr, tree, agreed, nuking, fatal>>

Becomes(p, n) ==
  /\ p \in on /\ saved[p] = Newbie(n) /\ n \notin tree
  /\ ptr[Newbie(n)] = p /\ ptr[Resident(n)] = None
  /\ tree' = tree \cup {n} /\ saved' = [saved EXCEPT ![p] = Resident(n)]
  /\ ptr' = [ptr EXCEPT ![Newbie(n)] = None, ![Resident(n)] = p]
  /\ agreed' = (agreed \ {Newbie(n)}) \cup {Resident(n)}
  /\ Leavers
  /\ UNCHANGED <<alloc, cron, on, io, nuking, count, current, fatal>>

\* The node of n is freed.
Nuked(n) ==
  /\ n \in nuking /\ \A x \in cron : saved[x] # Resident(n)
  /\ tree' = tree \ {n} /\ agreed' = agreed \ {Resident(n)} /\ nuking' = nuking \ {n}
  /\ ptr' = [ptr EXCEPT ![Resident(n)] = None]
  /\ UNCHANGED <<alloc, cron, on, event, saved, io, count, current, fatal>>

\* The player q of s is unloaded.
Unloads(s, q) ==
  /\ q = ptr[s] /\ q \in alloc \ cron /\ saved[q] = s /\ s[1] = "resident"
  /\ alloc' = alloc \ {q} /\ saved' = [saved EXCEPT ![q] = None] /\ ptr' = [ptr EXCEPT ![s] = None]
  /\ Leavers
  /\ UNCHANGED <<cron, on, io, tree, agreed, nuking, count, current, fatal>>

\* A connection is handed to the player of a resident.
Moves(p, s, q) ==
  /\ Calls(p, s) /\ Loads(s, q)
  /\ Reconnect(p, s, q) \/ (Attach(p, s, q) /\ timer[q] = "none")

Step ==
  \/ Quiet \/ Halts
  \/ \E p \in Player, c \in Conn : Accept(p, c)
  \/ \E p \in Player : \/ NewbieGoes(p) \/ (StrangerQuits(p) /\ count # 0) \/ ResidentQuits(p)
                       \/ Forgotten(p) \/ Agrees(p) \/ Arrives(p)
  \/ \E p \in Player, n \in Name : Named(p, n) \/ Becomes(p, n)
  \/ \E p \in Player, s \in Node, q \in Player : Asks(p, s, q) \/ Moves(p, s, q)
  \/ \E n \in Name, s \in Node, q \in Player : Fetches(n, s, q)
  \/ \E s \in Node, q \in Player : SentOff(s, q) \/ Unloads(s, q)
  \/ \E n \in Name : Nuked(n)

LEMMA CallsStep ==
  ASSUME Sane, fatal = "no", NEW p \in Player, NEW s \in Node, Calls(p, s), LogonResident(p, s), mode[p] # "wait"
  PROVE  Step
<1>1. PICK q \in Player : Loads(s, q) /\ (Reconnect(p, s, q) \/ Attach(p, s, q) \/ Motd(p, s, q))
  BY DEF LogonResident
<1>2. CASE Motd(p, s, q)
  <2>1. q # p
    BY <1>1, <1>2, LoadsFacts DEF Motd, Calls, Sane, Shape
  <2>2. /\ saved' \in [Player -> Node \cup {None}] /\ saved'[p] = s /\ saved'[q] = s
        /\ \A x \in Player \ {p, q} : saved'[x] = saved[x]
    BY <1>2, <2>1 DEF Motd, Sane, Shape
  <2>3. Leavers
    BY <1>2 DEF Leavers, Motd, Prompt, Calls, Stays, Sane, Shape
  <2> QED BY <1>1, <1>2, <2>2, <2>3 DEF Motd, Asks, Step
<1>3. CASE Reconnect(p, s, q) \/ (Attach(p, s, q) /\ timer[q] = "none")
  BY <1>1, <1>3 DEF Moves, Step
<1>4. CASE Attach(p, s, q) /\ timer[q] # "none"
  <2>1. Stops("twice") /\ q \in cron \ on
    BY <1>4 DEF Attach, Sane, Blank
  <2>2. q \in alloc /\ ptr[s] = q /\ saved[q] = s
    BY <1>1, <2>1 DEF Loads, Sane, Shape, Points
  <2>3. Cause("twice")
    BY <2>1, <2>2, NodeFacts DEF Cause, Calls
  <2> QED BY <2>1, <2>3 DEF Halts, Step
<1> QED BY <1>1, <1>2, <1>3, <1>4

LEMMA LogonProgramStep ==
  ASSUME Sane, fatal = "no", NEW p \in Player, p \in cron \ on, Stays(p), mode[p] # "wait", saved[p] # None,
         LogonProgram(p, saved[p])
  PROVE  Step
<1>1. PICK s \in Node : s = saved[p]
  BY DEF Sane, Shape
<1>2. CASE LogonResident(p, s)
  <2>1. Calls(p, s)
    BY <1>1, <1>2, NodeFacts DEF Calls, LogonResident, Sane, Nodes
  <2> QED BY <1>2, <2>1, CallsStep
<1>3. CASE AskDisclaimer(p, s)
  BY <1>3 DEF AskDisclaimer, Prompt, nodes, Leavers, Stays, Sane, Shape, Quiet, Step
<1>4. CASE FullyOn(p, s) /\ s[1] = "newbie" /\ s[2] \in tree
  <2>1. Stops("name") /\ saved[p] = Newbie(s[2])
    BY <1>1, <1>4, NodeFacts DEF FullyOn
  <2> QED BY <1>4, <2>1 DEF Cause, Halts, Step
<1>5. CASE FullyOn(p, s) /\ ~(s[1] = "newbie" /\ s[2] \in tree)
  <2>1. Leavers
    BY <1>5 DEF FullyOn, Prompt, Leavers, Stays, Sane, Shape
  <2> QED BY <1>1, <1>5, <2>1 DEF FullyOn, nodes, Arrives, Step
<1> QED BY <1>1, <1>2, <1>3, <1>4, <1>5 DEF LogonProgram
LEMMA QuietStep ==
  ASSUME Sane, NEW p \in Player,
         \/ LogonStartReal(p) \/ TimedLogout(p) \/ TimedIdle(p) \/ Input(p) \/ PlainLine(p) \/ QuitLine(p)
         \/ \E e \in Event : Choose(p, e)
  PROVE  Step
<1>1. Leavers
  BY EventFacts DEF LogonStartReal, TimedLogout, TimedIdle, Choose, Input, PlainLine, QuitLine,
                    UserLogoff, Running, Leavers, Leaving, Sane, Shape
<1>2. UNCHANGED <<alloc, cron, on, saved, io, ptr, tree, agreed, nuking, count, current, fatal>>
  BY DEF LogonStartReal, TimedLogout, TimedIdle, Choose, Input, PlainLine, QuitLine, nodes
<1> QED BY <1>1, <1>2 DEF Quiet, Step

LEMMA PeerClosesStep == ASSUME Sane, NEW c \in Conn, PeerCloses(c) PROVE Step
  BY DEF PeerCloses, nodes, Leavers, Quiet, Step

LEMMA QuitsStep ==
  ASSUME Sane, NEW p \in Player, NewbieQuits(p) \/ StrangerQuits(p) \/ ResidentQuits(p) PROVE Step
<1>1. CASE StrangerQuits(p) /\ count = 0
  <2>1. Stops("count") /\ Cause("count")
    BY <1>1 DEF StrangerQuits, Quits, Cause
  <2> QED BY <2>1 DEF Halts, Step
<1>2. CASE NewbieQuits(p) /\ saved[p][2] \in tree
  <2>1. saved[p] = Newbie(saved[p][2])
    BY <1>2, NodeFacts DEF NewbieQuits, IsNewbie, Sane, Shape
  <2>2. Stops("name") /\ Cause("name")
    BY <1>2, <2>1 DEF NewbieQuits, Quits, Cause
  <2> QED BY <2>2 DEF Halts, Step
<1> QED BY <1>1, <1>2 DEF NewbieGoes, Step

LEMMA NameResidentStep ==
  ASSUME Sane, fatal = "no", NEW p \in Player, NEW n \in Name, NameResident(p, n) PROVE Step
<1>1. Running(p, "name") /\ n \in tree
  BY DEF NameResident
<1>2. p \in cron \ on /\ Stays(p) /\ mode[p] = "name" /\ saved[p] = None
  BY <1>1 DEF Running, Stays, Leaving, Sane, Prompted
<1>3. PICK s \in Node : s = Resident(n)
  BY NodeFacts
<1>4. ptr[s] # p
  BY <1>2, <1>3, NodeFacts, NoneAssumption DEF Sane, Points
<1>5. Calls(p, s)
  BY <1>1, <1>2, <1>3, <1>4, NodeFacts DEF Calls
<1>6. CASE LogonProgram(p, s)
  <2>1. LogonResident(p, s)
    BY <1>4, <1>6 DEF LogonProgram, AskDisclaimer, FullyOn
  <2> QED BY <1>2, <1>5, <2>1, CallsStep
<1>7. CASE ~LogonProgram(p, s)
  <2>1. PICK q \in Player \ {p} :
          /\ Loads(s, q) /\ Loaded(s, q)
          /\ saved' = [saved EXCEPT ![p] = s, ![q] = s]
    BY <1>3, <1>7 DEF NameResident
  <2>2. /\ saved' \in [Player -> Node \cup {None}] /\ saved'[p] = s /\ saved'[q] = s
        /\ \A x \in Player \ {p, q} : saved'[x] = saved[x]
    BY <2>1 DEF Sane, Shape
  <2>3. Leavers
    BY <1>2, <1>3, <1>7 DEF NameResident, Prompt, Leavers, Stays, Sane, Shape
  <2> QED BY <1>3, <1>5, <1>7, <2>1, <2>2, <2>3 DEF NameResident, Asks, Step
<1> QED BY <1>6, <1>7

LEMMA PasswordStep ==
  ASSUME Sane, fatal = "no", NEW p \in Player, PasswordRight(p) \/ PasswordWrong(p) PROVE Step
<1>1. CASE PasswordRight(p)
  <2>1. PICK m \in Passwd : Running(p, m)
    BY <1>1 DEF PasswordRight
  <2> QED BY <1>1, <2>1, AtPassword, NodeFacts, LogonProgramStep DEF PasswordRight
<1>2. CASE PasswordWrong(p)
  <2>1. PICK m \in Passwd, q \in Player :
          /\ Running(p, m)
          /\ Loads(saved[p], q) /\ Loaded(saved[p], q)
          /\ \/ saved' = [saved EXCEPT ![q] = saved[p]]
             \/ saved' = [[saved EXCEPT ![q] = saved[p]] EXCEPT ![p] = None]
          /\ \E e \in {"choose", "logoff"} : event' = [event EXCEPT ![p] = e]
          /\ UNCHANGED <<cron, on, io, hungup, timer, idle, tree, agreed, banished, nuking, count, current, fatal>>
    BY <1>2 DEF PasswordWrong, Passwd, Prompt
  <2>2. PICK s \in Node : s = saved[p]
    BY <2>1, AtPassword
  <2>3. Calls(p, s) /\ Loads(s, q) /\ Loaded(s, q)
    BY <2>1, <2>2, AtPassword DEF Calls
  <2>4. q # p
    BY <2>3, LoadsFacts DEF Calls, Sane, Shape
  <2>5. /\ saved' \in [Player -> Node \cup {None}] /\ saved'[p] \in {None, s} /\ saved'[q] = s
        /\ \A x \in Player \ {p, q} : saved'[x] = saved[x]
    BY <2>1, <2>2, <2>4 DEF Sane, Shape
  <2>6. Leavers
    BY <2>1, <2>3 DEF Calls, Leavers, Stays, Sane, Shape
  <2> QED BY <2>1, <2>3, <2>5, <2>6 DEF Asks, Step
<1> QED BY <1>1, <1>2

LEMMA AnswersStep ==
  ASSUME Sane, fatal = "no", NEW p \in Player,
         (\E yes \in BOOLEAN : MailPassword(p, yes)) \/ MotdRead(p) \/ NewbieAnswers(p) \/ Finish(p) \/ Agree(p)
  PROVE  Step
<1>1. ASSUME NEW yes \in BOOLEAN, MailPassword(p, yes) PROVE Step
  <2>1. CASE yes /\ ptr[saved[p]] = None
    BY <1>1, <2>1 DEF MailPassword, Cause, Halts, Step
  <2>2. CASE ~(yes /\ ptr[saved[p]] = None)
    <3>1. p \in cron \ on /\ Stays(p) /\ saved[p] \in Node /\ saved[p][1] = "resident" /\ ptr[saved[p]] # p
      BY <1>1, AtPassword DEF MailPassword
    <3>2. Leavers
      BY <1>1, <2>2, <3>1 DEF MailPassword, Fails, Leavers, Stays, Sane, Shape
    <3> QED BY <1>1, <2>2, <3>1, <3>2 DEF MailPassword, Fails, nodes, Forgotten, Step
  <2> QED BY <2>1, <2>2
<1>2. CASE MotdRead(p) /\ ptr[saved[p]] = None
  BY <1>2 DEF MotdRead, Cause, Halts, Step
<1>3. CASE MotdRead(p) /\ ptr[saved[p]] # None
  BY <1>3, AtPassword, NodeFacts, LogonProgramStep DEF MotdRead
<1>4. CASE NewbieAnswers(p) \/ Finish(p)
  <2>1. p \in cron /\ Stays(p) /\ mode[p] \in {"newbie", "finish"}
    BY <1>4 DEF NewbieAnswers, Finish, Running, Stays, Leaving
  <2>2. p \notin on /\ saved[p] # None
    BY <2>1 DEF Sane, Prompted
  <2> QED BY <1>4, <2>1, <2>2, LogonProgramStep DEF NewbieAnswers, Finish
<1>5. CASE Agree(p)
  <2>1. p \in cron /\ Stays(p) /\ mode[p] = "disclaimer"
    BY <1>5 DEF Agree, Running, Stays, Leaving
  <2>2. p \notin on /\ saved[p] \in Node
    BY <2>1 DEF Sane, Shape, Prompted
  <2>3. Leavers
    BY <1>5, <2>1 DEF Agree, Prompt, Leavers, Stays, Sane, Shape
  <2> QED BY <1>5, <2>1, <2>2, <2>3 DEF Agree, Agrees, Step
<1> QED BY <1>1, <1>2, <1>3, <1>4, <1>5

LEMMA NewbieStep ==
  ASSUME Sane, fatal = "no", NEW p \in Player, NEW n \in Name, NameNewbie(p, n) PROVE Step
<1>1. p \in cron \ on /\ Stays(p) /\ saved[p] = None
  BY DEF NameNewbie, Running, Stays, Leaving, Sane, Prompted
<1>2. Leavers
  BY <1>1 DEF NameNewbie, Prompt, Leavers, Stays, Sane, Shape
<1> QED BY <1>1, <1>2 DEF NameNewbie, Named, Step

LEMMA BecomeStep ==
  ASSUME Sane, fatal = "no", NEW p \in Player, BecomeResident(p) PROVE Step
<1>1. p \in on /\ p \in cron /\ Stays(p) /\ saved[p] \in Node /\ saved[p][1] = "newbie"
  BY DEF BecomeResident, Running, Stays, Leaving, Sane, Shape, Prompted, IsNewbie
<1>2. PICK n \in Name : n = saved[p][2] /\ saved[p] = Newbie(n)
  BY <1>1, NodeFacts
<1>3. n \notin tree /\ ptr[Resident(n)] = None /\ ptr[Newbie(n)] = p
  BY <1>1, <1>2 DEF Sane, Nodes, Prompted
<1>4. Leavers
  BY <1>1 DEF BecomeResident, Leavers, Stays, Sane, Shape
<1> QED BY <1>1, <1>2, <1>3, <1>4 DEF BecomeResident, Becomes, Step

LEMMA StaffStep ==
  ASSUME Sane, fatal = "no", NEW n \in Name, Staff(n) PROVE Step
<1>1. PICK s \in Node : s = Resident(n) /\ s[1] = "resident"
  BY NodeFacts
<1>2. CASE \E q \in Player : Make(n, q)
  <2>1. PICK q \in Player : Make(n, q)
    BY <1>2
  <2>2. Loads(s, q)
    BY <1>1, <2>1 DEF Make, Loads, Sane, Nodes
  <2> QED BY <1>1, <2>1, <2>2 DEF Make, Fetches, Step
<1>3. CASE Banish(n)
  <2>1. PICK q \in Player :
          /\ n \in tree /\ Loads(s, q) /\ Loaded(s, q)
          /\ IF q \in on THEN LogoffAll(s) ELSE saved' = [saved EXCEPT ![q] = s] /\ UNCHANGED event
          /\ UNCHANGED <<cron, on, io, hungup, mode, timer, idle, tree, agreed, nuking, count, current, fatal>>
    BY <1>1, <1>3 DEF Banish
  <2>2. CASE q \notin on
    <3>1. tree' = tree \cup {n}
      BY <2>1
    <3> QED BY <1>1, <2>1, <2>2, <3>1 DEF Fetches, Step
  <2>3. CASE q \in on
    <3>1. q \in alloc
      BY <2>3 DEF Sane, Shape
    <3>2. ptr[s] = q
      BY <2>1, <3>1 DEF Loads
    <3>3. saved[q] = s /\ alloc' = alloc /\ ptr' = ptr
      <4>1. saved[q] = s
        BY <2>1, <3>1, LoadsFacts
      <4> QED BY <2>1, <3>1, <3>2, <4>1 DEF Loaded, Sane, Shape
    <3>4. saved' = [x \in Player |-> IF x \in cron \ on /\ saved[x] = s THEN None ELSE saved[x]]
      BY <2>1, <2>3 DEF LogoffAll, Mine
    <3>5. event' = [x \in Player |-> IF x \in Mine(s) THEN Upgrade(event[x], "logoff") ELSE event[x]]
      BY <2>1, <2>3 DEF LogoffAll, UserLogoff
    <3>6. Leavers
      <4>1. SUFFICES ASSUME NEW x \in cron, event[x] \in Leaving PROVE event'[x] \in Leaving
        BY DEF Leavers
      <4>2. x \in Player /\ event[x] \in Event
        BY DEF Sane, Shape
      <4>3. Upgrade(event[x], "logoff") \in Leaving
        BY <4>2, EventFacts
      <4> QED BY <3>5, <4>1, <4>2, <4>3
    <3> QED BY <1>1, <2>1, <2>3, <3>3, <3>4, <3>6 DEF SentOff, Step
  <2> QED BY <2>2, <2>3
<1>4. CASE Nuke(n)
  BY <1>4 DEF Nuke, dialogue, Leavers, Quiet, Step
<1>5. CASE TimedNuke(n)
  <2>1. CASE Mine(s) # {}
    <3>1. Stops("freed") /\ Cause("freed")
      BY <1>1, <1>5, <2>1 DEF TimedNuke, Cause
    <3> QED BY <3>1 DEF Halts, Step
  <2>2. CASE Mine(s) = {}
    BY <1>1, <1>5, <2>2 DEF TimedNuke, Mine, dialogue, Nuked, Step
  <2> QED BY <2>1, <2>2
<1>6. CASE Unload(n)
  <2>1. PICK q \in Player : q = ptr[s] /\ q \in alloc /\ q \notin on /\ saved[q] = s
    BY <1>1, <1>6 DEF Unload, Sane, Shape, Points
  <2>2. CASE q \in cron
    <3>1. Stops("dangling") /\ Cause("dangling")
      BY <1>1, <1>6, <2>1, <2>2, NodeFacts DEF Unload, Cause
    <3> QED BY <3>1 DEF Halts, Step
  <2>3. CASE q \notin cron
    <3>1. Leavers
      BY <1>1, <1>6, <2>1, <2>3 DEF Unload, Free, Leavers, Sane, Shape
    <3> QED BY <1>1, <1>6, <2>1, <2>3, <3>1 DEF Unload, Free, Unloads, Step
  <2> QED BY <2>2, <2>3
<1> QED BY <1>2, <1>3, <1>4, <1>5, <1>6 DEF Staff

LEMMA NextStep == ASSUME Sane, Next PROVE Step
<1>1. fatal = "no"
  BY DEF Next
<1>2. ASSUME NEW p \in Player, (\E c \in Conn : Accept(p, c)) \/ (\E e \in Event : Choose(p, e)) PROVE Step
  <2>1. CASE \E c \in Conn : Accept(p, c)
    BY <2>1 DEF Step
  <2> QED BY <1>2, <2>1, QuietStep
<1>3. ASSUME NEW p \in Player, Visit(p) \/ Timers(p) PROVE Step
  BY <1>3, QuietStep, QuitsStep DEF Visit, Timers
<1>4. ASSUME NEW p \in Player, RunLine(p) PROVE Step
  BY <1>1, <1>4, QuietStep, NameResidentStep, NewbieStep, PasswordStep, AnswersStep, BecomeStep DEF RunLine
<1>5. ASSUME NEW c \in Conn, PeerCloses(c) PROVE Step
  BY <1>5, PeerClosesStep
<1>6. ASSUME NEW n \in Name, Staff(n) PROVE Step
  BY <1>1, <1>6, StaffStep
<1> QED BY <1>2, <1>3, <1>4, <1>5, <1>6 DEF Next
-----------------------------------------------------------------------------
(* The counts. *)

Counts == IsFiniteSet(cron) /\ current = Cardinality(on) /\ count \in Nat

LEMMA OneMore ==
  ASSUME NEW S, NEW T, IsFiniteSet(S), NEW x, T = S \cup {x}, x \notin S
  PROVE  IsFiniteSet(T) /\ Cardinality(T) = Cardinality(S) + 1
BY FS_AddElement

LEMMA OneLess ==
  ASSUME NEW S, NEW T, IsFiniteSet(S), NEW x, T = S \ {x}, x \in S
  PROVE  IsFiniteSet(T) /\ Cardinality(T) = Cardinality(S) - 1
BY FS_RemoveElement

LEMMA CountsNext == ASSUME Sane, Counts, Next PROVE Counts'
<1>0. IsFiniteSet(on) /\ Cardinality(on) \in Nat /\ on \subseteq cron
  BY FS_Subset, FS_CardinalityType DEF Counts, Sane, Shape
<1>1. Step
  BY NextStep
<1>2. ASSUME cron' = cron, on' = on, current' = current, count' = count PROVE Counts'
  BY <1>2 DEF Counts
<1>3. CASE Halts
  BY <1>2, <1>3 DEF Halts, Stops
<1>4. ASSUME NEW p \in Player, NEW c \in Conn, Accept(p, c) PROVE Counts'
  BY <1>4, FS_AddElement DEF Accept, Counts
<1>5. ASSUME NEW p \in Player, NewbieGoes(p) \/ (StrangerQuits(p) /\ count # 0) \/ ResidentQuits(p) PROVE Counts'
  <2>1. cron' = cron \ {p} /\ IsFiniteSet(cron')
    BY <1>5, FS_RemoveElement DEF NewbieGoes, NewbieQuits, StrangerQuits, ResidentQuits, Closes, Counts
  <2>2. on' = on \ {p} /\ current' = IF p \in on THEN current - 1 ELSE current
    BY <1>5 DEF NewbieGoes, NewbieQuits, StrangerQuits, ResidentQuits
  <2>3. count' \in Nat
    BY <1>5 DEF NewbieGoes, NewbieQuits, StrangerQuits, ResidentQuits, Counts
  <2>4. current' = Cardinality(on')
    <3>1. CASE p \in on
      BY <1>0, <2>2, <3>1, OneLess DEF Counts
    <3>2. CASE p \notin on
      BY <2>2, <3>2 DEF Counts
    <3> QED BY <3>1, <3>2
  <2> QED BY <2>1, <2>3, <2>4 DEF Counts
<1>6. ASSUME NEW p \in Player, Arrives(p) PROVE Counts'
  <2>1. current' = Cardinality(on')
    BY <1>0, <1>6, OneMore DEF Arrives, Counts
  <2> QED BY <1>6, <2>1 DEF Arrives, Counts
<1>7. ASSUME NEW p \in Player, NEW s \in Node, NEW q \in Player, Moves(p, s, q) PROVE Counts'
  <2>1. cron' = cron \cup {q}
    BY <1>7 DEF Moves, Reconnect, Attach, Sane, Shape
  <2>2. IsFiniteSet(cron') /\ count' = count
    BY <1>7, <2>1, FS_AddElement DEF Moves, Reconnect, Attach, Counts
  <2>3. \/ on' = on /\ current' = current
        \/ q \notin on /\ on' = on \cup {q} /\ current' = current + 1
    BY <1>7 DEF Moves, Reconnect, Attach
  <2>4. current' = Cardinality(on')
    BY <1>0, <2>3, OneMore DEF Counts
  <2> QED BY <2>2, <2>4 DEF Counts
<1> QED BY <1>1, <1>2, <1>3, <1>4, <1>5, <1>6, <1>7
        DEF Step, Quiet, Forgotten, Agrees, Named, Becomes, Asks, Fetches, SentOff, Unloads, Nuked

LEMMA AlwaysCounts == Spec => []Counts
<1>1. Init => Counts
  BY FS_EmptySet DEF Init, Counts
<1>2. Sane /\ Counts /\ [Next]_vars => Counts'
  BY CountsNext DEF vars, Counts
<1> QED BY <1>1, <1>2, AlwaysSane, PTL DEF Spec
\* Every variable keeps its type.
THEOREM TypeInvariance == Spec => []TypeOK
<1>1. Sane /\ Counts => TypeOK
  <2> SUFFICES ASSUME Sane, Counts PROVE TypeOK
    OBVIOUS
  <2>1. current \in Nat
    BY FS_Subset, FS_CardinalityType DEF Counts, Sane, Shape
  <2> QED BY <2>1 DEF TypeOK, Counts, Sane, Shape
<1> QED BY <1>1, AlwaysSane, AlwaysCounts, PTL

\* Whatever staff do, current_players counts the players that are fully on, and
\* no two of them are the same character.
THEOREM ACharacterIsOnOnce == Spec => []PresentOnce
<1>1. Sane /\ Counts => PresentOnce
  BY DEF PresentOnce, Sane, Prompted, Shape, Counts
<1> QED BY <1>1, AlwaysSane, AlwaysCounts, PTL

\* Players that are on and their nodes point at each other, and no node points at
\* a player that was freed or is another's.
THEOREM PlayerAndNodeAgree == Spec => []PointersAgree
<1>1. Sane => PointersAgree
  BY DEF PointersAgree, Sane, Shape, Prompted, Points
<1> QED BY <1>1, AlwaysSane, PTL

\* The logon timer of a dialogue is never lost, whichever player it is moved to.
THEOREM LogonTimersLive == Spec => []TimerWhileLoggingOn
<1>1. Sane => TimerWhileLoggingOn
  BY DEF TimerWhileLoggingOn, Sane, Prompted, Stays
<1> QED BY <1>1, AlwaysSane, PTL

-----------------------------------------------------------------------------
(* Players are kept only for a node. *)

Kept == \A x \in alloc \ cron : saved[x] \in Node /\ ptr[saved[x]] = x

\* A player that is loaded is kept for its node.
LEMMA LoadedKept ==
  ASSUME Sane, fatal = "no", Kept, NEW s \in Node, NEW q \in Player, Loads(s, q), Loaded(s, q), saved'[q] = s,
         cron \subseteq cron', \A x \in alloc \ cron : x # q => saved'[x] = saved[x]
  PROVE  Kept'
<1> SUFFICES ASSUME NEW x \in alloc' \ cron' PROVE saved'[x] \in Node /\ ptr'[saved'[x]] = x
  BY DEF Kept
<1>1. CASE x = q
  BY <1>1, LoadsFacts
<1>2. CASE x # q
  <2>1. x \in alloc \ cron /\ saved'[x] = saved[x] /\ saved[x] \in Node /\ ptr[saved[x]] = x
    BY <1>2 DEF Loaded, Kept
  <2>2. saved[x] # s
    BY <1>2, <2>1, NoneAssumption DEF Loads, Sane, Shape
  <2> QED BY <2>1, <2>2, LoadsFacts
<1> QED BY <1>1, <1>2

LEMMA KeptNext ==
  ASSUME Sane, "nuke" \notin Exercised, nuking = {}, Kept, Next, fatal' = "no"
  PROVE  Kept' /\ nuking' = {}
<1>0. fatal = "no"
  BY DEF Next
<1>1. Step
  BY NextStep
<1>2. Halts => FALSE
  BY DEF Halts, Stops
<1>2a. (\E n \in Name : Nuked(n)) => FALSE
  BY DEF Nuked
<1>3. nuking' = {}
  <2>1. ASSUME NEW p \in Player, NEW c \in Conn, Accept(p, c) PROVE nuking' = nuking
    BY <2>1 DEF Accept, nodes
  <2>2. ASSUME NEW p \in Player, NewbieGoes(p) \/ (StrangerQuits(p) /\ count # 0) \/ ResidentQuits(p)
        PROVE  nuking' = nuking
    BY <2>2 DEF NewbieGoes, NewbieQuits, StrangerQuits, ResidentQuits, nodes
  <2>3. ASSUME NEW p \in Player, NEW s \in Node, NEW q \in Player, Moves(p, s, q) PROVE nuking' = nuking
    BY <2>3 DEF Moves, Reconnect, Attach
  <2> QED BY <1>1, <1>2, <1>2a, <2>1, <2>2, <2>3
          DEF Step, Quiet, Forgotten, Agrees, Arrives, Named, Becomes, Asks, Fetches, SentOff, Unloads
<1>4. ASSUME NEW p \in Player, NEW c \in Conn, Accept(p, c) PROVE Kept'
  BY <1>4 DEF Accept, nodes, Kept
<1>5. ASSUME NEW p \in Player, NewbieGoes(p) PROVE Kept'
  <2>1. saved[p][1] = "newbie" /\ saved[p] \in Node
    BY <1>5 DEF NewbieGoes, NewbieQuits, IsNewbie, Sane, Shape
  <2>2. \A x \in alloc \ cron : saved[x] # saved[p]
    BY <2>1, NodeFacts DEF Sane, Shape, Nodes, IsNewbie
  <2> QED BY <1>5, <2>2 DEF NewbieGoes, NewbieQuits, Closes, Free, Kept, Sane, Shape
<1>6. ASSUME NEW p \in Player, StrangerQuits(p) PROVE Kept'
  BY <1>2, <1>6 DEF StrangerQuits, Stops, Closes, Free, nodes, Kept, Sane, Shape
<1>7. ASSUME NEW p \in Player, ResidentQuits(p) PROVE Kept'
  <2>1. saved[p] \in Node /\ ptr[saved[p]] = p
    BY <1>7 DEF ResidentQuits, Quits, Sane, Shape, Prompted
  <2> QED BY <1>7, <2>1 DEF ResidentQuits, Closes, nodes, Kept
<1>8. ASSUME NEW p \in Player, Forgotten(p) \/ Agrees(p) \/ Arrives(p) PROVE Kept'
  BY <1>8 DEF Forgotten, Agrees, Arrives, Kept, Sane, Shape
<1>9. ASSUME NEW p \in Player, NEW n \in Name, Named(p, n) PROVE Kept'
  <2>1. \A x \in alloc \ cron : saved[x] # Newbie(n)
    BY NodeFacts DEF Sane, Shape, Nodes, IsNewbie
  <2> QED BY <1>9, <2>1 DEF Named, Kept, Sane, Shape
<1>10. ASSUME NEW p \in Player, NEW n \in Name, Becomes(p, n) PROVE Kept'
  <2>1. \A x \in alloc \ cron : saved[x] # Newbie(n) /\ saved[x] # Resident(n)
    BY <1>10, NodeFacts, NoneAssumption DEF Becomes, Kept, Sane, Shape, Nodes, IsNewbie
  <2> QED BY <1>10, <2>1 DEF Becomes, Kept, Sane, Shape
<1>11. ASSUME NEW p \in Player, NEW s \in Node, NEW q \in Player, Asks(p, s, q) PROVE Kept'
  BY <1>0, <1>11, LoadedKept DEF Asks, Calls, Sane, Shape
<1>12. ASSUME NEW p \in Player, NEW s \in Node, NEW q \in Player, Moves(p, s, q) PROVE Kept'
  <2>1. HandsOver(p, s, q) /\ cron \subseteq cron' /\ p \in cron /\ Loads(s, q)
    BY <1>12 DEF Moves, Calls, Reconnect, Attach
  <2>2. saved'[q] = s /\ \A x \in alloc \ cron : x # q => saved'[x] = saved[x]
    BY <2>1 DEF HandsOver, Sane, Shape
  <2> QED BY <1>0, <2>1, <2>2, LoadedKept DEF HandsOver
<1>13. ASSUME NEW n \in Name, NEW s \in Node, NEW q \in Player, Fetches(n, s, q) PROVE Kept'
  BY <1>0, <1>13, LoadedKept DEF Fetches, Sane, Shape
<1>14. ASSUME NEW s \in Node, NEW q \in Player, SentOff(s, q) \/ Unloads(s, q) PROVE Kept'
  <2>1. CASE SentOff(s, q)
    BY <2>1 DEF SentOff, Kept, Sane, Shape
  <2>2. CASE Unloads(s, q)
    BY <2>2 DEF Unloads, Kept, Sane, Shape
  <2> QED BY <1>14, <2>1, <2>2
<1>15. CASE Quiet
  BY <1>15 DEF Quiet, Kept
<1>16. Kept'
  BY <1>1, <1>2, <1>2a, <1>4, <1>5, <1>6, <1>7, <1>8, <1>9, <1>10, <1>11, <1>12, <1>13, <1>14, <1>15 DEF Step
<1> QED BY <1>3, <1>16

\* Unless a node is freed under its player, a player that no node and no connection
\* leads to is not allocated: nothing is leaked, in any order of logons and logoffs.
THEOREM NothingIsLeaked == ASSUME "nuke" \notin Exercised PROVE Spec => []NoLeak
<1> DEFINE KInv == fatal = "no" => Kept /\ nuking = {}
<1>1. Init => KInv
  BY DEF Init, Kept
<1>2. Sane /\ KInv /\ [Next]_vars => KInv'
  <2>1. Sane /\ KInv /\ Next => KInv'
    BY KeptNext DEF Next
  <2>2. KInv /\ UNCHANGED vars => KInv'
    BY DEF vars, Kept
  <2> QED BY <2>1, <2>2
<1>3. Sane /\ KInv => NoLeak
  BY DEF NoLeak, Kept, Range, Sane, Shape
<1> QED BY <1>1, <1>2, <1>3, AlwaysSane, PTL DEF Spec
-----------------------------------------------------------------------------
(* As long as staff make no residents. *)

\* What making a resident breaks: every resident has agreed to the disclaimer, who
\* logs on as one is not the player of its node until it is on, and a newbie's name
\* is neither a resident's nor another newbie's.
Settled ==
  /\ \A x \in cron \ on : saved[x] # None /\ saved[x][1] = "resident" => ptr[saved[x]] # x
  /\ \A n \in tree : Resident(n) \in agreed
  /\ \A x \in cron, n \in Name : saved[x] = Newbie(n) => n \notin tree
  /\ NewbieAlone

\* Nobody who is logging on is the player that is loaded for a resident.
LEMMA LoadsSettled ==
  ASSUME Sane, fatal = "no", Settled, NEW s \in Node, NEW q \in Player, Loads(s, q), Loaded(s, q), s[1] = "resident"
  PROVE  /\ q \notin cron \ on
         /\ ptr'[s] = q /\ \A r \in Node \ {s} : ptr'[r] = ptr[r]
         /\ q \in cron => saved[q] = s
<1>1. q \in cron => ptr[s] = q /\ saved[q] = s
  BY LoadsFacts DEF Loads, Sane, Shape
<1> QED BY <1>1, LoadsFacts, NodeFacts DEF Settled

\* A player of a resident is loaded, and nobody becomes a newbie or a resident by it.
LEMMA LoadedSettled ==
  ASSUME Sane, fatal = "no", Settled, NEW s \in Node, NEW q \in Player, Loads(s, q), Loaded(s, q),
         s[1] = "resident", s[2] \in tree, saved'[q] = s, q \in cron' => q \in on',
         on \subseteq on', on' \subseteq cron', cron' \subseteq cron \cup {q},
         \A x \in cron \ {q} : saved'[x] = saved[x] \/ saved'[x] = None \/ (saved'[x] = s /\ x # q),
         UNCHANGED <<tree, agreed>>
  PROVE  Settled'
<1>1. /\ q \notin cron \ on /\ ptr'[s] = q /\ \A r \in Node \ {s} : ptr'[r] = ptr[r]
      /\ q \in cron => saved[q] = s
  BY LoadsSettled
<1>2. s # None /\ s = Resident(s[2]) /\ s[1] # "newbie" /\ s[2] \in Name
  BY NodeFacts
<1>3. \A x \in cron' \ on' : saved'[x] # None /\ saved'[x][1] = "resident" => ptr'[saved'[x]] # x
  <2> SUFFICES ASSUME NEW x \in cron' \ on', saved'[x] # None, saved'[x][1] = "resident" PROVE ptr'[saved'[x]] # x
    OBVIOUS
  <2>1. x \in cron \ on /\ x # q
    OBVIOUS
  <2>2. CASE saved'[x] = s
    BY <1>1, <2>1, <2>2
  <2>3. CASE saved'[x] # s
    <3>1. saved'[x] = saved[x] /\ saved[x] \in Node /\ saved[x] # s
      BY <2>1, <2>3 DEF Sane, Shape
    <3> QED BY <1>1, <2>1, <3>1 DEF Settled
  <2> QED BY <2>2, <2>3
<1>4. \A x \in cron', n \in Name : saved'[x] = Newbie(n) => n \notin tree'
  BY <1>2, NodeFacts DEF Settled
<1>5. NewbieAlone'
  <2> SUFFICES ASSUME NEW x \in cron', NEW y \in cron', IsNewbie(x)', saved'[y] # None, x # y
               PROVE  saved'[x][2] # saved'[y][2]
    BY DEF NewbieAlone
  <2>1. x \in cron /\ saved'[x] = saved[x] /\ IsNewbie(x) /\ saved[x] \in Node
    BY <1>2 DEF IsNewbie, Sane, Shape
  <2>2. saved[x] = Newbie(saved[x][2]) /\ saved[x][2] \in Name
    BY <2>1, NodeFacts DEF IsNewbie
  <2>3. CASE saved'[y] = s
    BY <2>1, <2>2, <2>3 DEF Settled
  <2>4. CASE saved'[y] # s
    BY <2>1, <2>4 DEF Settled, NewbieAlone
  <2> QED BY <2>3, <2>4
<1> QED BY <1>3, <1>4, <1>5 DEF Settled

\* Players leave, or stand for nobody any more.
LEMMA LessSettled ==
  ASSUME Sane, Settled, cron' \subseteq cron, cron' \ on' \subseteq cron \ on,
         saved' \in [Player -> Node \cup {None}], \A x \in cron' : saved'[x] = saved[x] \/ saved'[x] = None,
         \A s \in Node : ptr'[s] = ptr[s] \/ ptr'[s] = None,
         tree' \subseteq tree, \A n \in tree' : Resident(n) \in agreed'
  PROVE  Settled'
<1>1. \A x \in cron' \ on' : saved'[x] # None /\ saved'[x][1] = "resident" => ptr'[saved'[x]] # x
  BY NoneAssumption DEF Settled, Sane, Shape
<1>2. \A x \in cron', n \in Name : saved'[x] = Newbie(n) => n \notin tree'
  BY NodeFacts DEF Settled
<1>3. NewbieAlone'
  BY DEF Settled, NewbieAlone, IsNewbie
<1> QED BY <1>1, <1>2, <1>3 DEF Settled
\* A connection is handed to the player of a resident, who has agreed.
LEMMA MovesSettled ==
  ASSUME Sane, fatal = "no", Settled, NEW p \in Player, NEW s \in Node, NEW q \in Player, Moves(p, s, q)
  PROVE  /\ HandsOver(p, s, q) /\ q # p /\ q \notin cron \ on
         /\ cron' = cron \cup {q} /\ on' = on \cup {q}
         /\ timer' = [timer EXCEPT ![p] = "none"]
         /\ UNCHANGED <<tree, agreed, nuking, count, fatal>>
<1>1. Calls(p, s) /\ Loads(s, q) /\ HandsOver(p, s, q)
  BY DEF Moves, Reconnect, Attach
<1>2. s \in agreed /\ s[1] = "resident"
  BY <1>1, NodeFacts DEF Calls, Settled
<1>3. q \notin cron \ on /\ q # p
  BY <1>1, <1>2, LoadsSettled DEF HandsOver, Calls
<1> QED BY <1>1, <1>2, <1>3 DEF Moves, Reconnect, Attach, Sane, Shape

LEMMA SettledNext == ASSUME Sane, "make" \notin Exercised, Settled, Next PROVE Settled'
<1>0. fatal = "no"
  BY DEF Next
<1>1. Step
  BY NextStep
<1>2. CASE Quiet \/ Halts
  <2>1. UNCHANGED <<cron, on, saved, ptr, tree, agreed>>
    BY <1>2 DEF Quiet, Halts, Stops
  <2> QED BY <2>1 DEF Settled, NewbieAlone, IsNewbie
<1>3. ASSUME NEW p \in Player, NEW c \in Conn, Accept(p, c) PROVE Settled'
  <2>1. saved[p] = None /\ cron' = cron \cup {p} /\ UNCHANGED <<on, saved, ptr, tree, agreed>>
    BY <1>3 DEF Accept, nodes, Sane, Blank
  <2> QED BY <2>1, NodeFacts DEF Settled, NewbieAlone, IsNewbie
<1>4. ASSUME NEW p \in Player, NewbieGoes(p) \/ (StrangerQuits(p) /\ count # 0) \/ ResidentQuits(p)
      PROVE  Settled'
  <2>1. /\ cron' = cron \ {p} /\ on' = on \ {p} /\ tree' = tree
        /\ saved' = saved \/ saved' = [saved EXCEPT ![p] = None]
        /\ ptr' = ptr \/ ptr' = [ptr EXCEPT ![saved[p]] = None]
        /\ agreed' = agreed \/ (agreed' = agreed \ {saved[p]} /\ IsNewbie(p))
    BY <1>4 DEF NewbieGoes, NewbieQuits, StrangerQuits, ResidentQuits, Closes, Free, nodes, Sane, Shape
  <2>2. \A s \in Node : ptr'[s] = ptr[s] \/ ptr'[s] = None
    BY <2>1 DEF Sane, Shape
  <2>3. saved' \in [Player -> Node \cup {None}] /\ \A x \in cron' : saved'[x] = saved[x] \/ saved'[x] = None
    BY <2>1 DEF Sane, Shape
  <2>4. \A n \in tree' : Resident(n) \in agreed'
    BY <2>1, NodeFacts DEF Settled, IsNewbie, Sane, Shape
  <2> QED BY <2>1, <2>2, <2>3, <2>4, LessSettled
<1>5. ASSUME NEW p \in Player, Forgotten(p) \/ Agrees(p) \/ Arrives(p) PROVE Settled'
  <2>1. /\ cron' = cron /\ on \subseteq on' /\ ptr' = ptr /\ tree' = tree /\ agreed \subseteq agreed'
        /\ saved' = saved \/ saved' = [saved EXCEPT ![p] = None]
    BY <1>5 DEF Forgotten, Agrees, Arrives
  <2>2. saved' \in [Player -> Node \cup {None}] /\ \A x \in cron' : saved'[x] = saved[x] \/ saved'[x] = None
    BY <2>1 DEF Sane, Shape
  <2>3. \A n \in tree' : Resident(n) \in agreed'
    BY <2>1 DEF Settled
  <2> QED BY <2>1, <2>2, <2>3, LessSettled
<1>6. ASSUME NEW p \in Player, NEW n \in Name, Named(p, n) PROVE Settled'
  <2>1. PICK s \in Node : s = Newbie(n) /\ s[1] = "newbie" /\ s[2] = n /\ s # None
    BY NodeFacts
  <2>2. /\ saved'[p] = s /\ (\A x \in cron \ {p} : saved'[x] = saved[x]) /\ cron' = cron /\ on' = on
        /\ ptr'[s] = p /\ (\A r \in Node \ {s} : ptr'[r] = ptr[r]) /\ tree' = tree /\ agreed' = agreed
        /\ n \notin tree /\ \A x \in cron : saved[x] # None => saved[x][2] # n
    BY <1>6, <2>1 DEF Named, Sane, Shape
  <2>3. \A x \in cron : saved[x] # None => saved[x] \in Node \ {s}
    BY <2>1, <2>2 DEF Sane, Shape
  <2>4. \A x \in cron' \ on' : saved'[x] # None /\ saved'[x][1] = "resident" => ptr'[saved'[x]] # x
    BY <2>1, <2>2, <2>3 DEF Settled
  <2>5. \A x \in cron', m \in Name : saved'[x] = Newbie(m) => m \notin tree'
    BY <2>1, <2>2, NodeFacts DEF Settled
  <2>6. NewbieAlone'
    BY <2>1, <2>2 DEF Settled, NewbieAlone, IsNewbie
  <2> QED BY <2>2, <2>4, <2>5, <2>6 DEF Settled
<1>7. ASSUME NEW p \in Player, NEW n \in Name, Becomes(p, n) PROVE Settled'
  <2>1. PICK s \in Node, r \in Node : /\ s = Newbie(n) /\ s[1] = "newbie" /\ s[2] = n /\ s # None
                                      /\ r = Resident(n) /\ r[1] = "resident" /\ r[2] = n /\ r # None
    BY NodeFacts
  <2>2. /\ p \in on /\ p \in cron /\ saved[p] = s
        /\ saved'[p] = r /\ (\A x \in cron \ {p} : saved'[x] = saved[x]) /\ cron' = cron /\ on' = on
        /\ ptr'[s] = None /\ ptr'[r] = p /\ (\A t \in Node \ {s, r} : ptr'[t] = ptr[t])
        /\ tree' = tree \cup {n} /\ agreed' = (agreed \ {s}) \cup {r}
    BY <1>7, <2>1 DEF Becomes, Sane, Shape
  <2>3. \A x \in cron \ {p} : saved[x] # None => saved[x][2] # n
    BY <2>1, <2>2 DEF Settled, NewbieAlone, IsNewbie
  <2>4. \A x \in cron' \ on' : saved'[x] # None /\ saved'[x][1] = "resident" => ptr'[saved'[x]] # x
    <3> SUFFICES ASSUME NEW x \in cron' \ on', saved'[x] # None, saved'[x][1] = "resident" PROVE ptr'[saved'[x]] # x
      OBVIOUS
    <3>1. x # p /\ x \in cron \ on /\ saved'[x] = saved[x]
      BY <2>2
    <3>2. saved[x] \in Node \ {s, r}
      BY <2>1, <2>3, <3>1 DEF Sane, Shape
    <3> QED BY <2>2, <3>1, <3>2 DEF Settled
  <2>5. \A m \in tree' : Resident(m) \in agreed'
    BY <2>1, <2>2, NodeFacts DEF Settled, Sane, Shape
  <2>6. \A x \in cron', m \in Name : saved'[x] = Newbie(m) => m \notin tree'
    BY <2>1, <2>2, <2>3, NodeFacts DEF Settled
  <2>7. NewbieAlone'
    BY <2>1, <2>2, <2>3 DEF Settled, NewbieAlone, IsNewbie
  <2> QED BY <2>4, <2>5, <2>6, <2>7 DEF Settled
<1>8. ASSUME NEW p \in Player, NEW s \in Node, NEW q \in Player, Asks(p, s, q) PROVE Settled'
  <2>1. Loads(s, q) /\ Loaded(s, q) /\ s[1] = "resident" /\ s[2] \in tree /\ saved'[q] = s /\ p \in cron \ on
    BY <1>8 DEF Asks, Calls
  <2>2. q \notin cron \ on
    BY <1>0, <2>1, LoadsSettled
  <2>3. UNCHANGED <<cron, on, tree, agreed>> /\ on \subseteq cron
    BY <1>8 DEF Asks, Sane, Shape
  <2>4. \A x \in cron \ {q} : saved'[x] = saved[x] \/ saved'[x] = None \/ (saved'[x] = s /\ x # q)
    BY <1>8 DEF Asks, Sane, Shape
  <2> QED BY <1>0, <2>1, <2>2, <2>3, <2>4, LoadedSettled
<1>9. ASSUME NEW p \in Player, NEW s \in Node, NEW q \in Player, Moves(p, s, q) PROVE Settled'
  <2>1. /\ HandsOver(p, s, q) /\ q # p /\ q \notin cron \ on
        /\ cron' = cron \cup {q} /\ on' = on \cup {q}
        /\ UNCHANGED <<tree, agreed, nuking, count, fatal>>
    BY <1>0, <1>9, MovesSettled
  <2>2. Loads(s, q) /\ Loaded(s, q) /\ s[1] = "resident" /\ s[2] \in tree
    BY <1>9, <2>1 DEF Moves, Calls, HandsOver
  <2>3. saved'[q] = s /\ \A x \in cron \ {q} : saved'[x] = saved[x] \/ saved'[x] = None
    BY <2>1 DEF HandsOver, Sane, Shape
  <2>4. on' \subseteq cron'
    BY <2>1 DEF Sane, Shape
  <2> QED BY <1>0, <2>1, <2>2, <2>3, <2>4, LoadedSettled
<1>10. ASSUME NEW n \in Name, NEW s \in Node, NEW q \in Player, Fetches(n, s, q) PROVE Settled'
  <2>1. Loads(s, q) /\ Loaded(s, q) /\ s[1] = "resident" /\ s[2] \in tree /\ UNCHANGED <<cron, on, tree, agreed>>
    BY <1>10, NodeFacts DEF Fetches
  <2>2. q \notin cron \ on
    BY <1>0, <2>1, LoadsSettled
  <2>3. saved'[q] = s /\ (\A x \in cron \ {q} : saved'[x] = saved[x]) /\ on \subseteq cron
    BY <1>10 DEF Fetches, Sane, Shape
  <2> QED BY <1>0, <2>1, <2>2, <2>3, LoadedSettled
<1>11. ASSUME NEW s \in Node, NEW q \in Player, SentOff(s, q) \/ Unloads(s, q) PROVE Settled'
  <2>1. /\ UNCHANGED <<cron, on, tree, agreed>>
        /\ ptr' = ptr \/ ptr' = [ptr EXCEPT ![s] = None]
        /\ \/ saved' = [saved EXCEPT ![q] = None]
           \/ saved' = [x \in Player |-> IF x \in cron \ on /\ saved[x] = s THEN None ELSE saved[x]]
    BY <1>11 DEF SentOff, Unloads
  <2>2. \A r \in Node : ptr'[r] = ptr[r] \/ ptr'[r] = None
    BY <2>1 DEF Sane, Shape
  <2>3. saved' \in [Player -> Node \cup {None}] /\ \A x \in cron' : saved'[x] = saved[x] \/ saved'[x] = None
    BY <2>1 DEF Sane, Shape
  <2>4. \A m \in tree' : Resident(m) \in agreed'
    BY <2>1 DEF Settled
  <2> QED BY <2>1, <2>2, <2>3, <2>4, LessSettled
<1>12. ASSUME NEW n \in Name, Nuked(n) PROVE Settled'
  <2>1. /\ UNCHANGED <<cron, on, saved>> /\ ptr' = [ptr EXCEPT ![Resident(n)] = None]
        /\ tree' = tree \ {n} /\ agreed' = agreed \ {Resident(n)}
    BY <1>12 DEF Nuked
  <2>2. \A r \in Node : ptr'[r] = ptr[r] \/ ptr'[r] = None
    BY <2>1 DEF Sane, Shape
  <2>3. \A m \in tree' : Resident(m) \in agreed'
    BY <2>1, NodeFacts DEF Settled, Sane, Shape
  <2> QED BY <2>1, <2>2, <2>3, LessSettled DEF Sane, Shape
<1> QED BY <1>1, <1>2, <1>3, <1>4, <1>5, <1>6, <1>7, <1>8, <1>9, <1>10, <1>11, <1>12 DEF Step

LEMMA AlwaysSettled == ASSUME "make" \notin Exercised PROVE Spec => []Settled
<1>1. Init => Settled
  BY DEF Init, Settled, NewbieAlone
<1>2. Sane /\ Settled /\ [Next]_vars => Settled'
  <2>1. Settled /\ UNCHANGED vars => Settled'
    BY DEF vars, Settled, NewbieAlone, IsNewbie
  <2> QED BY <2>1, SettledNext
<1> QED BY <1>1, <1>2, AlwaysSane, PTL DEF Spec
\* Unless staff make residents, a newbie's name is nobody else's, whatever order
\* newbies, residents and the residency script come in.
THEOREM ANewbieIsAlone == ASSUME "make" \notin Exercised PROVE Spec => []NewbieAlone
<1>1. Settled => NewbieAlone
  BY DEF Settled
<1> QED BY <1>1, AlwaysSettled, PTL

LEMMA LoggingCountedNext ==
  ASSUME Sane, Counts, "make" \notin Exercised, Settled, LoggingCounted, Next
  PROVE  LoggingCounted'
<1>0. fatal = "no" /\ count = Cardinality(Logging) /\ IsFiniteSet(Logging) /\ on \subseteq cron
  BY FS_Subset DEF Next, LoggingCounted, Logging, Counts, Sane, Shape
<1>1. ASSUME NEW p \in cron \ on PROVE count > 0
  BY <1>0, <1>1, FS_EmptySet DEF Logging, Counts
<1>2. ASSUME Logging' = Logging, count' = count PROVE LoggingCounted'
  BY <1>0, <1>2 DEF LoggingCounted
<1>3. ASSUME NEW p \in cron \ on, Logging' = Logging \ {p}, count' = count - 1 PROVE LoggingCounted'
  <2>1. p \in Logging
    BY DEF Logging
  <2>2. PICK S : S = Logging
    OBVIOUS
  <2>3. PICK T : T = Logging'
    OBVIOUS
  <2>4. Cardinality(T) = Cardinality(S) - 1
    BY <1>0, <1>3, <2>1, <2>2, <2>3, OneLess
  <2> QED BY <1>0, <1>3, <2>2, <2>3, <2>4 DEF LoggingCounted
<1>4. Step
  BY NextStep
<1>5. CASE Halts
  BY <1>5 DEF Halts, Stops, LoggingCounted
<1>6. ASSUME NEW p \in Player, NEW c \in Conn, Accept(p, c) PROVE LoggingCounted'
  <2>1. cron' = cron \cup {p} /\ on' = on /\ p \notin cron /\ p \notin on /\ count' = count + 1
    BY <1>6 DEF Accept, Sane, Shape
  <2>2. PICK S : S = Logging
    OBVIOUS
  <2>3. PICK T : T = Logging'
    OBVIOUS
  <2>4. T = S \cup {p} /\ p \notin S
    BY <2>1, <2>2, <2>3 DEF Logging
  <2>5. Cardinality(T) = Cardinality(S) + 1
    BY <1>0, <2>2, <2>4, OneMore
  <2> QED BY <1>0, <2>1, <2>2, <2>3, <2>5 DEF LoggingCounted
<1>7. ASSUME NEW p \in Player, NewbieGoes(p) \/ (StrangerQuits(p) /\ count # 0) \/ ResidentQuits(p)
      PROVE  LoggingCounted'
  <2>1. p \in cron /\ cron' = cron \ {p} /\ on' = on \ {p}
    BY <1>7 DEF NewbieGoes, NewbieQuits, StrangerQuits, ResidentQuits, Quits, Closes
  <2>2. CASE p \in on
    <3>1. Logging' = Logging
      BY <1>0, <2>1, <2>2 DEF Logging
    <3>2. count' = count
      BY <1>7, <2>2 DEF NewbieGoes, NewbieQuits, StrangerQuits, ResidentQuits
    <3> QED BY <1>2, <3>1, <3>2
  <2>3. CASE p \notin on
    <3>1. Logging' = Logging \ {p}
      BY <2>1, <2>3 DEF Logging
    <3>2. count' = count - 1
      BY <1>1, <1>7, <2>1, <2>3 DEF NewbieGoes, NewbieQuits, StrangerQuits, ResidentQuits
    <3> QED BY <1>3, <2>1, <2>3, <3>1, <3>2
  <2> QED BY <2>2, <2>3
<1>8. ASSUME NEW p \in Player, Arrives(p) PROVE LoggingCounted'
  <2>1. p \in cron \ on /\ saved[p][1] = "newbie"
    BY <1>8, NodeFacts DEF Arrives, Settled
  <2>2. Logging' = Logging \ {p} /\ count' = count - 1
    BY <1>1, <1>8, <2>1 DEF Arrives, Logging
  <2> QED BY <1>3, <2>1, <2>2
<1>9. ASSUME NEW p \in Player, NEW s \in Node, NEW q \in Player, Moves(p, s, q) PROVE LoggingCounted'
  <2>1. q \notin cron \ on /\ cron' = cron \cup {q} /\ on' = on \cup {q} /\ count' = count
    BY <1>0, <1>9, MovesSettled
  <2> QED BY <1>0, <1>2, <2>1 DEF Logging
<1>10. ASSUME UNCHANGED <<cron, on, count>> PROVE LoggingCounted'
  BY <1>2, <1>10 DEF Logging
<1> QED BY <1>4, <1>5, <1>6, <1>7, <1>8, <1>9, <1>10
        DEF Step, Quiet, Forgotten, Agrees, Named, Becomes, Asks, Fetches, SentOff, Unloads, Nuked

\* Unless staff make residents, logging_onto_count is the number of players on the
\* cron list that are not fully on, through every dialogue, reconnection and logoff.
THEOREM TheCountIsTheLogons == ASSUME "make" \notin Exercised PROVE Spec => []LoggingCounted
<1>1. Init => LoggingCounted
  BY FS_EmptySet DEF Init, LoggingCounted, Logging
<1>2. Sane /\ Counts /\ Settled /\ LoggingCounted /\ [Next]_vars => LoggingCounted'
  BY LoggingCountedNext DEF vars, LoggingCounted, Logging
<1> QED BY <1>1, <1>2, AlwaysSane, AlwaysCounts, AlwaysSettled, PTL DEF Spec

-----------------------------------------------------------------------------
(* What stops the program. *)

Sound == fatal \in {"no", "unloaded", "freed"}

LEMMA SoundNext ==
  ASSUME Sane, Counts, Settled, LoggingCounted, Next
  PROVE  Sound'
<1>0. fatal = "no"
  BY DEF Next
<1>1. Step
  BY NextStep
<1>2. CASE Halts
  <2>1. PICK why \in {"dangling", "count", "twice", "name", "unloaded", "freed"} : fatal' = why /\ Cause(why)
    BY <1>2 DEF Halts, Stops
  <2>2. why # "count"
    <3>1. IsFiniteSet(Logging)
      BY FS_Subset DEF Counts, Logging
    <3> QED BY <1>0, <2>1, <3>1, FS_EmptySet DEF Cause, LoggingCounted, Logging
  <2>3. why \notin {"twice", "dangling", "name"}
    BY <2>1, NodeFacts DEF Cause, Settled, Sane, Shape
  <2> QED BY <2>1, <2>2, <2>3 DEF Sound
<1>3. ASSUME NEW p \in Player, StrangerQuits(p), count # 0 PROVE fatal' = fatal
  <2>1. p \in cron \ on /\ ~IsNewbie(p) /\ fatal' = IF p \in Range(ptr) THEN "dangling" ELSE fatal
    BY <1>3 DEF StrangerQuits, Quits
  <2>2. ASSUME NEW s \in Node, ptr[s] = p PROVE FALSE
    <3>1. saved[p] = s /\ s # None
      BY <1>0, <2>2, NodeFacts, NoneAssumption DEF Sane, Points
    <3> QED BY <2>1, <2>2, <3>1, NodeFacts DEF IsNewbie, Settled
  <2>3. p \notin Range(ptr)
    BY <2>2 DEF Range, Sane, Shape
  <2> QED BY <2>1, <2>3
<1>4. ASSUME NEW p \in Player, NEW c \in Conn, Accept(p, c) PROVE fatal' = fatal
  BY <1>4 DEF Accept
<1>5. ASSUME NEW p \in Player, NewbieGoes(p) \/ ResidentQuits(p) PROVE fatal' = fatal
  BY <1>5 DEF NewbieGoes, NewbieQuits, ResidentQuits
<1>6. ASSUME NEW p \in Player, NEW s \in Node, NEW q \in Player, Moves(p, s, q) PROVE fatal' = fatal
  BY <1>0, <1>6, MovesSettled
<1> QED BY <1>0, <1>1, <1>2, <1>3, <1>4, <1>5, <1>6
        DEF Step, Quiet, Forgotten, Agrees, Arrives, Named, Becomes, Asks, Fetches, SentOff, Unloads, Nuked, Sound

\* Unless staff make residents, no assertion about the count, about a second logon
\* of the same character, about a player that was freed and about a newbie's name
\* can fail: the program stops only for a player unloaded or a node freed under it.
THEOREM AssertionsHold ==
  ASSUME "make" \notin Exercised
  PROVE  Spec => [](CountPositive /\ HandedOnce /\ FreedForgotten /\ NameStaysFree)
<1>1. Init => Sound
  BY DEF Init, Sound
<1>2. Sane /\ Counts /\ Settled /\ LoggingCounted /\ Sound /\ [Next]_vars => Sound'
  BY SoundNext DEF vars, Sound
<1>3. Sound => CountPositive /\ HandedOnce /\ FreedForgotten /\ NameStaysFree
  BY DEF Sound, CountPositive, HandedOnce, FreedForgotten, NameStaysFree
<1> QED BY <1>1, <1>2, <1>3, AlwaysSane, AlwaysCounts, AlwaysSettled, TheCountIsTheLogons, PTL DEF Spec
-----------------------------------------------------------------------------
(* The limit on people logging on. *)

Timed == {x \in Player : timer[x] # "none"}

\* Only a connection that is accepted gets a timer of its own.
LEMMA LogonProgramTimed ==
  ASSUME Sane, Settled, NEW p \in Player, NEW s \in Node, s[1] = "resident" => s[2] \in tree, LogonProgram(p, s)
  PROVE  Timed' \subseteq Timed
<1>1. CASE LogonResident(p, s)
  <2>1. s \in agreed
    BY <1>1, NodeFacts DEF LogonResident, Settled
  <2>2. PICK q \in Player : Reconnect(p, s, q) \/ Attach(p, s, q) \/ Motd(p, s, q)
    BY <1>1 DEF LogonResident
  <2>3. timer' = timer \/ timer' = [timer EXCEPT ![p] = "none"]
    BY <2>1, <2>2 DEF Reconnect, Attach, Motd, Stops
  <2> QED BY <2>3 DEF Timed, Sane, Shape
<1>2. CASE AskDisclaimer(p, s) \/ FullyOn(p, s)
  <2>1. timer' = timer \/ timer' = [timer EXCEPT ![p] = "none"]
    BY <1>2 DEF AskDisclaimer, FullyOn, Stops
  <2> QED BY <2>1 DEF Timed, Sane, Shape
<1> QED BY <1>1, <1>2 DEF LogonProgram

LEMMA RunLineTimed ==
  ASSUME Sane, Settled, fatal = "no", NEW p \in Player, RunLine(p)
  PROVE  Timed' \subseteq Timed
<1>1. CASE PlainLine(p) \/ QuitLine(p) \/ PasswordWrong(p) \/ Agree(p) \/ BecomeResident(p)
  BY <1>1 DEF PlainLine, QuitLine, PasswordWrong, Agree, BecomeResident, Timed
<1>2. ASSUME NEW n \in Name, NameResident(p, n) PROVE Timed' \subseteq Timed
  BY <1>2, NodeFacts, LogonProgramTimed DEF NameResident, Timed
<1>3. ASSUME NEW n \in Name, NameNewbie(p, n) PROVE Timed' \subseteq Timed
  <2>1. p \in cron \ on /\ Stays(p)
    BY <1>3 DEF NameNewbie, Running, Stays, Leaving, Sane, Prompted
  <2>2. timer[p] # "none"
    BY <2>1 DEF Sane, Prompted
  <2> QED BY <1>3, <2>2 DEF NameNewbie, Timed, Sane, Shape
<1>4. ASSUME NEW yes \in BOOLEAN, MailPassword(p, yes) PROVE Timed' \subseteq Timed
  BY <1>4 DEF MailPassword, Stops, Timed
<1>5. CASE PasswordRight(p) \/ MotdRead(p) \/ NewbieAnswers(p) \/ Finish(p)
  <2>1. CASE timer' = timer
    BY <2>1 DEF Timed
  <2>2. CASE timer' # timer
    <3>1. LogonProgram(p, saved[p]) /\ \E m \in Mode : Running(p, m) /\ m \in Passwd \cup {"motd", "newbie", "finish"}
      BY <1>5, <2>2 DEF PasswordRight, MotdRead, NewbieAnswers, Finish, Stops, Mode, Dialogue
    <3>2. p \in cron /\ saved[p] # None
      BY <3>1 DEF Running, Sane, Prompted, Stays, Leaving
    <3>3. PICK s \in Node : s = saved[p]
      BY <3>2 DEF Sane, Shape
    <3>4. s[1] = "resident" => s[2] \in tree
      BY <3>2, <3>3, NodeFacts DEF Sane, Nodes
    <3> QED BY <3>1, <3>3, <3>4, LogonProgramTimed
  <2> QED BY <2>1, <2>2
<1> QED BY <1>1, <1>2, <1>3, <1>4, <1>5 DEF RunLine

LEMMA NextTimed ==
  ASSUME Sane, Settled, Next
  PROVE  \/ Timed' \subseteq Timed
         \/ \E p \in Player : p \notin cron /\ Timed' = Timed \cup {p} /\ count + 1 <= MaxLoggingOn
<1>1. fatal = "no"
  BY DEF Next
<1>2. ASSUME NEW p \in Player, NEW c \in Conn, Accept(p, c)
      PROVE  \/ Timed' \subseteq Timed
             \/ p \notin cron /\ Timed' = Timed \cup {p} /\ count + 1 <= MaxLoggingOn
  BY <1>2 DEF Accept, Timed, Sane, Shape
<1>3. ASSUME NEW p \in Player, NEW e \in Event, Choose(p, e) PROVE Timed' \subseteq Timed
  BY <1>3 DEF Choose, Timed
<1>4. ASSUME NEW p \in Player, Visit(p) PROVE Timed' \subseteq Timed
  <2>1. timer' = timer \/ timer' = [timer EXCEPT ![p] = "none"]
    BY <1>4 DEF Visit, Input, NewbieQuits, StrangerQuits, ResidentQuits, Closes, Stops
  <2> QED BY <2>1 DEF Timed, Sane, Shape
<1>5. ASSUME NEW p \in Player, Timers(p) PROVE Timed' \subseteq Timed
  BY <1>5 DEF Timers, LogonStartReal, TimedLogout, TimedIdle, Timed, Sane, Shape
<1>6. ASSUME NEW c \in Conn, PeerCloses(c) PROVE Timed' \subseteq Timed
  BY <1>6 DEF PeerCloses, Timed
<1>7. ASSUME NEW n \in Name, Staff(n) PROVE Timed' \subseteq Timed
  <2>1. timer' = timer
    BY <1>7 DEF Staff, Make, Banish, Nuke, TimedNuke, Unload, Stops, dialogue
  <2> QED BY <2>1 DEF Timed
<1> QED BY <1>1, <1>2, <1>3, <1>4, <1>5, <1>6, <1>7, RunLineTimed DEF Next

LEMMA TimedFacts ==
  ASSUME Sane, Counts, LoggingCounted, fatal = "no"
  PROVE  IsFiniteSet(Timed) /\ Timed \subseteq cron /\ Cardinality(Timed) <= count
<1>1. Timed \subseteq Logging
  BY DEF Timed, Logging, Sane, Blank, Prompted
<1>2. IsFiniteSet(Logging)
  BY FS_Subset DEF Counts, Logging
<1> QED BY <1>1, <1>2, FS_Subset DEF LoggingCounted, Logging

\* Unless staff make residents, no more people are in the logon dialogue at a time
\* than may be: the count that connections are refused by is never too low.
THEOREM TheLimitHolds == ASSUME "make" \notin Exercised PROVE Spec => []AdmissionLimit
<1> DEFINE LInv == IsFiniteSet(Timed) /\ Cardinality(Timed) <= MaxLoggingOn
<1>1. Init => LInv
  <2> SUFFICES ASSUME Init PROVE LInv
    OBVIOUS
  <2>1. Timed = {}
    BY DEF Init, Timed
  <2> QED BY <2>1, FS_EmptySet, LimitAssumption
<1>2. ASSUME IsFiniteSet(Timed), Cardinality(Timed) <= MaxLoggingOn, Timed' \subseteq Timed PROVE LInv'
  BY <1>2, FS_Subset, FS_CardinalityType, LimitAssumption
<1>3. ASSUME Sane, Counts, Settled, LoggingCounted, LInv, Next PROVE LInv'
  <2>1. CASE Timed' \subseteq Timed
    BY <1>2, <1>3, <2>1
  <2>2. ASSUME NEW p \in Player, p \notin cron, Timed' = Timed \cup {p}, count + 1 <= MaxLoggingOn PROVE LInv'
    <3>1. IsFiniteSet(Timed) /\ p \notin Timed /\ Cardinality(Timed) <= count
      BY <1>3, <2>2, TimedFacts DEF Next
    <3>2. PICK S : S = Timed
      OBVIOUS
    <3>3. PICK T : T = Timed'
      OBVIOUS
    <3>4. IsFiniteSet(T) /\ Cardinality(T) = Cardinality(S) + 1
      BY <2>2, <3>1, <3>2, <3>3, OneMore
    <3> QED BY <1>3, <2>2, <3>1, <3>2, <3>3, <3>4, FS_CardinalityType, LimitAssumption DEF Counts
  <2> QED BY <1>3, <2>1, <2>2, NextTimed
<1>4. LInv /\ UNCHANGED vars => LInv'
  BY DEF vars, Timed
<1>5. Sane /\ LInv => AdmissionLimit
  <2> SUFFICES ASSUME Sane, LInv PROVE AdmissionLimit
    OBVIOUS
  <2>1. {p \in Logging : mode[p] # "wait" /\ timer[p] # "none"} \subseteq Timed
    BY DEF Timed, Logging, Sane, Shape
  <2> QED BY <2>1, FS_Subset, FS_CardinalityType, LimitAssumption DEF AdmissionLimit
<1> QED BY <1>1, <1>3, <1>4, <1>5, AlwaysSane, AlwaysCounts, AlwaysSettled, TheCountIsTheLogons, PTL DEF Spec
-----------------------------------------------------------------------------
(* Presence is implemented. *)

\* A connection belongs to one player, and a player that has lost its connection is
\* on its way out.
Wired ==
  /\ \A x, y \in cron : io[x] = io[y] /\ io[x] # None => x = y
  /\ \A x \in cron : io[x] = None => event[x] \in Leaving

LEMMA WiredNext == ASSUME Sane, Wired, "make" \notin Exercised, Settled, Next PROVE Wired'
<1>0. fatal = "no"
  BY DEF Next
<1>1. Step
  BY NextStep
<1>2. ASSUME UNCHANGED <<cron, io>>, Leavers PROVE Wired'
  BY <1>2 DEF Wired, Leavers
<1>3. ASSUME UNCHANGED <<cron, io, event>> PROVE Wired'
  BY <1>3 DEF Wired
<1>4. CASE Halts
  BY <1>3, <1>4 DEF Halts, Stops
<1>5. ASSUME NEW p \in Player, NEW c \in Conn, Accept(p, c) PROVE Wired'
  <2>1. cron' = cron \cup {p} /\ p \notin cron /\ c # None /\ cron \subseteq Player
    BY <1>5, NoneAssumption DEF Accept, Sane, Shape
  <2>2. io'[p] = c /\ \A x \in cron : io'[x] = io[x] /\ io[x] # c
    BY <1>5, <2>1 DEF Accept, Sane, Shape
  <2>3. \A x \in cron : event'[x] = event[x]
    BY <1>5, <2>1 DEF Accept, UserLogoff, Sane, Shape
  <2> QED BY <2>1, <2>2, <2>3 DEF Wired
<1>6. ASSUME NEW p \in Player, NewbieGoes(p) \/ (StrangerQuits(p) /\ count # 0) \/ ResidentQuits(p) PROVE Wired'
  <2>1. cron' = cron \ {p} /\ io' = [io EXCEPT ![p] = None] /\ \E e : event' = [event EXCEPT ![p] = e]
    BY <1>6 DEF NewbieGoes, NewbieQuits, StrangerQuits, ResidentQuits, Closes, Free
  <2> QED BY <2>1 DEF Wired, Sane, Shape
<1>7. ASSUME NEW p \in Player, NEW s \in Node, NEW q \in Player, Moves(p, s, q) PROVE Wired'
  <2>1. HandsOver(p, s, q) /\ q # p /\ cron' = cron \cup {q} /\ p \in cron /\ Stays(p)
    BY <1>0, <1>7, MovesSettled DEF Moves, Calls
  <2>2. /\ io'[p] = None /\ io'[q] = io[p] /\ \A x \in cron \ {p, q} : io'[x] = io[x]
        /\ event'[p] \in Leaving /\ \A x \in cron \ {p, q} : event'[x] = event[x]
    BY <2>1 DEF HandsOver, Sane, Shape, Leaving
  <2>3. io[p] # None
    BY <2>1 DEF Wired, Stays
  <2> QED BY <2>1, <2>2, <2>3 DEF Wired
<1> QED BY <1>1, <1>2, <1>3, <1>4, <1>5, <1>6, <1>7
        DEF Step, Quiet, Forgotten, Agrees, Arrives, Named, Becomes, Asks, Fetches, SentOff, Unloads, Nuked

LEMMA AlwaysWired == ASSUME "make" \notin Exercised PROVE Spec => []Wired
<1>1. Init => Wired
  BY DEF Init, Wired
<1>2. Sane /\ Settled /\ Wired /\ [Next]_vars => Wired'
  <2>1. Wired /\ UNCHANGED vars => Wired'
    BY DEF vars, Wired
  <2> QED BY <2>1, WiredNext
<1> QED BY <1>1, <1>2, AlwaysSane, AlwaysSettled, PTL DEF Spec

\* What a connection serves, and who is present, by the player the connection belongs to.
LEMMA ServesFacts ==
  ASSUME Sane, Wired, NEW c \in Conn
  PROVE  /\ \A x \in cron : io[x] = c => Serves(c) = IF x \in on THEN saved[x][2] ELSE "lobby"
         /\ (\A x \in cron : io[x] # c) => Serves(c) = "free"
<1>1. ASSUME NEW x \in cron, io[x] = c PROVE Serves(c) = IF x \in on THEN saved[x][2] ELSE "lobby"
  <2>1. c # None
    BY NoneAssumption
  <2>2. (CHOOSE q \in cron : io[q] = c) = x
    BY <1>1, <2>1 DEF Wired
  <2> QED BY <1>1, <2>2 DEF Serves
<1>2. ASSUME \A x \in cron : io[x] # c PROVE Serves(c) = "free"
  BY <1>2 DEF Serves
<1> QED BY <1>1, <1>2

LEMMA ServesFactsNext ==
  ASSUME Sane', Wired', NEW c \in Conn
  PROVE  /\ \A x \in cron' : io'[x] = c => Serves(c)' = IF x \in on' THEN saved'[x][2] ELSE "lobby"
         /\ (\A x \in cron' : io'[x] # c) => Serves(c)' = "free"
<1>1. ASSUME NEW x \in cron', io'[x] = c PROVE Serves(c)' = IF x \in on' THEN saved'[x][2] ELSE "lobby"
  <2>1. c # None
    BY NoneAssumption
  <2>2. (CHOOSE q \in cron' : io'[q] = c) = x
    BY <1>1, <2>1 DEF Wired
  <2> QED BY <1>1, <2>2 DEF Serves
<1>2. ASSUME \A x \in cron' : io'[x] # c PROVE Serves(c)' = "free"
  BY <1>2 DEF Serves
<1> QED BY <1>1, <1>2

\* Characters that are on have different names, and no name is a mark of Presence.
LEMMA OnFacts ==
  ASSUME Sane, Settled
  PROVE  /\ \A x \in on : saved[x] \in Node /\ saved[x][2] \in Name /\ saved[x][2] \notin {"free", "lobby"}
         /\ \A x, y \in on : saved[x][2] = saved[y][2] => x = y
<1>1. \A x \in on : saved[x] \in Node /\ ptr[saved[x]] = x /\ x \in cron
  BY DEF Sane, Shape, Prompted
<1>2. \A x \in on : saved[x][2] \in Name /\ saved[x][2] \notin {"free", "lobby"}
  BY <1>1, NodeFacts, NameAssumption
<1>3. ASSUME NEW x \in on, NEW y \in on, saved[x][2] = saved[y][2], x # y PROVE FALSE
  <2>1. ~IsNewbie(x) /\ ~IsNewbie(y)
    BY <1>1, <1>3, NodeFacts DEF Settled, NewbieAlone
  <2>2. saved[x] = saved[y]
    BY <1>1, <1>3, <2>1, NodeFacts DEF IsNewbie
  <2> QED BY <1>1, <1>3, <2>2
<1> QED BY <1>1, <1>2, <1>3
\* Nobody came on or left, and every connection stayed where it was.
LEMMA PresenceStutters ==
  ASSUME Sane, Wired, Sane', Wired', UNCHANGED <<cron, io, on>>, \A x \in on : saved'[x][2] = saved[x][2]
  PROVE  /\ [c \in Conn |-> Serves(c)]' = [c \in Conn |-> Serves(c)]
         /\ {saved[x][2] : x \in on}' = {saved[x][2] : x \in on}
<1>1. ASSUME NEW c \in Conn PROVE Serves(c)' = Serves(c)
  <2>1. CASE \A x \in cron : io[x] # c
    BY <2>1, ServesFacts, ServesFactsNext
  <2>2. ASSUME NEW x \in cron, io[x] = c PROVE Serves(c)' = Serves(c)
    BY <2>2, ServesFacts, ServesFactsNext
  <2> QED BY <2>1, <2>2
<1> QED BY <1>1

LEMMA AcceptPresent ==
  ASSUME Sane, Wired, Sane', Wired', NEW p \in Player, NEW c \in Conn, Accept(p, c)
  PROVE  P!Connect(c)
<1>1. /\ cron' = cron \cup {p} /\ p \notin cron /\ p \notin on /\ on' = on /\ saved' = saved
      /\ io'[p] = c /\ \A x \in cron : io'[x] = io[x] /\ io[x] # c
  BY DEF Accept, Sane, Shape
<1>2. Serves(c) = "free" /\ Serves(c)' = "lobby"
  BY <1>1, ServesFacts, ServesFactsNext
<1>3. ASSUME NEW d \in Conn, d # c PROVE Serves(d)' = Serves(d)
  <2>1. CASE \A x \in cron : io[x] # d
    BY <1>1, <1>3, <2>1, ServesFacts, ServesFactsNext
  <2>2. ASSUME NEW x \in cron, io[x] = d PROVE Serves(d)' = Serves(d)
    BY <1>1, <2>2, ServesFacts, ServesFactsNext
  <2> QED BY <2>1, <2>2
<1>4. [d \in Conn |-> Serves(d)]' = [[d \in Conn |-> Serves(d)] EXCEPT ![c] = "lobby"]
  BY <1>2, <1>3
<1>5. {saved[x][2] : x \in on}' = {saved[x][2] : x \in on}
  BY <1>1
<1> QED BY <1>2, <1>4, <1>5 DEF P!Connect
\* What everybody who leaves does to the others.
LEMMA QuitsFacts ==
  ASSUME Sane, NEW p \in Player, NewbieGoes(p) \/ (StrangerQuits(p) /\ count # 0) \/ ResidentQuits(p)
  PROVE  /\ p \in cron /\ cron' = cron \ {p} /\ on' = on \ {p}
         /\ \A x \in cron \ {p} : io'[x] = io[x] /\ saved'[x] = saved[x]
<1>1. p \in cron /\ cron' = cron \ {p} /\ on' = on \ {p} /\ io' = [io EXCEPT ![p] = None]
  BY DEF NewbieGoes, NewbieQuits, StrangerQuits, ResidentQuits, Quits, Closes
<1>2. saved' = saved \/ saved' = [saved EXCEPT ![p] = None]
  BY DEF NewbieGoes, NewbieQuits, StrangerQuits, ResidentQuits, Free
<1> QED BY <1>1, <1>2 DEF Sane, Shape

LEMMA QuitsPresent ==
  ASSUME Sane, Wired, Settled, Sane', Wired', NEW p \in Player,
         NewbieGoes(p) \/ (StrangerQuits(p) /\ count # 0) \/ ResidentQuits(p)
  PROVE  [P!Next]_(P!vars)
<1>1. /\ p \in cron /\ cron' = cron \ {p} /\ on' = on \ {p} /\ on \subseteq cron
      /\ \A x \in cron \ {p} : io'[x] = io[x] /\ saved'[x] = saved[x]
  BY QuitsFacts DEF Sane, Shape
<1>2. ASSUME NEW d \in Conn, d # io[p] PROVE Serves(d)' = Serves(d)
  <2>1. CASE \A x \in cron : io[x] # d
    BY <1>1, <2>1, ServesFacts, ServesFactsNext
  <2>2. ASSUME NEW x \in cron, io[x] = d PROVE Serves(d)' = Serves(d)
    <3>1. x # p
      BY <1>2, <2>2
    <3> QED BY <1>1, <2>2, <3>1, ServesFacts, ServesFactsNext
  <2> QED BY <2>1, <2>2
<1>3. ASSUME NEW d \in Conn, d = io[p]
      PROVE  Serves(d)' = "free" /\ Serves(d) = IF p \in on THEN saved[p][2] ELSE "lobby"
  <2>1. \A x \in cron' : io'[x] # d
    BY <1>1, <1>3, NoneAssumption DEF Wired
  <2> QED BY <1>1, <1>3, <2>1, ServesFacts, ServesFactsNext
<1>4. CASE p \notin on
  <2>1. {saved[x][2] : x \in on}' = {saved[x][2] : x \in on}
    BY <1>1, <1>4
  <2>2. CASE io[p] \notin Conn
    <3>1. [c \in Conn |-> Serves(c)]' = [c \in Conn |-> Serves(c)]
      BY <1>2, <2>2
    <3> QED BY <2>1, <3>1 DEF P!vars
  <2>3. ASSUME NEW c \in Conn, c = io[p] PROVE P!Next
    <3>1. [d \in Conn |-> Serves(d)]' = [[d \in Conn |-> Serves(d)] EXCEPT ![c] = "free"]
      BY <1>2, <1>3, <2>3
    <3>2. Serves(c) = "lobby"
      BY <1>3, <1>4, <2>3
    <3>3. P!Drop(c)
      BY <2>1, <3>1, <3>2 DEF P!Drop
    <3> QED BY <3>3 DEF P!Next
  <2> QED BY <2>2, <2>3
<1>5. CASE p \in on
  <2>1. PICK n \in Name : n = saved[p][2] /\ n # "free" /\ n # "lobby"
    BY <1>5, OnFacts
  <2>2. {saved[x][2] : x \in on}' = {saved[x][2] : x \in on} \ {n}
    BY <1>1, <1>5, <2>1, OnFacts
  <2>3. ASSUME NEW d \in Conn PROVE Serves(d)' = IF Serves(d) = n THEN "free" ELSE Serves(d)
    <3>1. CASE d = io[p]
      BY <1>3, <1>5, <2>1, <3>1
    <3>2. CASE d # io[p]
      <4>1. Serves(d) # n
        <5>1. CASE \A x \in cron : io[x] # d
          BY <2>1, <5>1, ServesFacts
        <5>2. ASSUME NEW x \in cron, io[x] = d PROVE Serves(d) # n
          <6>1. x # p
            BY <3>2, <5>2
          <6> QED BY <1>5, <2>1, <5>2, <6>1, ServesFacts, OnFacts
        <5> QED BY <5>1, <5>2
      <4> QED BY <1>2, <3>2, <4>1
    <3> QED BY <3>1, <3>2
  <2>4. P!Depart(n)
    <3>1. [d \in Conn |-> Serves(d)]' = [d \in Conn |-> IF Serves(d) = n THEN "free" ELSE Serves(d)]
      BY <2>3
    <3>2. n \in {saved[x][2] : x \in on}
      BY <1>5, <2>1
    <3> QED BY <2>2, <3>1, <3>2 DEF P!Depart
  <2> QED BY <2>4 DEF P!Next
<1> QED BY <1>4, <1>5

\* A player comes on with a connection of its own.
LEMMA ArrivesPresent ==
  ASSUME Sane, Wired, Settled, Sane', Wired', NEW p \in Player, Arrives(p)
  PROVE  P!Next
<1>1. p \in cron \ on /\ saved[p] \in Node /\ on' = on \cup {p} /\ UNCHANGED <<cron, saved, io>>
  BY DEF Arrives
<1>2. saved[p][1] = "newbie"
  BY NodeFacts DEF Arrives, Settled
<1>3. PICK c \in Conn : c = io[p]
  BY DEF Arrives, Wired, Stays, Sane, Shape
<1>4. PICK n \in Name : n = saved[p][2]
  BY <1>1, NodeFacts
<1>5. n \notin {saved[x][2] : x \in on}
  <2> SUFFICES ASSUME NEW x \in on PROVE saved[x][2] # n
    OBVIOUS
  <2>1. x \in cron /\ saved[x] # None /\ x # p /\ IsNewbie(p)
    BY <1>1, <1>2, NodeFacts DEF Sane, Shape, Prompted, IsNewbie
  <2> QED BY <1>1, <1>4, <2>1 DEF Settled, NewbieAlone
<1>6. Serves(c) = "lobby" /\ Serves(c)' = n
  BY <1>1, <1>3, <1>4, ServesFacts, ServesFactsNext
<1>7. ASSUME NEW d \in Conn, d # c PROVE Serves(d)' = Serves(d)
  <2>1. CASE \A x \in cron : io[x] # d
    BY <1>1, <2>1, ServesFacts, ServesFactsNext
  <2>2. ASSUME NEW x \in cron, io[x] = d PROVE Serves(d)' = Serves(d)
    <3>1. x # p
      BY <1>3, <1>7, <2>2
    <3> QED BY <1>1, <2>2, <3>1, ServesFacts, ServesFactsNext
  <2> QED BY <2>1, <2>2
<1>8. [d \in Conn |-> Serves(d)]' = [[d \in Conn |-> Serves(d)] EXCEPT ![c] = n]
  BY <1>6, <1>7
<1>9. {saved[x][2] : x \in on}' = {saved[x][2] : x \in on} \cup {n}
  BY <1>1, <1>4
<1>10. P!Sit(c, n)
  BY <1>5, <1>6, <1>8, <1>9 DEF P!Sit
<1> QED BY <1>10 DEF P!Next

\* The connection of p is handed to a player that is on, or that comes on with it.
LEMMA MovesPresent ==
  ASSUME Sane, Wired, Settled, Sane', Wired', fatal = "no", NEW p \in Player, NEW s \in Node, NEW q \in Player,
         Moves(p, s, q)
  PROVE  P!Next
<1>1. /\ HandsOver(p, s, q) /\ q # p /\ q \notin cron \ on /\ cron' = cron \cup {q} /\ on' = on \cup {q}
  BY MovesSettled
<1>2. p \in cron \ on /\ Stays(p) /\ s[1] = "resident" /\ s[2] \in tree
  BY DEF Moves, Calls
<1>3. PICK c \in Conn : c = io[p]
  BY <1>2 DEF Wired, Stays, Sane, Shape
<1>4. PICK n \in Name : n = s[2] /\ s = Resident(n) /\ s # None /\ n # "free" /\ n # "lobby"
  BY <1>2, NodeFacts, NameAssumption
<1>5. /\ io'[p] = None /\ io'[q] = c /\ saved'[q] = s
      /\ \A x \in cron \ {p, q} : io'[x] = io[x] /\ saved'[x] = saved[x]
  BY <1>1, <1>3 DEF HandsOver, Sane, Shape
<1>6. q \in on => saved[q] = s /\ ptr[s] = q
  <2> SUFFICES ASSUME q \in on PROVE saved[q] = s /\ ptr[s] = q
    OBVIOUS
  <2>1. q \in alloc /\ Loads(s, q) /\ Loaded(s, q)
    BY <1>1 DEF Sane, Shape, HandsOver, Moves
  <2> QED BY <2>1, LoadsFacts DEF Loads
<1>7. \A x \in on : x # q => saved[x][2] # n
  <2> SUFFICES ASSUME NEW x \in on, x # q, saved[x][2] = n PROVE FALSE
    OBVIOUS
  <2>1. x \in cron /\ saved[x] \in Node /\ ptr[saved[x]] = x
    BY DEF Sane, Shape, Prompted
  <2>2. saved[x] = s
    BY <1>2, <1>4, <2>1, NodeFacts DEF Settled
  <2>3. x \in alloc /\ Loads(s, q) /\ Loaded(s, q)
    BY <1>1, <2>1 DEF Sane, Shape, HandsOver, Moves
  <2> QED BY <2>1, <2>2, <2>3, LoadsFacts
<1>8. Serves(c) = "lobby" /\ Serves(c)' = n
  BY <1>1, <1>2, <1>3, <1>4, <1>5, ServesFacts, ServesFactsNext
<1>9. ASSUME NEW d \in Conn, d # c PROVE Serves(d)' = IF Serves(d) = n THEN "free" ELSE Serves(d)
  <2>1. CASE \A x \in cron : io[x] # d
    <3>1. \A x \in cron' : io'[x] # d
      BY <1>1, <1>5, <1>9, <2>1, NoneAssumption
    <3> QED BY <1>4, <2>1, <3>1, ServesFacts, ServesFactsNext
  <2>2. ASSUME NEW x \in cron, io[x] = d, x = q PROVE Serves(d)' = IF Serves(d) = n THEN "free" ELSE Serves(d)
    <3>1. q \in on /\ Serves(d) = n
      BY <1>1, <1>4, <1>6, <2>2, ServesFacts
    <3>2. \A y \in cron' : io'[y] # d
      BY <1>1, <1>5, <1>9, <2>2, NoneAssumption DEF Wired
    <3> QED BY <3>1, <3>2, ServesFactsNext
  <2>3. ASSUME NEW x \in cron, io[x] = d, x # q PROVE Serves(d)' = IF Serves(d) = n THEN "free" ELSE Serves(d)
    <3>1. x # p /\ x \in cron' /\ io'[x] = d /\ saved'[x] = saved[x] /\ (x \in on' <=> x \in on)
      BY <1>1, <1>3, <1>5, <1>9, <2>3
    <3>2. Serves(d)' = Serves(d)
      BY <2>3, <3>1, ServesFacts, ServesFactsNext
    <3>3. Serves(d) # n
      BY <1>4, <1>7, <2>3, ServesFacts
    <3> QED BY <3>2, <3>3
  <2> QED BY <2>1, <2>2, <2>3
<1>10. CASE q \in on
  <2>1. [d \in Conn |-> Serves(d)]' = [d \in Conn |-> IF d = c THEN n ELSE IF Serves(d) = n THEN "free" ELSE Serves(d)]
    BY <1>8, <1>9
  <2>2. n \in {saved[x][2] : x \in on}
    BY <1>4, <1>6, <1>10
  <2>3. on' = on /\ \A x \in on : saved'[x] = saved[x]
    BY <1>1, <1>2, <1>5, <1>6, <1>10 DEF Sane, Shape
  <2>4. {saved[x][2] : x \in on}' = {saved[x][2] : x \in on}
    BY <2>3
  <2>5. P!TakeOver(c, n)
    BY <1>8, <2>1, <2>2, <2>4 DEF P!TakeOver
  <2> QED BY <2>5 DEF P!Next
<1>11. CASE q \notin on
  <2>1. \A x \in on : saved[x][2] # n
    BY <1>7, <1>11
  <2>2. \A d \in Conn : d # c => Serves(d) # n
    <3> SUFFICES ASSUME NEW d \in Conn, d # c PROVE Serves(d) # n
      OBVIOUS
    <3>1. CASE \A x \in cron : io[x] # d
      BY <1>4, <3>1, ServesFacts
    <3>2. ASSUME NEW x \in cron, io[x] = d PROVE Serves(d) # n
      BY <1>4, <2>1, <3>2, ServesFacts
    <3> QED BY <3>1, <3>2
  <2>3. [d \in Conn |-> Serves(d)]' = [[d \in Conn |-> Serves(d)] EXCEPT ![c] = n]
    BY <1>8, <1>9, <2>2
  <2>4. saved'[q][2] = n /\ \A x \in on : saved'[x] = saved[x]
    BY <1>1, <1>2, <1>4, <1>5, <1>11 DEF Sane, Shape
  <2>5. {saved[x][2] : x \in on}' = {saved[x][2] : x \in on} \cup {n}
    BY <1>1, <2>4
  <2>6. P!Sit(c, n)
    BY <1>8, <2>1, <2>3, <2>5 DEF P!Sit
  <2> QED BY <2>6 DEF P!Next
<1> QED BY <1>10, <1>11
LEMMA PresenceStep ==
  ASSUME Sane, Wired, Settled, Sane', Wired', Next
  PROVE  [P!Next]_(P!vars)
<1>0. fatal = "no"
  BY DEF Next
<1>1. Step
  BY NextStep
<1>2. ASSUME UNCHANGED <<cron, io, on>>, \A x \in on : saved'[x][2] = saved[x][2] PROVE [P!Next]_(P!vars)
  BY <1>2, PresenceStutters DEF P!vars
<1>3. on \subseteq cron /\ on \subseteq Player
  BY DEF Sane, Shape
<1>4. CASE Quiet \/ Halts
  BY <1>2, <1>4 DEF Quiet, Halts, Stops
<1>5. ASSUME NEW p \in Player, NEW c \in Conn, Accept(p, c) PROVE P!Next
  BY <1>5, AcceptPresent DEF P!Next
<1>6. ASSUME NEW p \in Player, Forgotten(p) \/ Agrees(p) PROVE [P!Next]_(P!vars)
  <2>1. UNCHANGED <<cron, io, on>> /\ \A x \in on : saved'[x] = saved[x]
    BY <1>3, <1>6 DEF Forgotten, Agrees, Sane, Shape
  <2> QED BY <1>2, <2>1
<1>7. ASSUME NEW p \in Player, NEW n \in Name, Named(p, n) \/ Becomes(p, n) PROVE [P!Next]_(P!vars)
  <2>1. UNCHANGED <<cron, io, on>>
    BY <1>7 DEF Named, Becomes
  <2>2. \A x \in on : saved'[x][2] = saved[x][2]
    <3>1. CASE Named(p, n)
      BY <1>3, <3>1 DEF Named, Sane, Shape
    <3>2. CASE Becomes(p, n)
      <4>1. saved'[p][2] = saved[p][2] /\ \A x \in Player \ {p} : saved'[x] = saved[x]
        BY <3>2, NodeFacts DEF Becomes, Sane, Shape
      <4> QED BY <1>3, <4>1
    <3> QED BY <1>7, <3>1, <3>2
  <2> QED BY <1>2, <2>1, <2>2
<1>8. ASSUME NEW p \in Player, NEW s \in Node, NEW q \in Player, Asks(p, s, q) PROVE [P!Next]_(P!vars)
  <2>1. UNCHANGED <<cron, io, on>> /\ p \notin on
    BY <1>8 DEF Asks, Calls
  <2>2. q \in on => saved'[q] = saved[q]
    BY <1>0, <1>3, <1>8, LoadsFacts DEF Asks, Sane, Shape
  <2>3. \A x \in on : saved'[x] = saved[x]
    BY <1>3, <1>8, <2>1, <2>2 DEF Asks
  <2> QED BY <1>2, <2>1, <2>3
<1>9. ASSUME NEW n \in Name, NEW s \in Node, NEW q \in Player, Fetches(n, s, q) PROVE [P!Next]_(P!vars)
  <2>1. UNCHANGED <<cron, io, on>>
    BY <1>9 DEF Fetches
  <2>2. q \in on => saved[q] = s
    BY <1>0, <1>3, <1>9, LoadsFacts DEF Fetches, Sane, Shape
  <2>3. \A x \in on : saved'[x] = saved[x]
    BY <1>3, <1>9, <2>2 DEF Fetches, Sane, Shape
  <2> QED BY <1>2, <2>1, <2>3
<1>10. ASSUME NEW s \in Node, NEW q \in Player, SentOff(s, q) \/ Unloads(s, q) PROVE [P!Next]_(P!vars)
  <2>1. UNCHANGED <<cron, io, on>> /\ \A x \in on : saved'[x] = saved[x]
    BY <1>3, <1>10 DEF SentOff, Unloads, Sane, Shape
  <2> QED BY <1>2, <2>1
<1>11. ASSUME NEW n \in Name, Nuked(n) PROVE [P!Next]_(P!vars)
  BY <1>2, <1>11 DEF Nuked
<1> QED BY <1>0, <1>1, <1>4, <1>5, <1>6, <1>7, <1>8, <1>9, <1>10, <1>11, QuitsPresent, ArrivesPresent, MovesPresent
        DEF Step

\* Unless staff make residents, logging on and off implements Presence: whatever
\* players a connection is handed to on its way, a character is on with at most one
\* connection, a reconnection takes it over, and nobody is left with another's.
THEOREM PresenceIsImplemented == ASSUME "make" \notin Exercised PROVE Spec => PresenceSpec
<1>1. Init => P!Init
  <2> SUFFICES ASSUME Init PROVE P!Init
    OBVIOUS
  <2>1. \A c \in Conn : Serves(c) = "free"
    BY DEF Init, Serves
  <2> QED BY <2>1 DEF Init, P!Init
<1>2. Sane /\ Wired /\ Settled /\ Sane' /\ Wired' /\ [Next]_vars => [P!Next]_(P!vars)
  <2>1. ASSUME Sane, Wired, Sane', Wired', UNCHANGED vars PROVE [P!Next]_(P!vars)
    BY <2>1, PresenceStutters DEF vars, P!vars
  <2> QED BY <2>1, PresenceStep
<1> QED BY <1>1, <1>2, AlwaysSane, AlwaysWired, AlwaysSettled, PTL DEF Spec, PresenceSpec, P!Spec
=============================================================================
