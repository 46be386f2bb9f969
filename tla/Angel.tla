------------------------------- MODULE Angel -------------------------------
(***************************************************************************)
(* The guardian angel (angelserver/angel.c), which starts the talker and   *)
(* starts it again when it dies or stops answering, and the talker's side  *)
(* of it (angel.c).  They write single characters to each other over two   *)
(* pipes (child_com.c), and each kills the other when it is silent for     *)
(* too long.                                                               *)
(*                                                                         *)
(* A tick is the time between two pings of the talker (four seconds).  The *)
(* main loops are quicker than that, so that in a tick each side looks at  *)
(* its pipe, and a talker whose timers run pings.                          *)
(***************************************************************************)
EXTENDS Integers

CONSTANTS
  MinTimeHalt,  \* ANGEL_MIN_TIME_HALT, in ticks
  MaxTimeHalt,  \* ANGEL_MAX_TIME_HALT
  RebootLimit,  \* ANGEL_MAX_REBOOT_LIMIT
  TimeoutBoot,  \* ANGEL_TIMEOUT_BOOT
  TimeoutAngel  \* 200 seconds, after which the talker gives its angel up

ASSUME TimeAssumption ==
  /\ MinTimeHalt \in Nat \ {0} /\ MaxTimeHalt \in Nat /\ MinTimeHalt < MaxTimeHalt
  /\ TimeoutBoot \in Nat \ {0} /\ TimeoutAngel \in Nat \ {0}
ASSUME LimitAssumption == RebootLimit \in Nat

VARIABLES
  angel,    \* what the angel is doing: about to fork, looking after a talker, gone
  crashes,
  booted,   \* total_boots > 0
  since,    \* time since booted_on
  lived,    \* time since the talker was last started
  didBoot,  \* did_boot
  talker,   \* the state of the talker process
  parent,   \* the talker has an angel (parent is not NULL)
  toAngel,  \* there is something in the pipe to the angel
  toTalker, \* there is something in the pipe to the talker
  heard,    \* time stamps of the angel's child_com
  answered, \* time stamps of the talker's
  acted     \* who has done what it does in every tick

counters == <<crashes, booted, since, lived>>
pipes == <<toAngel, toTalker>>
vars == <<angel, counters, didBoot, talker, parent, pipes, heard, answered, acted>>

Cap == MaxTimeHalt + TimeoutBoot + TimeoutAngel
Grow(n) == IF n < Cap THEN n + 1 ELSE n

\* A child_com: how long ago something was received, and whether something was
\* sent in a later second than that.
Stamps == [age : 0..Cap, asked : BOOLEAN]
Fresh == [age |-> 0, asked |-> FALSE]
Sent(w) == [w EXCEPT !.asked = w.age > 0]
WaitingInput(w, seconds) == w.asked /\ w.age > seconds

TypeOK ==
  /\ angel \in {"fork", "watch", "gone"}
  /\ crashes \in 0..(RebootLimit + 1) /\ booted \in BOOLEAN
  /\ since \in 0..Cap /\ lived \in 0..Cap
  /\ didBoot \in BOOLEAN
  /\ talker \in {"none", "boot", "run", "hung", "dead"}
  /\ parent \in BOOLEAN
  /\ toAngel \in BOOLEAN /\ toTalker \in BOOLEAN
  /\ heard \in Stamps /\ answered \in Stamps
  /\ acted \subseteq {"angel", "talker"}

Init ==
  /\ angel = "fork" /\ crashes = 0 /\ booted = FALSE /\ since = 0 /\ lived = 0
  /\ didBoot = FALSE
  /\ talker = "none" /\ parent = FALSE
  /\ toAngel = FALSE /\ toTalker = FALSE
  /\ heard = Fresh /\ answered = Fresh
  /\ acted = {}

-----------------------------------------------------------------------------
(* The angel *)

\* (A version of Halts without the limit on reboots.)
Halts_mutant == booted /\ since < MinTimeHalt

\* Too many boots since booted_on, or booted_on was a moment ago.
Halts == booted /\ (crashes > RebootLimit \/ since < MinTimeHalt)

Stop ==
  /\ angel = "fork" /\ Halts
  /\ angel' = "gone"
  /\ UNCHANGED <<counters, didBoot, talker, parent, pipes, heard, answered, acted>>

\* The talker is started, and the header is written to it; child_com_create may
\* fail.
Fork ==
  /\ angel = "fork" /\ ~Halts
  /\ IF since > MaxTimeHalt THEN since' = 0 /\ crashes' = 1
                            ELSE crashes' = crashes + 1 /\ UNCHANGED since
  /\ booted' = TRUE
  /\ lived' = 0
  /\ didBoot' = FALSE
  /\ \/ angel' = "watch" /\ talker' = "boot"
     \/ angel' = "gone" /\ UNCHANGED talker
  /\ parent' = FALSE
  /\ toAngel' = FALSE /\ toTalker' = TRUE
  /\ heard' = Fresh /\ answered' = Fresh
  /\ acted' = {"angel"}

\* (Versions of Look that do not note when they read, and that do not write.)
Look_deaf ==
  /\ angel = "watch" /\ talker # "dead"
  /\ toAngel \/ ~WaitingInput(heard, TimeoutBoot)
  /\ didBoot' = (didBoot \/ toAngel)
  /\ heard' = Sent(heard)
  /\ toAngel' = FALSE /\ toTalker' = TRUE
  /\ acted' = acted \cup {"angel"}
  /\ UNCHANGED <<angel, counters, talker, parent, answered>>
Look_mute ==
  /\ angel = "watch" /\ talker # "dead"
  /\ toAngel \/ ~WaitingInput(heard, TimeoutBoot)
  /\ didBoot' = (didBoot \/ toAngel)
  /\ heard' = IF toAngel THEN Fresh ELSE heard
  /\ toAngel' = FALSE
  /\ acted' = acted \cup {"angel"}
  /\ UNCHANGED <<angel, counters, talker, parent, toTalker, answered>>

\* A round of the loop that waits for the talker to boot, which it also stays in
\* when the talker has: it looks for input, and sends a character.
Look ==
  /\ angel = "watch" /\ talker # "dead"
  /\ toAngel \/ ~WaitingInput(heard, TimeoutBoot)
  /\ didBoot' = (didBoot \/ toAngel)
  /\ heard' = Sent(IF toAngel THEN Fresh ELSE heard)
  /\ toAngel' = FALSE /\ toTalker' = TRUE
  /\ acted' = acted \cup {"angel"}
  /\ UNCHANGED <<angel, counters, talker, parent, answered>>

\* The pipe is broken, or nothing was heard for ANGEL_TIMEOUT_BOOT.  The second
\* loop ends at its first test then.  A talker that booted is killed; one that
\* did not is left, and the angel stops.
GiveUp ==
  /\ angel = "watch"
  /\ talker = "dead" \/ (~toAngel /\ WaitingInput(heard, TimeoutBoot))
  /\ IF didBoot THEN angel' = "fork" /\ talker' = "none" /\ parent' = FALSE
                ELSE angel' = "gone" /\ UNCHANGED <<talker, parent>>
  /\ acted' = acted \cup {"angel"}
  /\ UNCHANGED <<counters, didBoot, pipes, heard, answered>>

\* A signal from outside (angel_shutdown, among others).
AngelDies ==
  /\ angel # "gone"
  /\ angel' = "gone"
  /\ UNCHANGED <<counters, didBoot, talker, parent, pipes, heard, answered, acted>>

-----------------------------------------------------------------------------
(* The talker *)

\* init_angel reads the header.
Boot ==
  /\ talker = "boot" /\ toTalker
  /\ talker' = "run" /\ parent' = TRUE
  /\ toTalker' = FALSE
  /\ answered' = Fresh
  /\ UNCHANGED <<angel, counters, didBoot, toAngel, heard, acted>>

\* (A version of CloseParent that keeps the pointer.)
CloseParent_mutant ==
  /\ angel' = "gone"
  /\ UNCHANGED <<parent, toAngel, toTalker, answered>>

\* angel_close_parent kills the angel, if it is still there.
CloseParent ==
  /\ parent' = FALSE
  /\ angel' = "gone"
  /\ UNCHANGED <<toAngel, toTalker, answered>>

\* timed_angel_ping, and angel_socket_do in the main loop.
Ping ==
  /\ talker = "run" /\ parent
  /\ IF angel = "gone" \/ (~toTalker /\ WaitingInput(answered, TimeoutAngel))
     THEN CloseParent
     ELSE /\ toAngel' = TRUE /\ toTalker' = FALSE
          /\ answered' = Sent(IF toTalker THEN Fresh ELSE answered)
          /\ UNCHANGED <<angel, parent>>
  /\ acted' = acted \cup {"talker"}
  /\ UNCHANGED <<counters, didBoot, talker, heard>>

\* The talker loops or blocks for ever, or ends: a crash or a shutdown.
Hang ==
  /\ talker \in {"boot", "run"}
  /\ talker' = "hung"
  /\ UNCHANGED <<angel, counters, didBoot, parent, pipes, heard, answered, acted>>
Die ==
  /\ talker \in {"boot", "run", "hung"}
  /\ talker' = "dead"
  /\ UNCHANGED <<angel, counters, didBoot, parent, pipes, heard, answered, acted>>

Tick ==
  /\ angel = "watch" => "angel" \in acted
  /\ talker = "run" /\ parent => "talker" \in acted
  /\ angel # "fork"
  /\ acted' = {}
  /\ since' = Grow(since) /\ lived' = Grow(lived)
  /\ heard' = [heard EXCEPT !.age = Grow(@)]
  /\ answered' = [answered EXCEPT !.age = Grow(@)]
  /\ UNCHANGED <<angel, crashes, booted, didBoot, talker, parent, pipes>>

Next ==
  \/ Stop \/ Fork \/ Look \/ GiveUp \/ AngelDies
  \/ Boot \/ Ping \/ Hang \/ Die
  \/ Tick

Spec == Init /\ [][Next]_vars

\* The main loops go round and time passes.
Fairness ==
  /\ WF_vars(Stop) /\ WF_vars(Fork) /\ WF_vars(Look) /\ WF_vars(GiveUp)
  /\ WF_vars(Ping) /\ WF_vars(Tick)
FairSpec == Spec /\ Fairness

-----------------------------------------------------------------------------
(* Properties *)

\* A talker that pings is not killed by its angel, nor the angel by the talker.
NobodyKillsTheLiving ==
  [][/\ talker = "run" /\ talker' = "none" => FALSE
     /\ angel = "watch" /\ ~parent' /\ parent => talker \in {"hung", "dead"}]_vars

\* A talker that has died, or that hangs, is not left like that by an angel that
\* goes on: it is replaced, or the angel stops.
Replaced == talker \in {"dead", "hung"} ~> talker \notin {"dead", "hung"} \/ angel = "gone"

\* An angel is heard of, or the talker knows that it is alone.
TalkerKnows == angel = "gone" ~> ~parent \/ talker # "run"

\* Two deaths in a row within ANGEL_MIN_TIME_HALT stop the angel ("if we die
\* twice in this time, halt"): a talker is not started again that soon after
\* the last start.
DiesTwiceHalts ==
  [][angel = "fork" /\ angel' = "watch" /\ booted => lived >= MinTimeHalt]_vars
=============================================================================
