------------------------------ MODULE Session ------------------------------
(***************************************************************************)
(* The life of a connection to the talker: accept, logon dialogue,         *)
(* reconnection and logoff (socket.c, logon.c, logoff.c, player_event.c,   *)
(* load_player.c), and the staff commands that reach into it (privs.c,     *)
(* auth_player.c, nuke.c).                                                 *)
(*                                                                         *)
(* There are two kinds of object.  A player (struct player) is one entry   *)
(* of the main loop; it owns a connection.  A node (struct                 *)
(* player_tree_node) is a character; node->player_ptr is the player that   *)
(* holds its data.  A resident who logs on starts with a player of its own *)
(* and, once the password is right, the connection is moved to the player  *)
(* of the node; the first player is then destroyed.  A newbie keeps the    *)
(* player it came with.                                                    *)
(*                                                                         *)
(* The main loop visits every player of the cron list, one event each; the *)
(* timers run between two visits.  Every action below is one visit, one    *)
(* timer or one staff command.                                             *)
(***************************************************************************)
EXTENDS Integers, FiniteSets, Functions

CONSTANTS
  Player,        \* addresses of struct player
  Conn,          \* file descriptors of connections
  Name,          \* names of characters
  Residents,     \* the names that are residents at boot
  MaxLoggingOn,  \* auth_player_logging_on_max
  Exercised,     \* the commands and timers this instance exercises
  None           \* the NULL pointer, and no connection

Optional == {"become", "make", "banish", "nuke", "unload", "idle"}

\* The marks are those that Presence gives to a connection without a character.
ASSUME NameAssumption == Residents \subseteq Name /\ Name \cap {"free", "lobby"} = {}
ASSUME LimitAssumption == MaxLoggingOn \in Nat
ASSUME ExercisedAssumption == Exercised \subseteq Optional
ASSUME NoneAssumption == None \notin Player /\ None \notin Conn

VARIABLES
  alloc,     \* players that are allocated
  cron,      \* players on the list the main loop visits
  event,     \* p->event
  saved,     \* p->saved
  on,        \* players with is_fully_on
  io,        \* p->io_indicator
  hungup,    \* connections the other end has closed
  mode,      \* MODE_CURRENT(p); "wait" until allow_run_commands is set
  timer,     \* the node of logon_timer_queue of p
  idle,      \* players with idle_in_queue
  ptr,       \* node->player_ptr
  tree,      \* names in the tree of residents
  agreed,    \* nodes with flag_agreed_disclaimer
  banished,  \* names with priv_banished
  nuking,    \* names in nuke_timer_queue
  count,     \* logging_onto_count
  current,   \* current_players
  fatal      \* "no", or what stopped the program

dialogue == <<event, mode, timer>>
nodes    == <<ptr, tree, agreed, banished, nuking>>
vars     == <<alloc, cron, event, saved, on, io, hungup, mode, timer, idle,
              ptr, tree, agreed, banished, nuking, count, current, fatal>>

Newbie(n)   == <<"newbie", n>>
Resident(n) == <<"resident", n>>
Node        == {"newbie", "resident"} \X Name
ASSUME NodeAssumption == None \notin Node

Rank == [choose |-> 0, input |-> 2, run_command |-> 3, logoff |-> 4,
         reconnection |-> 5, bad_fd |-> 6]
Event == DOMAIN Rank
Leaving == {"logoff", "reconnection", "bad_fd"}

Passwd == {"passwd_1", "passwd_2", "passwd_3"}
Dialogue == Passwd \cup {"name", "mail", "motd", "newbie", "disclaimer", "finish"}
Mode == Dialogue \cup {"none", "wait", "base"}

TypeOK ==
  /\ alloc \subseteq Player /\ cron \subseteq alloc /\ on \subseteq cron
  /\ idle \subseteq on
  /\ event \in [Player -> Event]
  /\ saved \in [Player -> Node \cup {None}]
  /\ io \in [Player -> Conn \cup {None}]
  /\ hungup \subseteq Conn
  /\ mode \in [Player -> Mode]
  /\ timer \in [Player -> {"none", "start", "logout"}]
  /\ ptr \in [Node -> Player \cup {None}]
  /\ tree \subseteq Name /\ agreed \subseteq Node
  /\ banished \subseteq Name /\ nuking \subseteq Name
  /\ count \in Nat /\ current \in Nat
  /\ fatal \in {"no", "dangling", "count", "twice", "name", "unloaded", "freed"}

Init ==
  /\ alloc = {} /\ cron = {} /\ on = {} /\ idle = {} /\ hungup = {}
  /\ event = [p \in Player |-> "choose"]
  /\ saved = [p \in Player |-> None]
  /\ io = [p \in Player |-> None]
  /\ mode = [p \in Player |-> "none"]
  /\ timer = [p \in Player |-> "none"]
  /\ ptr = [s \in Node |-> None]
  /\ tree = Residents
  /\ agreed = {Resident(n) : n \in Residents}
  /\ banished = {} /\ nuking = {}
  /\ count = 0 /\ current = 0
  /\ fatal = "no"

-----------------------------------------------------------------------------
(* Helpers *)

\* PLAYER_EVENT_UPGRADE: a later event never replaces a more urgent one.
Upgrade(e, to) == IF Rank[e] < Rank[to] THEN to ELSE e

\* user_logoff, for every player of ps.
UserLogoff(ps) ==
  event' = [p \in Player |-> IF p \in ps THEN Upgrade(event[p], "logoff")
                             ELSE event[p]]

\* The command handler of p leaves it at prompt m.
Prompt(p, m) ==
  /\ mode' = [mode EXCEPT ![p] = m]
  /\ event' = [event EXCEPT ![p] = "choose"]

\* (A version of Loads that does not look for a loaded player.)
Loads_mutant(s, q) == q \notin alloc

\* player_load(s) finds, or allocates, the player q of the node s.
Loads(s, q) == IF ptr[s] = None THEN q \notin alloc ELSE q = ptr[s]
Loaded(s, q) ==
  /\ alloc' = alloc \cup {q}
  /\ ptr' = [ptr EXCEPT ![s] = q]

\* XFREE(p): what the address holds is forgotten.
Free(p) ==
  /\ alloc' = alloc \ {p}
  /\ event' = [event EXCEPT ![p] = "choose"]
  /\ saved' = [saved EXCEPT ![p] = None]
  /\ mode' = [mode EXCEPT ![p] = "none"]

\* An assertion fails, or freed memory is about to be used.
Stops(why) ==
  /\ fatal' = why
  /\ UNCHANGED <<alloc, cron, event, saved, on, io, hungup, mode, timer, idle,
                 ptr, tree, agreed, banished, nuking, count, current>>

Logging == cron \ on       \* players that are not fully on
IsNewbie(p) == saved[p] # None /\ saved[p][1] = "newbie"
Running(p, m) == p \in cron /\ event[p] = "run_command" /\ mode[p] = m

-----------------------------------------------------------------------------
(* Connections and timers *)

\* (A version of Accept that looks at the count before adding to it.)
Accept_mutant(p, c) ==
  /\ p \notin alloc
  /\ c \notin {io[q] : q \in Player}
  /\ alloc' = alloc \cup {p}
  /\ cron' = cron \cup {p}
  /\ count' = count + 1
  /\ io' = [io EXCEPT ![p] = c]
  /\ mode' = [mode EXCEPT ![p] = "wait"]
  /\ \/ /\ count <= MaxLoggingOn
        /\ timer' = [timer EXCEPT ![p] = "start"]
        /\ UNCHANGED event
     \/ UserLogoff({p}) /\ UNCHANGED timer
  /\ UNCHANGED <<saved, on, hungup, idle, current, fatal, nodes>>

\* socket_accept_connection.  auth_check_logon turns the connection away when
\* too many are logging on, or for its address.
Accept(p, c) ==
  /\ p \notin alloc
  /\ c \notin {io[q] : q \in Player}
  /\ alloc' = alloc \cup {p}
  /\ cron' = cron \cup {p}
  /\ count' = count + 1
  /\ io' = [io EXCEPT ![p] = c]
  /\ mode' = [mode EXCEPT ![p] = "wait"]
  /\ \/ /\ count' <= MaxLoggingOn
        /\ timer' = [timer EXCEPT ![p] = "start"]
        /\ UNCHANGED event
     \/ UserLogoff({p}) /\ UNCHANGED timer
  /\ UNCHANGED <<saved, on, hungup, idle, current, fatal, nodes>>

\* timed_logon after four seconds, or logon_shortcut_logon_start when the
\* terminal and the host name are known before that.
LogonStartReal(p) ==
  /\ timer[p] = "start"
  /\ timer' = [timer EXCEPT ![p] = "logout"]
  /\ mode' = [mode EXCEPT ![p] = "name"]
  /\ UNCHANGED <<alloc, cron, event, saved, on, io, hungup, idle, count,
                 current, fatal, nodes>>

TimedLogout(p) ==
  /\ timer[p] = "logout"
  /\ timer' = [timer EXCEPT ![p] = "none"]
  /\ UserLogoff({p})
  /\ UNCHANGED <<alloc, cron, saved, on, io, hungup, mode, idle, count,
                 current, fatal, nodes>>

\* timed_idle_func, when the player was warned and stayed idle.
TimedIdle(p) ==
  /\ "idle" \in Exercised
  /\ p \in idle
  /\ idle' = idle \ {p}
  /\ UserLogoff({p})
  /\ UNCHANGED <<alloc, cron, saved, on, io, hungup, mode, timer, count,
                 current, fatal, nodes>>

PeerCloses(c) ==
  /\ c \in {io[p] : p \in cron} \ hungup
  /\ hungup' = hungup \cup {c}
  /\ UNCHANGED <<alloc, cron, event, saved, on, io, mode, timer, idle, count,
                 current, fatal, nodes>>

-----------------------------------------------------------------------------
(* player_event_do: the main loop visits p *)

\* PLAYER_EVENT_CHOOSE: there is a line to run, or there is something to read.
Choose(p, e) ==
  /\ p \in cron /\ io[p] # None /\ event[p] = "choose"
  /\ e \in {"input", "run_command"}
  /\ e = "run_command" => mode[p] # "wait"
  /\ event' = [event EXCEPT ![p] = e]
  /\ UNCHANGED <<alloc, cron, saved, on, io, hungup, mode, timer, idle, count,
                 current, fatal, nodes>>

\* socket_player_input: a line is taken in, or read returns nothing.
Input(p) ==
  /\ p \in cron /\ event[p] = "input"
  /\ event' = [event EXCEPT ![p] = IF io[p] \in hungup THEN "bad_fd" ELSE "choose"]
  /\ UNCHANGED <<alloc, cron, saved, on, io, hungup, mode, timer, idle, count,
                 current, fatal, nodes>>

\* (A version of Quits without LOGOFF_TIMEOUT.)
Quits_mutant(p) ==
  /\ p \in cron
  /\ event[p] \in Leaving \ {"logoff"} \/ io[p] \in hungup \cup {None}

\* The visit ends in player_event_do_real_quit: the player is leaving (with
\* "logoff" after its output is gone or LOGOFF_TIMEOUT has passed), or its
\* connection is missing or broken.
Quits(p) ==
  /\ p \in cron
  /\ event[p] \in Leaving \/ io[p] \in hungup \cup {None}
Closes(p) ==
  /\ cron' = cron \ {p}
  /\ io' = [io EXCEPT ![p] = None]
  /\ hungup' = hungup \ {io[p]}
  /\ timer' = [timer EXCEPT ![p] = "none"]

\* logoff_real and player_destroy of a newbie, whose node goes too; nobody has
\* been made a resident of that name (logoff_player_newbie).
NewbieQuits(p) ==
  /\ Quits(p)
  /\ IsNewbie(p)
  /\ IF saved[p][2] \in tree THEN Stops("name")
     ELSE /\ Closes(p) /\ Free(p)
          /\ count' = IF p \in on \/ count = 0 THEN count ELSE count - 1
          /\ current' = IF p \in on THEN current - 1 ELSE current
          /\ on' = on \ {p}
          /\ idle' = idle \ {p}
          /\ ptr' = [ptr EXCEPT ![saved[p]] = None]
          /\ agreed' = agreed \ {saved[p]}
          /\ UNCHANGED <<tree, banished, nuking, fatal>>

\* (A version of StrangerQuits that leaves p->saved, so that the player is kept.)
StrangerQuits_mutant(p) ==
  /\ Quits(p)
  /\ p \notin on /\ ~IsNewbie(p)
  /\ count > 0
  /\ Closes(p)
  /\ count' = count - 1
  /\ UNCHANGED <<alloc, event, saved, mode, fatal, on, idle, current, nodes>>

\* ... of a player that is not, or no longer, anybody: p->saved is cleared, so
\* that player_destroy frees the player, even when it is the one of a node.
StrangerQuits(p) ==
  /\ Quits(p)
  /\ p \notin on /\ ~IsNewbie(p)
  /\ IF count = 0 THEN Stops("count")
     ELSE /\ Closes(p) /\ Free(p)
          /\ count' = count - 1
          /\ fatal' = IF p \in Range(ptr) THEN "dangling" ELSE fatal
          /\ UNCHANGED <<on, idle, current, nodes>>

\* (A version of ResidentQuits that does not reset is_fully_on.)
ResidentQuits_mutant(p) ==
  /\ Quits(p)
  /\ p \in on /\ ~IsNewbie(p)
  /\ Closes(p)
  /\ mode' = [mode EXCEPT ![p] = "none"]
  /\ current' = current - 1
  /\ idle' = idle \ {p}
  /\ UNCHANGED <<alloc, event, saved, on, count, fatal, nodes>>

\* ... of a resident, whose player stays in memory.
ResidentQuits(p) ==
  /\ Quits(p)
  /\ p \in on /\ ~IsNewbie(p)
  /\ Closes(p)
  /\ event' = [event EXCEPT ![p] =
       IF io[p] \in hungup THEN Upgrade(event[p], "bad_fd") ELSE @]
  /\ mode' = [mode EXCEPT ![p] = "none"]
  /\ current' = current - 1
  /\ on' = on \ {p}
  /\ idle' = idle \ {p}
  /\ UNCHANGED <<alloc, saved, count, fatal, nodes>>

-----------------------------------------------------------------------------
(* logon_program *)

\* (A version of HandsOver that does not close the old connection.)
HandsOver_mutant(p, s, q) ==
  /\ io' = [io EXCEPT ![q] = io[p], ![p] = io[q]]
  /\ event' = [event EXCEPT ![q] = "choose", ![p] = "reconnection"]
  /\ saved' = [saved EXCEPT ![p] = None, ![q] = s]
  /\ Loaded(s, q)
  /\ UNCHANGED hungup

\* logon_program_resident: the connection and the logon timer of p move to the
\* player q of the node, and p waits to be destroyed.  The event of p is
\* "choose" while it runs a command, so a player that was leaving stays.
HandsOver(p, s, q) ==
  /\ io' = [io EXCEPT ![q] = io[p], ![p] = None]
  /\ hungup' = hungup \ {io[q]}
  /\ event' = [event EXCEPT ![q] = "choose", ![p] = "reconnection"]
  /\ saved' = [saved EXCEPT ![p] = None, ![q] = s]
  /\ Loaded(s, q)

\* (A version of Reconnect that counts one more player.)
Reconnect_mutant(p, s, q) ==
  /\ q \in on
  /\ HandsOver(p, s, q)
  /\ timer' = [timer EXCEPT ![p] = "none"]
  /\ mode' = [mode EXCEPT ![p] = "none"]
  /\ current' = current + 1
  /\ UNCHANGED <<cron, on, idle, tree, agreed, banished, nuking, count, fatal>>

\* The character is on the program: its connection is replaced.
Reconnect(p, s, q) ==
  /\ q \in on
  /\ HandsOver(p, s, q)
  /\ timer' = [timer EXCEPT ![p] = "none"]
  /\ mode' = [mode EXCEPT ![p] = "none"]
  /\ UNCHANGED <<cron, on, idle, tree, agreed, banished, nuking, count, current,
                 fatal>>

\* (A version of Attach that does not move the logon timer.)
Attach_mutant(p, s, q) ==
  /\ q \notin on /\ s \notin agreed
  /\ HandsOver(p, s, q)
  /\ cron' = cron \cup {q}
  /\ timer' = [timer EXCEPT ![p] = "none"]
  /\ mode' = [mode EXCEPT ![p] = "none", ![q] = "disclaimer"]
  /\ UNCHANGED <<on, current, idle, tree, agreed, banished, nuking, count, fatal>>

\* The character is not: its player joins the cron list.
Attach(p, s, q) ==
  /\ q \notin on
  /\ IF timer[q] # "none" THEN Stops("twice")
     ELSE /\ HandsOver(p, s, q)
          /\ cron' = cron \cup {q}
          /\ IF s \in agreed
             THEN /\ on' = on \cup {q}
                  /\ current' = current + 1
                  /\ idle' = idle \cup {q}
                  /\ timer' = [timer EXCEPT ![p] = "none"]
                  /\ mode' = [mode EXCEPT ![p] = "none", ![q] = "base"]
             ELSE /\ timer' = [timer EXCEPT ![p] = "none", ![q] = timer[p]]
                  /\ mode' = [mode EXCEPT ![p] = "none", ![q] = "disclaimer"]
                  /\ UNCHANGED <<on, current, idle>>
          /\ UNCHANGED <<tree, agreed, banished, nuking, count, fatal>>

\* There is news to show first; logon_program is called again afterwards.
Motd(p, s, q) ==
  /\ q \notin on
  /\ Prompt(p, "motd")
  /\ saved' = [saved EXCEPT ![p] = s, ![q] = s]
  /\ Loaded(s, q)
  /\ UNCHANGED <<cron, on, io, hungup, timer, idle, tree, agreed, banished,
                 nuking, count, current, fatal>>

LogonResident(p, s) ==
  /\ s[1] = "resident" /\ ptr[s] # p
  /\ \E q \in Player :
       /\ Loads(s, q)
       /\ Reconnect(p, s, q) \/ Attach(p, s, q) \/ Motd(p, s, q)

AskDisclaimer(p, s) ==
  /\ ptr[s] = p /\ s \notin agreed
  /\ Prompt(p, "disclaimer")
  /\ UNCHANGED <<alloc, cron, saved, on, io, hungup, timer, idle, nodes, count,
                 current, fatal>>

\* (A version of FullyOn that goes on counting newbies.)
FullyOn_mutant(p, s) ==
  /\ ptr[s] = p /\ s \in agreed
  /\ Prompt(p, "base")
  /\ on' = on \cup {p}
  /\ current' = current + 1
  /\ idle' = idle \cup {p}
  /\ timer' = [timer EXCEPT ![p] = "none"]
  /\ UNCHANGED <<alloc, cron, saved, io, hungup, nodes, count, fatal>>

\* The logon is complete.  Newbies stop being counted as logging on here,
\* residents when the player they came with is destroyed.
FullyOn(p, s) ==
  /\ ptr[s] = p /\ s \in agreed
  /\ IF s[1] = "newbie" /\ s[2] \in tree THEN Stops("name")
     ELSE /\ Prompt(p, "base")
          /\ on' = on \cup {p}
          /\ current' = current + 1
          /\ count' = IF s[1] = "newbie" /\ count > 0 THEN count - 1 ELSE count
          /\ idle' = idle \cup {p}
          /\ timer' = [timer EXCEPT ![p] = "none"]
          /\ UNCHANGED <<alloc, cron, saved, io, hungup, nodes, fatal>>

LogonProgram(p, s) == LogonResident(p, s) \/ AskDisclaimer(p, s) \/ FullyOn(p, s)

-----------------------------------------------------------------------------
(* The logon dialogue: p runs one line *)

\* A line that changes nothing: an answer that is asked for again, "who", a
\* name that is too short or taken, one of the first questions to a newbie, or
\* any command of somebody who is on.
PlainLine(p) ==
  /\ \E m \in {"name", "newbie", "mail", "disclaimer", "base"} : Running(p, m)
  /\ event' = [event EXCEPT ![p] = "choose"]
  /\ UNCHANGED <<alloc, cron, saved, on, io, hungup, mode, timer, idle, nodes,
                 count, current, fatal>>

\* "quit", "no" to a newbie's name, "end" at the disclaimer.
QuitLine(p) ==
  /\ \E m \in {"name", "newbie", "disclaimer", "base"} : Running(p, m)
  /\ event' = [event EXCEPT ![p] = "logoff"]
  /\ UNCHANGED <<alloc, cron, saved, on, io, hungup, mode, timer, idle, nodes,
                 count, current, fatal>>

\* logon_name_command with the name of a resident.
NameResident(p, n) ==
  LET s == Resident(n) IN
  /\ Running(p, "name") /\ n \in tree
  /\ \/ /\ \E q \in Player \ {p} :
             /\ Loads(s, q) /\ Loaded(s, q)
             /\ saved' = [saved EXCEPT ![p] = s, ![q] = s]
        /\ \/ Prompt(p, "passwd_1") /\ n \notin banished
           \/ event' = [event EXCEPT ![p] = "logoff"] /\ UNCHANGED mode
        /\ UNCHANGED <<cron, on, io, hungup, timer, idle, tree, agreed, banished,
                       nuking, count, current, fatal>>
     \/ n \notin banished /\ LogonProgram(p, s)     \* there is no password

\* (Versions of NameNewbie that ask only those who are fully on for the name, and
\* that delete the timer without adding it again.)
NameNewbie_taken(p, n) ==
  LET s == Newbie(n) IN
  /\ Running(p, "name") /\ n \notin tree
  /\ \A q \in on : saved[q][2] # n
  /\ saved' = [saved EXCEPT ![p] = s]
  /\ ptr' = [ptr EXCEPT ![s] = p]
  /\ Prompt(p, "newbie") /\ timer' = [timer EXCEPT ![p] = "logout"]
  /\ UNCHANGED <<alloc, cron, on, io, hungup, idle, tree, agreed, banished,
                 nuking, count, current, fatal>>
NameNewbie_untimed(p, n) ==
  LET s == Newbie(n) IN
  /\ Running(p, "name") /\ n \notin tree
  /\ \A q \in cron : saved[q] # None => saved[q][2] # n
  /\ saved' = [saved EXCEPT ![p] = s]
  /\ ptr' = [ptr EXCEPT ![s] = p]
  /\ Prompt(p, "newbie") /\ timer' = [timer EXCEPT ![p] = "none"]
  /\ UNCHANGED <<alloc, cron, on, io, hungup, idle, tree, agreed, banished,
                 nuking, count, current, fatal>>

\* ... with a name that nobody has.
NameNewbie(p, n) ==
  LET s == Newbie(n) IN
  /\ Running(p, "name") /\ n \notin tree
  /\ \A q \in cron : saved[q] # None => saved[q][2] # n
  /\ saved' = [saved EXCEPT ![p] = s]
  /\ ptr' = [ptr EXCEPT ![s] = p]
  /\ \/ Prompt(p, "newbie") /\ timer' = [timer EXCEPT ![p] = "logout"]
     \/ event' = [event EXCEPT ![p] = "logoff"] /\ UNCHANGED <<mode, timer>>
  /\ UNCHANGED <<alloc, cron, on, io, hungup, idle, tree, agreed, banished,
                 nuking, count, current, fatal>>

\* The logon of p has failed and p is nobody any more.
Fails(p) ==
  /\ saved' = [saved EXCEPT ![p] = None]
  /\ event' = [event EXCEPT ![p] = "logoff"]
  /\ mode' = [mode EXCEPT ![p] = "none"]

\* logon_password_command_1, _2 and _3.  passwd_check loads the player.
PasswordRight(p) ==
  /\ \E m \in Passwd : Running(p, m)
  /\ LogonProgram(p, saved[p])
PasswordWrong(p) ==
  \E m \in Passwd, q \in Player :
    /\ Running(p, m)
    /\ Loads(saved[p], q) /\ Loaded(saved[p], q)
    /\ LET known == [saved EXCEPT ![q] = saved[p]] IN
       CASE m = "passwd_1" -> Prompt(p, "passwd_2") /\ saved' = known
         [] m = "passwd_2" -> Prompt(p, "passwd_3") /\ saved' = known
         [] m = "passwd_3" ->
              \/ Prompt(p, "mail") /\ saved' = known
              \/ /\ saved' = [known EXCEPT ![p] = None]
                 /\ event' = [event EXCEPT ![p] = "logoff"]
                 /\ mode' = [mode EXCEPT ![p] = "none"]
    /\ UNCHANGED <<cron, on, io, hungup, timer, idle, tree, agreed, banished,
                   nuking, count, current, fatal>>

\* logon_password_command_4: "yes" reads the address of the node's player.
MailPassword(p, yes) ==
  /\ Running(p, "mail")
  /\ IF yes /\ ptr[saved[p]] = None THEN Stops("unloaded")
     ELSE /\ Fails(p)
          /\ UNCHANGED <<alloc, cron, on, io, hungup, timer, idle, nodes, count,
                         current, fatal>>

\* logon_program_command_motd and _sumotd write to the node's player.
MotdRead(p) ==
  /\ Running(p, "motd")
  /\ IF ptr[saved[p]] = None THEN Stops("unloaded") ELSE LogonProgram(p, saved[p])

\* The last of the questions to a newbie.
NewbieAnswers(p) == Running(p, "newbie") /\ LogonProgram(p, saved[p])

\* "continue" at the disclaimer.
Agree(p) ==
  /\ Running(p, "disclaimer")
  /\ agreed' = agreed \cup {saved[p]}
  /\ Prompt(p, "finish")
  /\ UNCHANGED <<alloc, cron, saved, on, io, hungup, timer, idle, ptr, tree,
                 banished, nuking, count, current, fatal>>

Finish(p) == Running(p, "finish") /\ LogonProgram(p, saved[p])

-----------------------------------------------------------------------------
(* Staff commands, residency and unloading *)

\* The residency script of a newbie ends: the node moves into the tree.
BecomeResident(p) ==
  LET s == saved[p]  r == Resident(s[2]) IN
  /\ "become" \in Exercised
  /\ Running(p, "base") /\ IsNewbie(p)
  /\ tree' = tree \cup {s[2]}
  /\ saved' = [saved EXCEPT ![p] = r]
  /\ ptr' = [ptr EXCEPT ![s] = None, ![r] = p]
  /\ agreed' = (agreed \ {s}) \cup {r}
  /\ event' = [event EXCEPT ![p] = "choose"]
  /\ UNCHANGED <<alloc, cron, on, io, hungup, mode, timer, idle, banished,
                 nuking, count, current, fatal>>

\* user_su_make_player: a resident nobody has logged on as.  Only the tree and
\* the newbies that are fully on are searched for the name.
Make(n, q) ==
  LET s == Resident(n) IN
  /\ "make" \in Exercised
  /\ n \notin tree /\ \A p \in on : saved[p] # Newbie(n)
  /\ q \notin alloc
  /\ tree' = tree \cup {n}
  /\ saved' = [saved EXCEPT ![q] = s]
  /\ Loaded(s, q)
  /\ UNCHANGED <<cron, event, on, io, hungup, mode, timer, idle, agreed,
                 banished, nuking, count, current, fatal>>

\* logoff_all: everybody with that node leaves; those who are not the player
\* that is on forget who they wanted to be.
Mine(s) == {p \in cron : saved[p] = s}
LogoffAll(s) ==
  /\ UserLogoff(Mine(s))
  /\ saved' = [p \in Player |-> IF p \in Mine(s) \ on THEN None ELSE saved[p]]

\* user_su_banish_player.
Banish(n) ==
  LET s == Resident(n) IN
  /\ "banish" \in Exercised
  /\ n \in tree \ banished
  /\ \E q \in Player :
       /\ Loads(s, q) /\ Loaded(s, q)
       /\ banished' = banished \cup {n}
       /\ IF q \in on THEN LogoffAll(s)
          ELSE saved' = [saved EXCEPT ![q] = s] /\ UNCHANGED event
  /\ UNCHANGED <<cron, on, io, hungup, mode, timer, idle, tree, agreed, nuking,
                 count, current, fatal>>

\* user_su_nuke_player: the timer is set and that is taken for a failure, so
\* that the resident is neither banished nor sent off.
Nuke(n) ==
  /\ "nuke" \in Exercised
  /\ n \in tree \ nuking
  /\ nuking' = nuking \cup {n}
  /\ UNCHANGED <<alloc, cron, saved, on, io, hungup, idle, dialogue, ptr, tree,
                 agreed, banished, count, current, fatal>>

\* timed_nuke: the node is freed, and its player if nobody is on the program.
TimedNuke(n) ==
  LET s == Resident(n) IN
  /\ n \in nuking
  /\ IF Mine(s) # {} THEN Stops("freed")
     ELSE /\ nuking' = nuking \ {n}
          /\ tree' = tree \ {n}
          /\ banished' = banished \ {n}
          /\ agreed' = agreed \ {s}
          /\ ptr' = [ptr EXCEPT ![s] = None]
          /\ UNCHANGED <<alloc, cron, saved, on, io, hungup, idle, dialogue,
                         count, current, fatal>>

\* timed_player_cleanup of a resident who is not fully on and whose player was
\* last asked for PLAYER_CLEANUP_TIMEOUT_CLEANUP ago.
Unload(n) ==
  LET q == ptr[Resident(n)] IN
  /\ "unload" \in Exercised
  /\ n \in tree /\ q # None /\ q \notin on
  /\ IF q \in cron THEN Stops("dangling")
     ELSE /\ Free(q)
          /\ ptr' = [ptr EXCEPT ![Resident(n)] = None]
          /\ UNCHANGED <<cron, on, io, hungup, timer, idle, tree, agreed,
                         banished, nuking, count, current, fatal>>

-----------------------------------------------------------------------------
Visit(p) ==
  \/ Input(p)
  \/ NewbieQuits(p) \/ StrangerQuits(p) \/ ResidentQuits(p)
RunLine(p) ==
  \/ PlainLine(p) \/ QuitLine(p)
  \/ \E n \in Name : NameResident(p, n) \/ NameNewbie(p, n)
  \/ PasswordRight(p) \/ PasswordWrong(p)
  \/ \E yes \in BOOLEAN : MailPassword(p, yes)
  \/ MotdRead(p) \/ NewbieAnswers(p) \/ Agree(p) \/ Finish(p)
  \/ BecomeResident(p)
Timers(p) == LogonStartReal(p) \/ TimedLogout(p) \/ TimedIdle(p)
Staff(n) ==
  \/ \E q \in Player : Make(n, q)
  \/ Banish(n) \/ Nuke(n) \/ TimedNuke(n) \/ Unload(n)

Next ==
  /\ fatal = "no"
  /\ \/ \E p \in Player : \/ \E c \in Conn : Accept(p, c)
                          \/ \E e \in Event : Choose(p, e)
                          \/ Visit(p) \/ RunLine(p) \/ Timers(p)
     \/ \E c \in Conn : PeerCloses(c)
     \/ \E n \in Name : Staff(n)

Spec == Init /\ [][Next]_vars

\* The main loop visits every player, timers go off and connections that are
\* to be dropped are dropped after LOGOFF_TIMEOUT seconds; nobody has to type.
Fairness ==
  \A p \in Player :
    /\ WF_vars(fatal = "no" /\ Visit(p))
    /\ WF_vars(fatal = "no" /\ LogonStartReal(p))
    /\ WF_vars(fatal = "no" /\ TimedLogout(p))
FairSpec == Spec /\ Fairness

-----------------------------------------------------------------------------
(* Properties *)

\* logging_onto_count is the number of people logging on: every player on the
\* cron list that is not fully on, whoever it stands for, is counted once.
LoggingCounted == fatal = "no" => count = Cardinality(Logging)

\* current_players (logon.c, logoff.c) is the number of players that are fully on, and a character
\* is on the program at most once.
PresentOnce ==
  /\ current = Cardinality(on)
  /\ \A p, q \in on : saved[p] = saved[q] => p = q

\* Player and node of somebody who is on point at each other, and a node never
\* points at a player that was freed or that belongs to another node.
PointersAgree ==
  /\ \A p \in on : saved[p] # None /\ ptr[saved[p]] = p
  /\ fatal = "no" => \A s \in Node : ptr[s] # None => ptr[s] \in alloc /\ saved[ptr[s]] = s

\* Somebody who is logging on, and is not on the way out, has a logon timer:
\* a dialogue that is left alone comes to an end.  Nobody who is on has one.
TimerWhileLoggingOn ==
  \A p \in cron : IF p \in on THEN timer[p] = "none"
                  ELSE event[p] \notin Leaving => timer[p] # "none"

\* The limit on people logging on holds for those who got a prompt.
AdmissionLimit ==
  Cardinality({p \in Logging : mode[p] # "wait" /\ timer[p] # "none"}) <= MaxLoggingOn

\* A player is only kept while something leads to it.
NoLeak == fatal = "no" => alloc \subseteq cron \cup Range(ptr)

\* A newbie's name is nobody else's.
NewbieAlone ==
  \A p, q \in cron :
    IsNewbie(p) /\ saved[q] # None /\ p # q => saved[p][2] # saved[q][2]

\* A logon ends: the player is on or gone.
LogonEnds == \A p \in Player : p \in Logging ~> p \notin Logging
\* Somebody who is leaving is gone in the end, unless another connection takes
\* the character over first.
LeaverGoes == \A p \in Player :
  p \in cron /\ event[p] \in Leaving ~> p \notin cron \/ event[p] = "choose"

\* A resident who leaves at the disclaimer is taken off logging_onto_count twice,
\* once for each player; logoff_real asserts that the count is positive.
CountPositive == fatal # "count"

\* Two connections of a resident who has not agreed to the disclaimer: both are
\* handed to the same player, which logon_program_resident asserts is not
\* logging on already.
HandedOnce == fatal # "twice"

\* A player that is freed is not the player of a node: timed_player_cleanup
\* asserts that the player of its node is there.
FreedForgotten == fatal # "dangling"

\* A newbie that gets on or leaves has a name that is not a resident's, as
\* logon_player_newbie and logoff_player_newbie assert.
NameStaysFree == fatal # "name"

\* The player of a node stays loaded while somebody logs on as it: the cleanup
\* time-outs have to be bigger than the logon time-outs.
LoadedWhileLoggingOn == fatal # "unloaded"

\* A node is not freed while a player points at it, as logoff_player_resident
\* asserts.
NukedIsOff == fatal # "freed"

\* Nobody gets on the program under a banished name.
BanishedStaysOff ==
  [][\A p \in on' \ on : saved'[p][2] \notin banished]_vars

\* Everybody who is on, and not leaving, can idle out.
IdleWatched == \A p \in on : event[p] \notin Leaving => p \in idle

\* Connections and characters as Presence has them.
Serves(c) ==
  IF c \notin {io[p] : p \in cron} THEN "free"
  ELSE LET p == CHOOSE q \in cron : io[q] = c IN
       IF p \in on THEN saved[p][2] ELSE "lobby"
P == INSTANCE Presence WITH conn <- [c \in Conn |-> Serves(c)],
                            present <- {saved[p][2] : p \in on}
PresenceSpec == P!Spec
=============================================================================
