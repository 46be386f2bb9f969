------------------------------ MODULE Channels ------------------------------
(***************************************************************************)
(* The channels of the talker (src/channels.c): who is on which, in memory *)
(* and on disk.                                                            *)
(*                                                                         *)
(* A membership is a node of two lists: the players of the channel, and    *)
(* the channels of the player.  The channels themselves are a third list.  *)
(* The last two are linked here by channels.c itself, pointer by pointer,  *)
(* and so they are here; the first is a correct list of another file, and  *)
(* a set here.                                                             *)
(*                                                                         *)
(* What changes is marked and written minutes later by a timer: an index   *)
(* of the channels, and a file for each.  A talker that is started again   *)
(* loads what it finds there.                                              *)
(***************************************************************************)
EXTENDS Integers, FiniteSets, Sequences, SequencesExt, FiniteSetsExt, Functions

CONSTANTS
  Channel,     \* channels, named by their place in the alphabet
  Kept,        \* those of init_channels, with flag_no_kill
  Main,        \* configure.channels_main_name
  Player,      \* the names of residents
  JoinMax,     \* configure.channels_players_join
  Redos,       \* how often the timer is put off: CHANNELS_TIMEOUT_SYNC_ANYWAY
               \* over CHANNELS_TIMEOUT_REDO, which is 8
  Interest,    \* bound: Interest[p] are the channels that p is ever on
  Exercised    \* \subseteq {"stale", "namesake", "disk"}, see below

None == 0

ASSUME ConstAssumption ==
  /\ Channel \subseteq Nat \ {None} /\ IsFiniteSet(Channel)
  /\ Main \in Kept /\ Kept \subseteq Channel
  /\ JoinMax \in Nat /\ Redos \in Nat
  /\ IsFiniteSet(Player)
  /\ Interest \in [Player -> SUBSET Channel]

VARIABLES
  state,       \* "up", "down" or "aborted": an assertion failed
  resident,    \* the players there are
  made,        \* the channels that are allocated; channels_num is their number
  bases,       \* the list from channels_start
  members,     \* members[c]: the list from base->players_start
  chans,       \* chans[p]: the list from sp->channels_start; the node is c's
  dirty,       \* flag_tmp_needs_saving
  isync,       \* channels_timed_isync
  timed,       \* channels_timed_sync: the timer runs
  redos,       \* times the timer was put off
  index,       \* the index file
  file         \* file[c], of a channel that has a file: the players in it

vars == <<state, resident, made, bases, members, chans, dirty, isync, timed,
          redos, index, file>>
memory == <<made, bases, members, chans, dirty, isync, timed, redos>>
disk == <<index, file>>

List == [start : Channel \cup {None}, next : [Channel -> Channel \cup {None}],
         prev : [Channel -> Channel \cup {None}]]

TypeOK ==
  /\ state \in {"up", "down", "aborted"}
  /\ resident \subseteq Player
  /\ made \subseteq Channel
  /\ bases \in List
  /\ members \in [Channel -> SUBSET Player]
  /\ chans \in [Player -> List]
  /\ dirty \subseteq Channel
  /\ isync \in BOOLEAN /\ timed \in BOOLEAN
  /\ redos \in 0..Redos
  /\ Kept \subseteq index /\ index \subseteq Channel
  /\ Kept \subseteq DOMAIN file /\ DOMAIN file \subseteq Channel
  /\ \A c \in DOMAIN file : file[c] \subseteq Player

----------------------------------------------------------------------------
(* The lists that channels.c links. *)

Empty == [start |-> None, next |-> [c \in Channel |-> None], prev |-> [c \in Channel |-> None]]

\* What a loop over the list visits, from its start along next.
Walk(l) ==
  LET n == Cardinality(Channel)
      at[i \in 1..n] == IF i = 1 THEN l.start
                        ELSE IF at[i - 1] = None THEN None ELSE l.next[at[i - 1]]
  IN SubSeq(at, 1, Cardinality({i \in 1..n : at[i] # None}))

On(l) == Range(Walk(l))

\* A mutant of LinkIn: the one behind is not told.
LinkIn_forgets(l, c) ==
  IF l.start = None \/ l.start > c
  THEN [l EXCEPT !.start = c, !.next[c] = l.start, !.prev[c] = None]
  ELSE LET scan == Max({d \in On(l) : d < c})
       IN [l EXCEPT !.next[c] = l.next[scan], !.next[scan] = c, !.prev[c] = scan]

\* channels_add_base, channels_add_node: in front of the list, prev of the one
\* that was in front is not set.
LinkIn(l, c) ==
  IF l.start = None \/ l.start > c
  THEN [l EXCEPT !.start = c, !.next[c] = l.start, !.prev[c] = None]
  ELSE LET scan == Max({d \in On(l) : d < c})
           after == l.next[scan]
       IN [l EXCEPT !.next[c] = after, !.next[scan] = c,
                    !.prev = [d \in Channel |-> IF d = c THEN scan
                                                ELSE IF d = after THEN c ELSE @[d]]]

\* channels_del_base, channels_del_node.
Unlink(l, c) ==
  LET before == l.prev[c]
      after == l.next[c]
  IN [start |-> IF before = None THEN after ELSE l.start,
      next  |-> [d \in Channel |-> IF d = c THEN None
                                   ELSE IF d = before THEN after ELSE l.next[d]],
      prev  |-> [d \in Channel |-> IF d = c THEN None
                                   ELSE IF d = after THEN before ELSE l.prev[d]]]

\* c lost its prev when another came in front of it.
Stale(l, c) == l.prev[c] = None /\ l.start # c

\* Whether the instance lets a stale one be removed: what then happens is
\* another list than the code means to have.
MayRemove(l, c) == Stale(l, c) => "stale" \in Exercised

\* The list of the channels cs, loaded in the order of the index.
Linked(cs) ==
  [start |-> IF cs = {} THEN None ELSE Min(cs),
   next  |-> [c \in Channel |-> LET later == {d \in cs : d > c} IN
                IF c \in cs /\ later # {} THEN Min(later) ELSE None],
   prev  |-> [c \in Channel |-> LET earlier == {d \in cs : d < c} IN
                IF c \in cs /\ earlier # {} THEN Max(earlier) ELSE None]]

----------------------------------------------------------------------------
Init ==
  /\ state = "up"
  /\ resident = {}
  /\ made = Kept
  /\ bases = Linked(Kept)
  /\ members = [c \in Channel |-> {}]
  /\ chans = [p \in Player |-> Empty]
  /\ dirty = {}
  /\ isync = FALSE /\ timed = FALSE /\ redos = 0
  /\ index = Kept
  /\ file = [c \in Kept |-> {}]

\* A mutant of TimedSave: the time it was asked for first moves on.
TimedSave_again(withIndex) ==
  /\ isync' = (isync \/ withIndex)
  /\ timed' = TRUE
  /\ redos' = 0

\* channels_timed_save: of the index, or of a channel, which the caller marks.
TimedSave(withIndex) ==
  /\ isync' = (isync \/ withIndex)
  /\ timed' = TRUE
  /\ redos' = IF timed THEN redos ELSE 0

NotTimed == UNCHANGED <<isync, timed, redos>>

\* channels_add_node and channels_del_node, for channels cs of p.
AddNode(p, c) ==
  /\ c \in Interest[p]
  /\ members' = [members EXCEPT ![c] = @ \cup {p}]
  /\ chans' = [chans EXCEPT ![p] = LinkIn(@, c)]
DelNode(p, c) ==
  /\ MayRemove(chans[p], c)
  /\ members' = [members EXCEPT ![c] = @ \ {p}]
  /\ chans' = [chans EXCEPT ![p] = Unlink(@, c)]

\* The talker is gone, and what it had in memory.
Die(how) ==
  /\ state' = how
  /\ made' = {} /\ bases' = Empty
  /\ members' = [c \in Channel |-> {}]
  /\ chans' = [p \in Player |-> Empty]
  /\ dirty' = {} /\ isync' = FALSE /\ timed' = FALSE /\ redos' = 0

----------------------------------------------------------------------------
\* user_channels_join, of a channel that is not found: it is made, by somebody
\* who is on no more than JoinMax.  (A channel that fell off the list would be
\* made a second time; the model does not follow the talker there.)
Create(p, c) ==
  /\ state = "up" /\ p \in resident
  /\ c \notin On(bases) \cup made
  /\ Cardinality(On(chans[p])) <= JoinMax
  /\ made' = made \cup {c}
  /\ bases' = LinkIn(bases, c)
  /\ AddNode(p, c)
  /\ dirty' = dirty \cup {c}
  /\ TimedSave(TRUE)
  /\ UNCHANGED <<state, resident, disk>>

\* user_channels_join, of one that is there, by somebody who may read it.
Join(p, c) ==
  /\ state = "up" /\ p \in resident
  /\ c \in On(bases) /\ p \notin members[c]
  /\ AddNode(p, c)
  /\ dirty' = dirty \cup {c}
  /\ TimedSave(FALSE)
  /\ UNCHANGED <<state, resident, made, bases, disk>>

\* A mutant of Leave: the channel is gone, but not from the index.
Leave_indexed(p, c) ==
  /\ state = "up" /\ p \in resident
  /\ c \in On(chans[p]) /\ p \in members[c]
  /\ DelNode(p, c)
  /\ IF members'[c] # {} \/ c \in Kept
     THEN /\ dirty' = dirty \cup {c}
          /\ TimedSave(FALSE)
          /\ UNCHANGED <<made, bases>>
     ELSE /\ MayRemove(bases, c)
          /\ made' = made \ {c}
          /\ bases' = Unlink(bases, c)
          /\ dirty' = dirty \ {c}
          /\ TimedSave(FALSE)
  /\ UNCHANGED <<state, resident, disk>>

\* A mutant of Leave: so are channels that are to be kept.
Leave_kills(p, c) ==
  /\ state = "up" /\ p \in resident
  /\ c \in On(chans[p]) /\ p \in members[c]
  /\ DelNode(p, c)
  /\ IF members'[c] # {}
     THEN /\ dirty' = dirty \cup {c}
          /\ TimedSave(FALSE)
          /\ UNCHANGED <<made, bases>>
     ELSE /\ MayRemove(bases, c)
          /\ made' = made \ {c}
          /\ bases' = Unlink(bases, c)
          /\ dirty' = dirty \ {c}
          /\ TimedSave(TRUE)
  /\ UNCHANGED <<state, resident, disk>>

\* user_channels_leave: the last to leave a channel that is not kept destroys it.
Leave(p, c) ==
  /\ state = "up" /\ p \in resident
  /\ c \in On(chans[p]) /\ p \in members[c]
  /\ DelNode(p, c)
  /\ IF members'[c] # {} \/ c \in Kept
     THEN /\ dirty' = dirty \cup {c}
          /\ TimedSave(FALSE)
          /\ UNCHANGED <<made, bases>>
     ELSE /\ MayRemove(bases, c)
          /\ made' = made \ {c}
          /\ bases' = Unlink(bases, c)
          /\ dirty' = dirty \ {c}
          /\ TimedSave(TRUE)
  /\ UNCHANGED <<state, resident, disk>>

\* user_channels_boot, by q, who may: nothing is timed.  Booting the last one is
\* an assertion, and booting one who is not in core follows a NULL pointer.
Boot(q, p, c) ==
  /\ state = "up" /\ q \in resident
  /\ c \in On(chans[q]) /\ p \in members[c]
  /\ \/ /\ members[c] # {p}
        /\ DelNode(p, c)
        /\ dirty' = dirty \cup {c}
        /\ UNCHANGED <<state, made, bases>> /\ NotTimed
     \/ Die("down")
  /\ UNCHANGED <<resident, disk>>

\* channels_add_system, channels_del_system: privileges come and go, staff go on
\* and off duty.  Nothing is timed.
SystemAdd(p, c) ==
  /\ state = "up" /\ p \in resident /\ c \in Kept
  /\ c \in On(bases) /\ p \notin members[c]
  /\ AddNode(p, c)
  /\ dirty' = dirty \cup {c}
  /\ UNCHANGED <<state, resident, made, bases, disk>> /\ NotTimed
SystemDel(p, c) ==
  /\ state = "up" /\ p \in resident /\ c \in Kept
  /\ c \in On(bases) /\ c \in On(chans[p])
  /\ DelNode(p, c)
  /\ dirty' = dirty \cup {c}
  /\ UNCHANGED <<state, resident, made, bases, disk>> /\ NotTimed

\* user_channels_config and the commands on the channel's list, which change
\* what is saved with the channel.
Config(p, c) ==
  /\ state = "up" /\ p \in resident /\ c \in On(chans[p])
  /\ dirty' = dirty \cup {c}
  /\ TimedSave(FALSE)
  /\ UNCHANGED <<state, resident, made, bases, members, chans, disk>>

\* timed_nuke takes p off channels by name until his list is empty, and never
\* ends when one of them has fallen off the list of channels.  It takes the
\* first of the list, which is never a stale one.
Nuke(p) ==
  /\ state = "up" /\ p \in resident
  /\ resident' = resident \ {p}
  /\ IF On(chans[p]) \subseteq On(bases)
     THEN /\ members' = [c \in Channel |->
                           members[c] \ (IF c \in On(chans[p]) THEN {p} ELSE {})]
          /\ chans' = [chans EXCEPT ![p] = Empty]
          /\ dirty' = dirty \cup On(chans[p])
          /\ UNCHANGED <<state, made, bases>> /\ NotTimed
     ELSE Die("down")
  /\ UNCHANGED disk

\* make_player_resident: p is put on the main channel.
Make(p) ==
  /\ state = "up" /\ p \notin resident
  /\ "namesake" \in Exercised \/ \A c \in DOMAIN file : p \notin file[c]
  /\ resident' = resident \cup {p}
  /\ Main \in On(bases) /\ p \notin members[Main]
  /\ AddNode(p, Main)
  /\ dirty' = dirty \cup {Main}
  /\ UNCHANGED <<state, made, bases, disk>> /\ NotTimed

----------------------------------------------------------------------------
(* timed_channels_sync. *)

\* Something changed in the last two minutes, which is not recorded here, and
\* it is not yet half an hour since the timer was set first.
PutOff ==
  /\ state = "up" /\ timed /\ redos < Redos
  /\ redos' = redos + 1
  /\ UNCHANGED <<state, resident, made, bases, members, chans, dirty, isync, timed, disk>>

\* The assertion of channels_save_index and channels_save_all.
Counted == Len(Walk(bases)) = Cardinality(made)

\* The index is written, and then the file of each channel that is marked, as
\* far as the nth of the list, but for those that fail.
Write(n, failed) ==
  /\ index' = IF isync /\ None \notin failed THEN On(bases) ELSE index
  /\ LET written == (Range(SubSeq(Walk(bases), 1, n)) \cap dirty) \ failed
     IN file' = [c \in DOMAIN file \cup written |->
                   IF c \in written THEN members[c] ELSE file[c]]

\* The timer, or timer_q_run_all at a shutdown: everything is written.  A file
\* that cannot be opened stays marked, one that cannot be closed does not.
Sync ==
  /\ state = "up" /\ timed
  /\ timed' = FALSE /\ isync' = FALSE /\ redos' = 0
  /\ UNCHANGED resident
  /\ IF Counted
     THEN /\ UNCHANGED <<state, made, bases, members, chans>>
          /\ \E failed \in IF "disk" \in Exercised THEN SUBSET (Channel \cup {None}) ELSE {{}} :
               \E unopened \in SUBSET failed :
                 /\ Write(Len(Walk(bases)), failed)
                 /\ dirty' = dirty \cap unopened
     ELSE Die("aborted") /\ UNCHANGED disk

\* The talker dies while it writes.
SyncCut ==
  /\ state = "up" /\ timed /\ Counted
  /\ \E n \in 0..Len(Walk(bases)) : Write(n, {})
  /\ Die("down")
  /\ UNCHANGED resident

Crash ==
  /\ state = "up"
  /\ Die("down")
  /\ UNCHANGED <<resident, disk>>

\* What channels_load makes of the files: players who are gone are left out,
\* and channels that nobody is on, unless they are kept.
Saved(c) == IF c \in index \cap DOMAIN file THEN file[c] \cap resident ELSE {}
Loads(c) == c \in index \cap DOMAIN file /\ (Saved(c) # {} \/ c \in Kept)

\* channels_load: adding a player marks the channel as to be saved.
Restart ==
  /\ state # "up"
  /\ state' = "up"
  /\ made' = {c \in Channel : Loads(c)}
  /\ bases' = Linked(made')
  /\ members' = [c \in Channel |-> Saved(c)]
  /\ chans' = [p \in Player |-> Linked({c \in made' : p \in Saved(c)})]
  /\ dirty' = {c \in Channel : Saved(c) # {}}
  /\ UNCHANGED <<resident, isync, timed, redos, disk>>

Fire == PutOff \/ Sync

Next ==
  \/ Fire \/ SyncCut \/ Crash \/ Restart
  \/ \E p \in Player : Nuke(p) \/ Make(p)
  \/ \E p \in Player, c \in Channel :
       \/ Create(p, c) \/ Join(p, c) \/ Leave(p, c) \/ Config(p, c)
       \/ SystemAdd(p, c) \/ SystemDel(p, c)
       \/ \E q \in Player : Boot(q, p, c)

Spec == Init /\ [][Next]_vars

\* The timer queue calls the timer when it is due.
FairSpec == Spec /\ WF_vars(Fire)

----------------------------------------------------------------------------
\* The three kinds of list tell the same: who is on a channel has it on his
\* list, every channel is on the list of channels, both are in alphabetical
\* order, and whoever has a predecessor by prev has it by next too.
ListsAgree ==
  LET InOrder(l) ==
        LET w == Walk(l) IN
          /\ \A i \in 2..Len(w) : w[i - 1] < w[i] /\ l.prev[w[i]] \in {w[i - 1], None}
          /\ w # <<>> => l.prev[w[1]] = None
  IN /\ InOrder(bases) /\ On(bases) = made
     /\ \A p \in Player : InOrder(chans[p]) /\ On(chans[p]) = {c \in Channel : p \in members[c]}

\* A talker that is killed now and started again has everybody on the channels
\* he is on, but for channels that are marked, and for those that come
\* and go when the index is still to be written.
NothingLost ==
  state = "up" =>
    \A c \in Channel : Saved(c) # members[c] => c \in dirty \/ (isync /\ timed)

\* Once the timer is set, however often something changes, what memory
\* and disk hold comes to agree, unless the talker goes down first.
Synced ==
  state = "up" /\ timed ~>
    state # "up" \/ \A c \in Channel : Saved(c) = members[c]

\* The assertions of channels_save_index and channels_save_all hold.
NeverAborts == state # "aborted"

\* What differs from the files is written by a timer that runs.
DirtyIsTimed ==
  state = "up" => \A c \in Channel : Saved(c) # members[c] => timed
============================================================================
