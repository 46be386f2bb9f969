# A formal model of the twocan talker

The talker in `src/` is a single-threaded chat server in C that people reach by
telnet, with a few helper processes. This directory holds TLA+ modules that
follow its code, TLC configurations that check them on small instances, and
theorems that TLAPS proves for every instance. All paths below are relative to
`src/src/` unless they start with `src/`.

    tlc -workers 2 -config Session_core.cfg MCSession     # a run
    tlapm Dns_proofs.tla                                  # the proofs of a module

`PROJECT.json` lists the runs, the lines each definition stands for, the
hazards each property is aimed at, and for each property a variant of the code
(`..._mutant`, `LinkIn_forgets`, ...) that breaks it.

## 1. Inventory

| Component | State | Operations | Talks to |
| --- | --- | --- | --- |
| Timer queue (`lib/timer_q`) | two lists of bases, a sorted list of nodes in each, counter of parked bases that got a node, cached first time stamp | add and delete bases and nodes, mark a node or a base as deleted, run what is due, run all | call backs into every component below; the main loop asks it how long it may sleep |
| Sessions (`socket.c`, `logon.c`, `logoff.c`, `player_event.c`, `load_player.c`, `idle.c`) | the list of players, one event each; characters (tree nodes) and the players that hold their data; logon and idle timers; `logging_onto_count`, `current_players` | accept, each prompt of the logon dialogue, take-over by a second connection, logoff, becoming a resident, unloading | timers, modes, the privilege commands, the name server |
| Name server (`dns.c`, `dnsserver/`, `child_com.c`) | requests on the way, slots with a child each, time stamps of the pipes | ask, take a request, answer, give up, restart | talker, server and children over pipes |
| Guardian angel (`angelserver/`, `angel.c`) | crash counter, time of the last boot, ping time stamps | start the talker, ping both ways, kill, restart, stop | talker over two pipes |
| Command scheduling (`schedule.c`) | time used per player | charge, may it run now | main loop |
| Player timers, quit_in, alarm (`timer_player.c`, ...) | timer nodes by player or character | set, lift, run out | timer queue, sessions |
| Channels (`channels.c`) | the list of channels, the players of each, the channels of each player, marks, index and a file for each | make, join, leave, boot, configure, save by a timer, load | player tree, privileges, nuke, timers, files |
| Draughts (`draughts.c`) | games with two players and watchers, one pointer a player, the list of public games, scores; the board as four bit sets and their copies | offer, accept, decline, move, jump, declare, quit, watch, make public | logon and logoff |
| Other games (`ttt.c`, `hangman.c`, `sps.c`) | board, players, turn | offer, move, leave | sessions |
| Telnet (`process_input.c`, `process_output.c`, `terminal.c`) | option state, input ring, output queue | negotiate, read, write | sockets |
| Mail (`mail.c`) | letters by author with recipients, texts in memory for a while, timers, a file of sections by number | write, read, reply, delete, reap, free, save, load | editor, files, timers, logoff, nuke |
| News, lists (`news.c`, `lists.c`) | articles, entries and flags with time-outs | post, read, expire | files, timers |
| Intercom (`glue_intercom.c`, `i-comserver/`) | table of hosts, requests | connect, relay, answer | other talkers |
| Commands, rooms, socials, help, editor, privileges, helpers | flags, texts, buffers | commands | everything |

**How they fit together.** The main loop of `boot.c` accepts connections, visits
every player on the cron list and handles one event of each, reads from the
name server and the angel, and runs the timer queue. Nothing runs in parallel
inside the talker, but a visit, a timer and a staff command come in any order,
and each may change what another has looked at before. Between processes there
are real races: pipes that lose their reader, answers that come after the time-out.

**What is hard.** (1) A logon takes several prompts over minutes; meanwhile the
same character may log on elsewhere, be banished, nuked, unloaded, or have a
timer run out, and the code tests some of this only at one of the prompts.
(2) Two structures, the player and the tree node, point at each other and are
freed at different times. (3) A timer call back changes the queue that is being
walked. (4) Helper processes die, hang and come back; time stamps with a
resolution of a second decide who is dead. (5) The same fact is kept in two places, in memory and in a
file or in two crossed lists, and only one of them is changed at a time. (6) Counters kept in several places
(`logging_onto_count`, `requests_going`, `timer_q__walk_base_empty`) decide who
is let in and what is looked at.

**What makes each correct.** Timer queue: what is due is called, once, in order,
and not after it was deleted. Sessions: a character is on at most once, every
pointer leads to something that is allocated, the counters count, and every
dialogue and logoff ends. Name server: no request is forgotten or answered by
nobody. Angel: a dead or hung talker is replaced, and a living one is left in peace. Draughts: pointers, games and watchers agree
whoever leaves, and the move command makes the turns of the game and no others.
Mail: who asks for a letter gets that letter, and what is done to it is not lost. Channels: the crossed
lists agree, and a restart brings back what was saved and loses only what is still to be saved.

## 2. Plan

Done in this order: `TimerQ` (everything else rests on its call backs), `Session`,
`Dns`, `Angel`, with `TimerService` and `Presence` as the abstract
specifications of the first two; then `DraughtsGames` and `Draughts` (the
largest file with state of its own) with `DraughtsRules` as the specification of the second;
then the two components that keep state in memory and on disk, `Mail` and `Channels`.

The number of runs is kept small, so that a refuted statement keeps a run only where
it says most (`channels_lists`); the others are in section 7 with the constants
that show them.

What would come next: the boards of the other games, which
follow the pattern of draughts; option negotiation of `process_input.c` against a peer that refuses
or repeats. Of the safety properties the passing runs check, none is left without a theorem.

## 3. The modules

| Module | What it is |
| --- | --- |
| `TimerQ` | `lib/timer_q/src/timer_q.c` |
| `TimerService` | what users of the timer queue may rely on |
| `Session` | the life of a connection and of a character |
| `Presence` | what logging on and off means to the people connected |
| `Dns` | talker, name server and children |
| `Angel` | angel and talker |
| `DraughtsGames` | offers, games, watchers and scores of draughts |
| `Draughts` | the board and the move command of draughts |
| `DraughtsRules` | the game of draughts: what a turn is, and who has lost |
| `Mail` | the letters of one author, in memory and in his file |
| `Channels` | the channels, in memory and on disk |
| `MCTimerQ`, `MCSession`, `MCDns`, `MCAngel`, `MCDraughtsGames`, `MCDraughts`, `MCChannels` | small instances for TLC |
| `TimerQ_proofs`, `Session_proofs`, `Dns_proofs`, `Angel_proofs`, `DraughtsGames_proofs`, `Draughts_proofs`, `Mail_proofs`, `Channels_proofs` | lemmas and theorems |

**TimerQ.** `norm` and `empty` are the two lists of bases, `q[b]` the nodes of a
base, `tv` their time stamps, `quick` and `quickBase` the deletion marks, `walk`
is `timer_q__walk_base_empty` and `first` is `timer_q__first_timeval`, held as
the node it points into since the time changes with the node. One action per
library call. A run is cut at every point where a call back may
run (`pc`): `MoveBack` takes bases off the empty list, `EnterBase`, `Reap`,
`Fire`, `CallbackReturn`, `EndNodes` and `LeaveBase` walk one base, `RunEnd` ends.
While `pc = "func"` the call back may add to the bases in
`Reach[b]`, and delete from those in `Deletes[b]`. Left out: allocation of nodes, the statistics, searches.

**Session.** `Player` are the addresses of `struct player`, `Node` the tree nodes
(a newbie's is not in the tree), `Conn` the descriptors. `alloc`, `cron`, `saved`,
`ptr`, `on`, `io`, `event`, `mode`, `timer` and `idle` are the fields of the same
names. `Accept` is `socket_accept_connection`; `Input` is one visit that reads or
finds the connection closed; `NameResident` to `Finish` are the prompts, each
with the whole handler; `NewbieQuits`, `StrangerQuits` and `ResidentQuits` are
the three ways through `logoff.c` with the destruction of the player; the
timers and `Make`, `Banish`, `Nuke`, `TimedNuke`, `Unload` are the rest.
`Exercised` says which of the optional commands an instance has, so that a run
can be about something. Where the program stops in an assertion or follows
a NULL or freed pointer, `fatal` says why and nothing more happens. Abstractions:
passwords, who may log on and whether there is a message of the day are
nondeterministic; the output queue is not there, so that leaving is enabled as
soon as the event says so; the OUTPUT event, which only delays input, is left out; staff who give the commands are
not tracked; `cron` is a set, while the code's list would hold a connection twice that is added twice (possible only with
`"make"`); where `logoff.c:275` compares names, `LogoffAll` compares nodes, which are different for one name only with `"make"` too. Left out: rename, unban, failures of malloc.

**Dns.** `reqs` and `reps` are the pipes between talker and server, `slot`,
`child` and `going` the server's table, `player` what became of each
connection's question. A `child_com` is reduced to what
`child_com_waiting_input` can see: `age`, how long ago something was received,
capped, and `asked`, whether something was sent in a later second than that. `Take` and
`TakeFails` are `deal_with_main`, `Serve` one slot of `deal_with_requests`, `GiveUp` the
talker's clean up of a server. Server, children and the start of a server may
fail at any time (`Crash`, `ChildGoes`, `Add`). The pipe and the reader's
buffer are one sequence of whole lines. A new server does not reset the talker's stamps (`child_com.c:47` does), which only
lets the talker give up more often. Left out: over-long lines, failures of malloc, and a pending write to a child that fails later
(`dnsserver/dns.c:226`; a line fits into the pipe).

**Angel.** A tick is the four seconds between two pings. `since` and `crashes`
are `booted_on` and the crash counter, `heard` and `answered` the
time stamps of both sides. `Look` is a round of the first loop of the angel,
which it stays in once the talker has booted; `GiveUp` leaves it, and
the second loop with its shorter time-out then ends at its first test. A talker
that did not boot in time is left running without an angel. Left out: signals
and the command line; the header is always there when the talker boots.

**DraughtsGames.** `ptr` is `draughts_game` of each player, `game` the games that are
allocated, `list` the ordered list of public games, by its key, and `gone` the offers
whose addressee has left, which the code cannot tell from a pointer to him. One action for each command,
with `destroy_draughts_game` and `draughts_lose_game` as `Destroy` and `Lose`; `Logoff` is
the part of `logoff_player_generic` that is about games, and `Panic` the end of the talker. A move is
only its effect on the turn. A game ends properly only when a player leaves or both close it. Every other
way to lose one (resign, be declared beaten, lose the last piece, be trapped, ignore) tells the statistics, with a NULL player
(`draughts.c:909`, then 565), who is followed at once (393, 419): the win is counted, the game is still there, the turn may have
passed, and `talker` is `"statistics"`. This is not optional: `Lose` always does it, and nothing happens afterwards (what the handler
of the signal does with the games is `Panic`, which is taken only from a talker that is up). `Chat` changes nothing or ends the talker.
`Exercised` lets an instance take the other steps after which the code
follows a NULL or stale pointer or loops (section 7).
Left out: showing boards, the statistics of a running game.

**Draughts.** `men` and `kings` are the bit sets of both sides with the code's numbering of squares (1..35
without 9, 18 and 27), in which every diagonal step is a difference of 4 or 5; `turn` has the copies a
move command works on, the square it stands on and what it has taken. `Begin` starts a
command, `Hop` is one parameter, `Refused` is any of the early returns. `CanTakeFrom`, `CanTake`
and `Trapped` are the functions that say whether a capture must go on and whether the other side can move. `ColRow`
maps the squares to columns and rows, and `DraughtsRules` knows nothing else (`KeepsTheRules`).
Left out: showing boards, statistics, the test set-up.

**Mail.** `sent` is the author's list of letters, a draft last; `mail` has each letter's recipients, with who read or deleted
it, and its text, named by the letter it was written for; `dirty` is the mark for saving, `file` the sections of the mail file. A text
that is not in memory is read from the section with the letter's *number of now* (`Loaded`), which is
what `OwnText` is about. `SaveAndFree` writes all texts and may fail. `timed` is a set: that a static timer is
added twice (`mail_load_all`, then `mail.c:548`) is not seen. An author is nuked when he is off, which `nuke.c` does not see to
(`NukedIsOff` in section 7). Left out: equal
time stamps, carbon copies and groups, the order of the lists of received letters, listing commands.

**Channels.** `bases` and `chans` are lists with `start`, `next` and `prev` as
`channels_add_base`/`_node` and `channels_del_base`/`_node` link them (`LinkIn`,
`Unlink`); `members` is the third list, which another file links, and a set here. `dirty`, `isync`,
`timed` are the marks and the timer; `Sync` writes index and files, `SyncCut` dies between two of them, `Restart`
is `channels_load`. `Exercised` lets an instance remove a node that has lost its `prev` (`"stale"`), make
a resident with the name of one who was nuked (`"namesake"`), or fail to write (`"disk"`). With `"disk"`, which no run has, `Sync` goes on
where a build with assertions stops (`channels.c:1697` and 1782).
Left out: talking, listing, privileges and duty beyond their effect on membership.

## 4. The runs

| Run | What it asks | Bounds |
| --- | --- | --- |
| `timerq_safety` | do the lists keep their shape, is deletion safe, is it a timer queue (`ServiceSpec`), whatever call backs do | 2 bases, one of which inserts from the end, both deletable, 3 nodes, call backs reach both bases, times 0..2 |
| `timerq_service` | is the cached time right, is what is due called | 2 bases, 2 nodes, call backs add to their own base and delete nothing, times 0..3 |
| `session_core` | pointers, counters, leaks and names over logons, take-overs, newbies that become residents, unloading | 4 players, 2 connections, 2 names, one of them a resident |
| `session_staff` | is a character on once, and watched by a timer until then, while staff make, banish and nuke and idle timers run | 3 players, 2 connections, 1 name |
| `session_ends` | does every logon and every logoff end, does the limit hold, does the talker implement `Presence` | 3 players, 2 connections, limit 1 |
| `dns_server` | are slots counted, is no request forgotten, does each end | 2 players, 3 addresses, 2 slots, pipes of one line, time-outs 0 and 1 |
| `angel_watch` | is a talker replaced, does nobody kill the living, does a talker know that it is alone | limits 1, 4, 2, 3, 2 |
| `draughts_games` | do pointers, games, watchers, list and scores agree, also where the statistics of a lost game end the talker, and does nothing else end it | 4 players, one of whom has all games private, 2 games, 1 game a player counted |
| `draughts_board` | does every command make a turn of `DraughtsRules`, end the game when it should, and keep the board sound | end games of one black piece against two white ones on 6 squares at the edges and in the middle, at most one king a side; a king that could take five in one chain |
| `mail_box` | does everybody get his letter, is what is unmarked in the file, do timers run for letters only | 1 reader, 2 letters at a time, 4 in all |
| `channels_sync` | do the lists agree, does a restart lose only what is marked, does memory get to the disk | 2 players, 3 channels, one of them kept, which the second player is only on; the timer is put off once |
| `channels_lists` | (violated) see section 7 | 1 player, 3 channels |

**Why the bounds are enough.** Timer queue: all bases move when empty, as all but two of the talker's do (section 7 has what follows from the two); the interesting cases are the head, the middle and the
end of a list of three, two lists of bases that exchange members, and time
stamps before, at and after the present. `MaxWalk` bounds a counter the code
never looks at beyond the number of parked bases. In `timerq_service`, where liveness is checked, two nodes are one that is cached
and one that should be; that the cache is right for any number is a theorem. Session: a take-over needs
two connections and three players (one for each connection, one for the
character); four leave one for somebody else's. Two names tell mine from
another's. `MaxLoggingOn` of 1 makes the limit bite; with 2 it does not. Dns: two
slots and three addresses fill the table; the same address is asked for again when
a connection leaves and another comes before the answer does; a pipe of one line
makes every writer wait. The time-outs are as small as their order allows.
Angel: each constant is small but keeps the order of the source's.
Draughts games: an offer and a game need three players, a watcher a fourth; two games let pointers go
to the wrong one. Board: a piece that takes two in a chain, a king
that takes backwards, a man that is crowned by taking, a side with no move, and both edges are all in the end games.
Mail: a text is read from the wrong section only when a letter in front of it has left, one has been added and the file is old, which four letters with room
for two give; the properties also held with two readers and three letters (3.2 million states).
Channels: three channels are the head, the middle and the end of a list, and two players make a
channel outlive its maker; the safety properties also held with both players on all three channels.

Deadlock is not checked where the model may stop: in `Session` after `fatal`, in `DraughtsGames` after the talker's end, in `Draughts` after the game, in
`Mail` when all letters are used up. The types of all modules with state are proved (section 6); no run checks those of
`TimerQ`, `Dns`, `Draughts` and `DraughtsGames`.

## 5. Fairness

- `TimerQ`: call backs return and a run goes on (`WF RunStep`); the main loop
  comes back to `timer_q_run_norm` again and again between the other calls, which
  do not keep it from it (`SF RunNorm`).
- `Session`: the main loop visits every player and a player that leaves is
  dropped after `LOGOFF_TIMEOUT` even when its output is not read (`WF Visit`); logon
  timers go off (`WF LogonStartReal`, `WF TimedLogout`). Nobody has to type anything.
- `Dns`: the talker's main loop reads from the server, and the server's loop goes
  round (`WF Resolve`, `GiveUp`, `Take`); each round looks at every slot and waits
  for room in the pipe when it writes, so that a slot is not passed over for ever although
  the pipe is full now and then (`SF Serve`); `gethostbyaddr` returns except for
  addresses in `Hangs`.
- `Channels`: the timer queue calls the timer when it is due (`WF Fire`), which
  `DueLeaves` of `TimerQ` says of it as long as no base without the flag is on the empty list (section 7); it can be put off only so often.
- `Angel`: main loops and time go on. A talker that hangs or boots has no fairness.

## 6. What is proved

`TimerQ_proofs`, `TypeInvariance`: `TypeOK` holds of `Spec` for all sets of bases
and nodes. It is not inductive alone: a step that works on
`norm[pos]` needs that there is such a base, and the types do not say so. The
strengthening `AtBase` does: while a run is inside a base, `pos` is at most the
length of `norm`. A call back can only add bases in front of the list, or mark
them, until the run leaves the base, so that this stays true. The lemmas at the start say what inserting into and removing
from a sequence does to its length and elements.

`QueuesAreSorted` and `NothingIsLinkedTwice` are `Sorted` and `LinkedOnce`; the invariant is `Lists` (the two lists of bases) with `Queues` (the queues are in order, without
repetitions, and no two share a node). A time stamp changes only when its node is added, and a node that is added
is on no queue, so that no order is disturbed by it; `InsertPointFits` says that whichever end the
search starts from, and whatever it skips, what is in front is no later and what follows no earlier.
`NoBaseIsOverlooked` and `DeletionFindsTheBase` are `WalkCoversParked` and `NoCrash`, and need that every base
moves when it is empty: `walk` bounds the number of parked bases that have nodes (`Covered`), because a
base is counted when it gets its first node, wherever it is, and a run takes one off the count for each
base that it moves. The talker gives that flag to all its bases but those of `load_player.c` and `lists.c`; with one that has
no flag both are false (section 7). `TheFirstTimeIsTheLowest` is `FirstIsLowest` for call backs that are
`Modest`: every base moves when it is empty, and a call back adds to its own base only and deletes nothing (without that it is false,
section 7). The cache is wrong while a run goes on, which is why the property alone is not inductive: `FirstInv` says that
outside a run it is the lowest (`Lowest`), and inside one (`Scan`) the lowest of `PastNodes`, the queues the run is done
with, unless a call back has `JustAdded` it to the base in hand, whose other nodes are still to be compared.
`TheServiceIsKept` is the refinement `ServiceSpec`, for any bases and call backs: each library call is one of `TimerService` or
hidden from it, from `Typed`, `Queues` and `Running` (a run takes nothing for past that the clock has not reached).

`Session_proofs`: `Sane` says which fields a player has in which state (`Shape`, `Blank`, `Prompted`) and how
nodes and players point at each other (`Nodes`, `Points`). The handlers are long and share their ends, so that `NextStep` first
shows that each step is one of a few kinds (`Step`: somebody arrives, is named, is sent off, becomes a resident, ...), and the invariants are
shown of the kinds. `ACharacterIsOnOnce`, `PlayerAndNodeAgree` and `LogonTimersLive` hold whatever staff do; with
`Counts`, `TypeInvariance` does. `NothingIsLeaked` needs that nobody is nuked, because the player of a nuked
resident is kept for a node that is gone (`Kept`). What staff break by making a resident out of a newbie who is logging on is
`Settled`: who logs on as a resident is not the player of the node until it is on, residents have agreed to the disclaimer,
and names are not shared. From it, without `"make"`, follow `ANewbieIsAlone`, `TheCountIsTheLogons`, `AssertionsHold` (four
assertions of `logon.c` and `logoff.c`, which TLC refutes with `"make"`, section 7), `TheLimitHolds` (everybody
who counts has a timer, `Timed`) and the refinement `PresenceIsImplemented`, which needs also that a connection is of one player (`Wired`).

`Dns_proofs`, `SlotsAreCounted` and `NobodyIsForgotten`: `SlotsCounted` and
`WaitingIsPending` for any number of players, addresses and (finitely many)
slots. The invariant is their conjunction with the types they need, and they
need each other: when the server takes an address, `going < |Slot|` and the
count say that a slot is free, so that an address without a slot is one that
another child works on, whose answer will do for both; when a slot is freed, that no
other has the address and that the count is positive make the count right
again. The lemmas `Pending...` say what each move of an address does to the
set of addresses that are on their way. The proofs use the named assumptions
on the constants and nothing else. `TypeInvariance` is `TypeOK`, with what is
left over for the pipes and time stamps (`Rest`).

`Angel_proofs`, `LivingAreSafe`: `NobodyKillsTheLiving` for all time-outs of a tick or more. The invariant
says what one side has heard of the other while both loops go round (`OnTime`): what is in the pipe is at most two ticks
younger than what was heard before, and while nothing is in it nothing is owed but by a writer
that has not acted yet in this tick. This is enough because a reader asks first and waits a whole time-out
after that. `TypeInvariance` is `TypeOK`; that the count of starts stays in its range needs that a talker that never
booted was never counted.

`DraughtsGames_proofs`: for any players and any number of games, `PointersCorrect`,
`ListCorrect`, `TalkerEndsByStatistics` and `TypeCorrect`, all under `Careful`: no offer is
quit or made public, no addressee of an offer leaves, no two games are public at once, and nobody chats in a watched game (nothing is claimed
beyond, since the code then fails). That the talker stays up is not claimed, since it is not so: every game lost
otherwise than by leaving ends it, and the theorems hold of the state it is left in (`ToldIInv`; the turn may have passed by then, `TurnIInv`). Which pointer a command follows depends on whether pointers and games
agree, and what it leaves behind depends on the pointer, so that the three are proved together. They
are not enough: accepting an offer makes a running game of it, which is right only when nobody
watches it, nobody is to move, and the addressee has not closed it. That is `OfferIsNew`. `DestroyIInv` is
the step all endings share; `FlagsIInv` the one shared by closing and making private or public.
`ScoresCorrect`, when no step of section 7 but the statistics is taken: every step keeps the games that count, begins one (`GameBegins`) or
ends one, which somebody wins or which is taken back from both (`GameOver`). A game whose statistics have ended the talker is over in
the scores and not yet destroyed; `ScoresAddUp` says so, with `Open`. The sum over the players is compared
with what it was by the players it changed for (`SumChanges`); that it is a sum at all needs that the set of games that count is finite, although nothing
bounds `Game`: each has two players who point at it.

`Draughts_proofs`: from any sound positions, `BoardCorrect` and `TypeCorrect` (the copies a
command works on are part of the invariant, because they become the board), and
`OnlyPiecesGo` when no parameters follow the last hop: the mover has as many pieces as before and the other side
no new ones. It needs `OneTurn`: the copies are of the side to move, with as many pieces as the board.
`RulesAreKept` is the refinement `KeepsTheRules`, when no step is followed by a jump and no parameters follow the last hop
(section 7 has both). The numbering of the squares is the first part of it: twice the number of a square is nine times its row less its
column (`ColRowFacts`), so that 4 and 5 are the four ways across the board and the numbers left out are just what would join its edges. The
second is that the code's tests are those of the rules (`TakesWhenJumps`, `TakesWhenChains`, `TrappedHasNoTurn`), on any position and not
only on those that can be reached. The third is the invariant `Chain`: a command that has taken `n` pieces is `n` jumps into a chain of
`DraughtsRules` from the board, so that the hop it ends with is where such a chain may end (`EndsTheTurn`).

`Mail_proofs`, for any readers, letters and limit: `TypeInvariance`, `LettersKeepTheirText`, `WhatIsCleanIsSaved` and
`NoTimerOutlivesItsLetter`. They hold together or not at all: the text read from a section is right because an unmarked list
is the file (`CleanIsSaved`) and the file has letters in their order with their own texts (`Filed`), and the
file is right because the texts in memory were (`OwnText`). `WithoutFacts` says which number a letter has after another left.

`Channels_proofs`, without `"stale"`: `ListsStayTogether`, `TypeInvariance` and `SavesDoNotAbort`. `Lists(l, cs)` says
that a linked list has the channels `cs` in alphabetical order; a channel's place is the number of those before it (`WalkFacts`), and
`LinkInLists` and `UnlinkLists` that one channel comes or goes. It lets `prev` be forgotten, as the code does (section 7): without the removal of a
channel that has lost its `prev`, nothing goes wrong, and nothing else makes the assertion of a save fail. `RestartKeepsMembers` is `NothingLost` when also no
newcomer has the name of somebody nuked and no file fails: what is not marked is in its file (`FilesAreRight`), and unless the
index is to be written it has every channel, and no others with members (`IndexIsRight`), also after a save that was cut.

Where a fact needs an induction over data (the sum of a function, the place of an element in a list, the positions after so many jumps), it is
done through the least counterexample (`LeastOf`), and a recursive function is taken as the `CHOOSE` it stands for after one
that satisfies its equation has been shown (`TotalsExist`, `AfterFacts`).

What is left to TLC is liveness, which is out of the prover's reach: `DueLeaves`, `LogonEnds`,
`LeaverGoes`, `WaitingEnds`, `Replaced`, `TalkerKnows` and `Synced`; and the refutations of section 7.

## 7. Known deviations

**Refuted by a run.** `channels_lists`: a channel that is put in front of the list does not become
`prev` of the one that was there, so that leaving, and so destroying, that one later makes its successor the
start of the list. The new channel is lost, and the next save finds fewer channels than there are, which an
assertion says cannot be. The list of a player's channels is linked in the same way:
with `"stale"` in `Exercised`, `ListsAgree` fails for somebody who joins a channel and leaves the
main one, which comes later in the alphabet; he can then neither leave nor rejoin the first.

**Stated, and refuted with the constants given here** (no run is kept for them):

| Property | Constants | What happens |
| --- | --- | --- |
| `DueLeaves` | as `timerq_service`, 1 node, a base not in `MoveWhenEmpty` | such a base starts on the empty list, and adding a node to it does not raise `timer_q__walk_base_empty`, so that a run does not find it until another base makes it look. `load_player.c:646` and `lists.c:2535` make two such bases |
| `HandedOnce` | as `session_core`, 3 players, `{"make"}` | two connections of a resident who has not agreed to the disclaimer are handed to the same player, because `P_IS_ON` is false at that prompt; an assertion of `logon.c` says otherwise |
| `LoadedWhileLoggingOn` | as `session_core`, 3 players, `{"unload"}` | the player of a node is unloaded after two minutes, while a logon may stay at the message of the day for four |
| `NukedIsOff` | as `session_staff`, `{"nuke"}` | nuke takes the success of adding its timer for a failure (`nuke.c:136`), so that it neither banishes nor logs off the resident, whose node is freed five minutes later |
| `DiesTwiceHalts` | as `angel_watch` | two deaths in a short time do not stop the angel unless they come right after the angel's own start, or after `ANGEL_MAX_TIME_HALT` |
| `NoAbort` | `Draughts`, one piece each, `{"edge"}` | squares across the edge of the board may differ by 8 or 10 as those of a jump do, and the square between them is none: `piece_at_position` asserts (`draughts.c:1775`) |
| `StaysUp` | as `draughts_games` | a game that is resigned, won, declared won or ended by ignoring the other side tells its statistics from a NULL player (`draughts.c:909`, 565, 393 and 419), after the win is counted (905) and before the game is destroyed (912), so that only leaving and closing end a game and not the talker |
| `OnlyStatisticsCrash` | same, `{"chatWatched"}` | the loop that tells the watchers of a game never advances (`draughts.c:425`), so that chat in a watched game does not return |
| `OnlyStatisticsCrash`, `PointersAgree`, `ListIsPublic`, `ScoresAddUp` | same, `{"quitOffer"}` | quitting an offer follows the pointer of the addressee, who has none or one of another game |
| `OnlyStatisticsCrash` | same, `{"offeredLeaves"}` | an addressee who leaves is still named in the offer, and followed when it is withdrawn |
| `OnlyStatisticsCrash`, `PointersAgree`, `ListIsPublic`, `ScoresAddUp` | same, `{"offerPublic"}` | an offer can be made public, and watched before it is a game |
| `OnlyStatisticsCrash` | same, 5 players, none in `AutoPrivate`, `{"twoPublic"}` | with two public games the loop of `watch` that counts them never advances (`draughts.c:98`) |
| `ScoresAddUp` | same, `{"friendlyPanic"}` | friendly games are taken off the games played when the talker ends |
| `KeepsTheRules` | as `draughts_board`, `{"stepThenJump"}` or `{"more"}` | a step followed by a jump is accepted; parameters after the last hop of a command put a second piece on the board, and a hop refused after one that was carried out is judged on the new board |
| `LoadedUntimed` | as `mail_box` | a letter's text is freed when its author leaves and its timer is not, so that loading it again meets the `log_assert` of `internal_mail_load` |
| `DirtyIsTimed` | as `channels_sync` | booting, privileges, nuking and making a resident mark a channel without setting the timer |
| `NothingLost` | same, `{"namesake"}` or `{"disk"}` | a newcomer gets the channels of somebody nuked who had his name; a file that cannot be closed is taken for written |
| `CountPositive` | as `session_core`, 3 players, `{"make"}` | a resident who leaves at the disclaimer is taken off `logging_onto_count` twice |
| `FreedForgotten` | same | the player of a node is freed, and the node points at it |
| `NameStaysFree` | same | staff make a resident of the name a newbie is logging on with |
| `BanishedStaysOff` | as `session_staff`, `{"banish"}` | somebody past the name prompt gets on although banished |
| `IdleWatched` | as `session_staff`, `{"idle"}` | a character whose idle timer has fired is taken over, and has no idle timer any more |
| `PresenceSpec` | as `session_core`, `{"make"}` | a resident at the disclaimer is handed to a second connection, which is on at once while the first is dropped |
| `RunAllCallsAll` | as `timerq_service`, 1 node, `RunAllBase = {b1, b2}` or `{b1}` | `timer_q_run_all` reads the head of the list before parked bases are put in front of it |
| `FirstIsLowest` | as `timerq_service`, `Reach <- AnyReach` | a call back that adds to another base leaves the cached time stamp too late |
| `FirstIsLowest`, `DueLeaves` | as `timerq_service`, `Deletes <- OwnReach`, 3 nodes, times 0..4 | a call back that adds the first node of all and deletes it again leaves nothing cached, although other bases have been looked at already, so that the next node found is taken for the first |
| `WalkCoversParked`, `DueLeaves` for the nodes of `b1` | as `timerq_service`, `MoveWhenEmpty = {b1}` | when the next run does look, it may move such a base instead of the one that was counted, which is then left on the empty list with its nodes |
| `NoCrash` | `MoveWhenEmpty = {b1}`, `Deletable = {b2}`, 1 node | deleting a base that never moves looks for it on the wrong list |

**Read in the code, outside the properties.** Dns: `MAX_DNS_TIMEOUT` does not free the slot
of a child that hangs, since it was created and written to in the same second;
after some minutes without a request the next one looks overdue at once, and a
healthy server is deleted with it; the second try in `internal_dns_add` does
nothing when it may not reboot; an answer is lost when the child has exited
before the server reads it, because the hang-up is looked at first; a failed
write to a child leaves the request without an answer. Angel: it sends
`total_boots:` in the header, and the talker reads `total_crashes:`; a talker
that gives its angel up kills it. Mail: two letters begun in the same second
meet an assertion (`mail.c:70`); whether a letter was replied to is not saved; a save that fails in the timer
leaves texts in memory, without a timer, until their author leaves; nuke does not mark the letters' authors
to be saved, and the mail file of a nuked resident stays for the next one of that name.
Channels: booting the last member is an assertion, and booting one who is not in core follows a NULL
pointer; a talker that dies between writing the index and the file of a channel made anew loads an earlier channel of that
name; the limit on channels is tested when one is made and not when one is joined; and nuke does not end when a channel has
fallen off the list.

## 8. What is not modelled

- `Sessions` is partly modelled: rename, unban and memory failures are not there.
- Draughts, mail and channels leave out the commands that only show something, and those named in section 3.
- Command scheduling is arithmetic on one variable; its hazard is listed in `PROJECT.json`, as is the one
  of the player timers, whose call backs are a few lines each on top of `TimerQ`.
- The smaller games follow the pattern of draughts; news is stored like mail.
- Rooms, lists, friends, multis, marriage, karma, privileges and settings are flags and
  lists changed by single commands; where they reach into a logon, `Session` has them.
- Telnet: option negotiation, input ring and output queue depend on the bytes of a line; `Session` takes
  lines as given and needs none of it.
- Intercom: `USE_INTERCOM` is off in this source, and its server of no use without the talker's side.
- The forward server is a program of its own that copies bytes between two sockets.
- Not state of the system: text (help, socials, aliases, wording, colours), the format of files,
  build scripts, the vendored PCRE, the polling library (which connections are ready is taken as given), helpers.

`PROJECT.json` gives the reason for each component, and a note for each hazard no property covers.
