--------------------------- MODULE DraughtsGames ---------------------------
(***************************************************************************)
(* The draughts games of the talker (src/draughts.c): offers, games, their *)
(* watchers, the list of public games and the scores.  A player has one    *)
(* pointer, draughts_game, for the game he plays or watches.  An offer is  *)
(* a game only its proposer (black) points at: the offered player (white)  *)
(* is named in it and may get any number of offers, or start another game. *)
(* The board is in module Draughts; here a move passes the turn or ends    *)
(* the game.                                                               *)
(***************************************************************************)
EXTENDS Integers, FiniteSets, FiniteSetsExt, Functions

CONSTANTS
  Player,       \* the residents
  Game,         \* the blocks games are allocated in
  None,         \* the null pointer
  AutoPrivate,  \* the players with flag_draughts_auto_private
  MaxPlayed,    \* bound: the games one player may have counted
  Exercised     \* which of the steps the talker does not survive are tried

Flag == {"proposed", "friendly", "privateBlack", "privateWhite",
         "closedBlack", "closedWhite"}

\* A draughts_game, without its board.
GameRec == [black : Player, white : Player, flags : SUBSET Flag,
            toMove : Player \cup {None}, watchers : SUBSET Player]

ASSUME ConstAssumption ==
  /\ IsFiniteSet(Player)
  /\ None \notin Player \cup Game
  /\ None \notin GameRec
  /\ AutoPrivate \subseteq Player
  /\ MaxPlayed \in Nat
  /\ Exercised \subseteq {"quitOffer", "offeredLeaves", "offerPublic",
                          "twoPublic", "chatWatched", "friendlyPanic"}

VARIABLES
  talker,   \* "up", "crashed", "hung", "down", or "statistics" where it has
            \* followed the null pointer the statistics of a game are told with
  on,       \* the players logged on
  ptr,      \* p->draughts_game
  game,     \* the games allocated: None where the block is free
  gone,     \* the offers whose white player has left the talker
  list,     \* draughts_games_list, by its key, the black player
  played,   \* p->draughts_played
  won       \* p->draughts_won

vars == <<talker, on, ptr, game, gone, list, played, won>>

TypeOK ==
  /\ talker \in {"up", "crashed", "hung", "down", "statistics"}
  /\ on \in SUBSET Player
  /\ ptr \in [Player -> Game \cup {None}]
  /\ game \in [Game -> GameRec \cup {None}]
  /\ gone \in SUBSET Game
  /\ list \in SUBSET Player
  /\ played \in [Player -> Int]
  /\ won \in [Player -> Nat]

----------------------------------------------------------------------------
IsPlayer(p, g) == p = game[g].black \/ (p = game[g].white /\ g \notin gone)
Opponent(p, g) == IF p = game[g].black THEN game[g].white ELSE game[g].black
Playing(p)  == ptr[p] # None /\ game[ptr[p]] # None /\ IsPlayer(p, ptr[p])
Watching(p) == ptr[p] # None /\ game[ptr[p]] # None /\ ~IsPlayer(p, ptr[p])
Proposed(g) == "proposed" \in game[g].flags

\* The flags of the player's side.
Side(p, g, ofBlack, ofWhite) == IF p = game[g].white THEN ofWhite ELSE ofBlack
Mine(p, g)   == Side(p, g, "privateBlack", "privateWhite")
Theirs(p, g) == Side(p, g, "privateWhite", "privateBlack")

\* A mutant of Destroy: the game stays on the list.
Destroy_listed(g, freed) ==
  /\ game' = [game EXCEPT ![g] = None]
  /\ UNCHANGED list
  /\ ptr' = [q \in Player |-> IF q \in freed \cup game[g].watchers
                              THEN None ELSE ptr[q]]

\* destroy_draughts_game: an offer is not looked up in the list of public
\* games; the watchers stop watching.  "freed" are the players whose pointer
\* the caller clears.
Destroy(g, freed) ==
  /\ game' = [game EXCEPT ![g] = None]
  /\ list' = IF Proposed(g) THEN list ELSE list \ {game[g].black}
  /\ ptr' = [q \in Player |-> IF q \in freed \cup game[g].watchers
                              THEN None ELSE ptr[q]]

Crash == talker' = "crashed" /\ UNCHANGED <<ptr, game, list, played, won>>

\* draughts_lose_game: p loses the game he plays, or his offer goes.  The
\* winner's own pointer is followed although an offered player need not have
\* one, and it is cleared although it may be of another game.  Unless p has
\* left the talker, the statistics are told before the game is destroyed, and
\* from a null player, whom the telling follows (output_draughts_stats,
\* vtell_all_involved_in_game).  "games" are the games as they are by then.
Lose(p, left, games) ==
  LET g == ptr[p]
      w == Opponent(p, g)
      followed == g \notin gone /\ ptr[w] # None /\ game[ptr[w]] # None
  IN \/ /\ ~followed
        /\ Crash
     \/ /\ followed
        /\ Proposed(g)
        /\ Destroy(g, {p, w})
        /\ UNCHANGED <<talker, played, won>>
     \/ /\ followed
        /\ ~Proposed(g)
        /\ won' = IF "friendly" \in game[g].flags THEN won
                  ELSE [won EXCEPT ![w] = @ + 1]
        /\ \/ /\ left
              /\ Destroy(ptr[w], {p, w})
              /\ UNCHANGED talker
           \/ /\ ~left
              /\ talker' = "statistics"
              /\ game' = games
              /\ UNCHANGED <<ptr, list>>
        /\ UNCHANGED played

MayLose(p) == Proposed(ptr[p]) => "quitOffer" \in Exercised

----------------------------------------------------------------------------
Init ==
  /\ talker = "up"
  /\ on = {}
  /\ ptr = [p \in Player |-> None]
  /\ game = [g \in Game |-> None]
  /\ gone = {}
  /\ list = {}
  /\ played = [p \in Player |-> 0]
  /\ won = [p \in Player |-> 0]

Logon(p) ==
  /\ p \notin on
  /\ on' = on \cup {p}
  /\ UNCHANGED <<talker, ptr, game, gone, list, played, won>>

\* setup_draughts_game when the other player has no game: an offer.
Offer(p, p2, friendly) ==
  /\ {p, p2} \subseteq on /\ p # p2
  /\ ptr[p] = None /\ ptr[p2] = None
  /\ \E g \in Game :
       /\ game[g] = None
       /\ game' = [game EXCEPT ![g] =
            [black |-> p, white |-> p2, toMove |-> None, watchers |-> {},
             flags |-> {"proposed"}
                       \cup (IF friendly THEN {"friendly"} ELSE {})
                       \cup (IF p \in AutoPrivate THEN {"privateBlack"} ELSE {})]]
       /\ ptr' = [ptr EXCEPT ![p] = g]
       /\ gone' = gone \ {g}
  /\ UNCHANGED <<talker, on, list, played, won>>

\* The flags of a game whose offer p accepts.
AcceptedFlags(p, g) ==
  (game[g].flags \ {"proposed"})
    \cup (IF "privateBlack" \in game[g].flags \/ p \in AutoPrivate
          THEN {"privateWhite"} ELSE {})

\* setup_draughts_game when the other player's game is an offer to p.  Adding
\* the game to the list, the last step, asserts that it is not there.
Accept(p, p2) ==
  /\ {p, p2} \subseteq on /\ p # p2
  /\ ptr[p] = None /\ ptr[p2] # None
  /\ LET g == ptr[p2]
         flags == AcceptedFlags(p, g)
         public == flags \cap {"privateBlack", "privateWhite"} = {}
         counted == IF "friendly" \in flags THEN {} ELSE {p, p2}
     IN /\ game[g].white = p /\ g \notin gone
        /\ Proposed(g)
        /\ \A q \in counted : played[q] < MaxPlayed
        /\ game' = [game EXCEPT ![g].flags = flags, ![g].toMove = p2]
        /\ ptr' = [ptr EXCEPT ![p] = g]
        /\ played' = [q \in Player |-> IF q \in counted
                        THEN played[q] + 1 ELSE played[q]]
        /\ list' = IF public THEN list \cup {p2} ELSE list
        /\ talker' = IF public /\ p2 \in list THEN "crashed" ELSE talker
  /\ UNCHANGED <<on, gone, won>>

\* user_draughts_withdraw: the offered player is told, gone or not; so he is
\* when an offer is closed or made private.
Withdraw(p) ==
  /\ p \in on /\ Playing(p) /\ Proposed(ptr[p])
  /\ \/ /\ Destroy(ptr[p], {p})
        /\ UNCHANGED <<talker, played, won>>
     \/ ptr[p] \in gone /\ Crash
  /\ UNCHANGED <<on, gone>>

\* decline_draughts_game: p turns down the offer of p2.
Decline(p, p2) ==
  /\ {p, p2} \subseteq on /\ ptr[p2] # None
  /\ IsPlayer(p, ptr[p2]) /\ IsPlayer(p2, ptr[p2]) /\ Proposed(ptr[p2])
  /\ Destroy(ptr[p2], {p2})
  /\ UNCHANGED <<talker, on, gone, played, won>>

\* user_draughts_quit.
Quit(p) ==
  /\ p \in on /\ Playing(p) /\ MayLose(p)
  /\ Lose(p, FALSE, game)
  /\ UNCHANGED <<on, gone>>

\* check_if_on_draughts_game: p ignores p2.
Ignore(p, p2) ==
  /\ {p, p2} \subseteq on /\ p # p2
  /\ \/ Playing(p) /\ IsPlayer(p2, ptr[p]) /\ Proposed(ptr[p]) /\ Withdraw(p)
     \/ Playing(p) /\ IsPlayer(p2, ptr[p]) /\ ~Proposed(ptr[p]) /\ Quit(p)
     \/ ptr[p] = None /\ Decline(p, p2)

\* user_draughts_decl_win: the other side has not moved for MAX_MOVE.  Nobody
\* is to move in an offer, and it has never been moved in.
DeclareWin(p) ==
  /\ p \in on /\ Playing(p) /\ ptr[p] \notin gone
  /\ game[ptr[p]].toMove # p
  /\ LET enemy == Opponent(p, ptr[p])
     IN /\ Proposed(ptr[p]) => "quitOffer" \in Exercised
        /\ Playing(enemy)
        /\ Lose(enemy, FALSE, game)
  /\ UNCHANGED <<on, gone>>

\* The games when p has moved: the turn has passed.
Passed(p) == [game EXCEPT ![ptr[p]].toMove = Opponent(p, ptr[p])]

\* user_move_draughts, of a side to move.
Move(p) ==
  /\ p \in on /\ Playing(p) /\ game[ptr[p]].toMove = p
  /\ game' = Passed(p)
  /\ UNCHANGED <<talker, on, gone, ptr, list, played, won>>

\* The same when the other side has no piece left, or none that can move.
MoveAndWin(p) ==
  /\ p \in on /\ Playing(p) /\ game[ptr[p]].toMove = p
  /\ Playing(Opponent(p, ptr[p]))
  /\ Lose(Opponent(p, ptr[p]), FALSE, Passed(p))
  /\ UNCHANGED <<on, gone>>

\* user_draughts_chat and user_draughts_emote_chat: telling the watchers is a
\* loop that does not advance; one who has left is followed.  Chat without
\* watchers changes nothing.
Chat(p) ==
  /\ p \in on /\ (Playing(p) \/ Watching(p))
  /\ \/ /\ game[ptr[p]].watchers # {}
        /\ "chatWatched" \in Exercised
        /\ talker' = "hung"
        /\ UNCHANGED <<ptr, game, list, played, won>>
     \/ ptr[p] \in gone /\ Crash
     \/ game[ptr[p]].watchers = {} /\ UNCHANGED <<talker, ptr, game, list, played, won>>
  /\ UNCHANGED <<on, gone>>

\* Mutants of Close: only one player takes the game back; the game stays on
\* the list.
Close_half(p) ==
  /\ p \in on /\ Playing(p) /\ {"proposed", "friendly"} \cap game[ptr[p]].flags = {}
  /\ played' = [played EXCEPT ![p] = @ - 1]
  /\ Destroy(ptr[p], {p, Opponent(p, ptr[p])})
  /\ UNCHANGED <<talker, on, gone, won>>
Close_listed(p) ==
  /\ p \in on /\ Playing(p) /\ {"proposed", "friendly"} \cap game[ptr[p]].flags = {}
  /\ played' = [q \in Player |-> IF q \in {p, Opponent(p, ptr[p])}
                                 THEN played[q] - 1 ELSE played[q]]
  /\ game' = [game EXCEPT ![ptr[p]] = None]
  /\ ptr' = [q \in Player |-> IF ptr[q] = ptr[p] THEN None ELSE ptr[q]]
  /\ UNCHANGED <<talker, on, gone, list, won>>

\* user_draughts_close: a game that counts ends without a score when both
\* sides have closed it.
Close(p) ==
  /\ p \in on /\ Playing(p)
  /\ LET g == ptr[p]
         w == Opponent(p, g)
         mine == Side(p, g, "closedBlack", "closedWhite")
         theirs == Side(p, g, "closedWhite", "closedBlack")
     IN /\ {"friendly", mine} \cap game[g].flags = {}
        /\ \/ /\ theirs \in game[g].flags
              /\ played' = [played EXCEPT ![p] = @ - 1, ![w] = @ - 1]
              /\ Destroy(g, {p, w})
           \/ /\ theirs \notin game[g].flags
              /\ game' = [game EXCEPT ![g].flags = @ \cup {mine}]
              /\ UNCHANGED <<ptr, list, played>>
  /\ UNCHANGED <<talker, on, gone, won>>

\* user_draughts_private, "on": the game leaves the list when both want it.
PrivateOn(p) ==
  /\ p \in on /\ Playing(p)
  /\ LET g == ptr[p] IN
       /\ Mine(p, g) \notin game[g].flags
       /\ game' = [game EXCEPT ![g].flags = @ \cup {Mine(p, g)}]
       /\ list' = IF Theirs(p, g) \in game[g].flags
                  THEN list \ {game[g].black} ELSE list
  /\ UNCHANGED <<talker, on, gone, ptr, played, won>>

\* user_draughts_private, "off": it enters the list when neither does, an
\* offer as well.
PrivateOff(p) ==
  /\ p \in on /\ Playing(p)
  /\ Proposed(ptr[p]) => "offerPublic" \in Exercised
  /\ LET g == ptr[p] IN
       /\ Mine(p, g) \in game[g].flags
       /\ game' = [game EXCEPT ![g].flags = @ \ {Mine(p, g)}]
       /\ list' = IF Theirs(p, g) \in game[g].flags
                  THEN list ELSE list \cup {game[g].black}
  /\ UNCHANGED <<talker, on, gone, ptr, played, won>>

\* draughts_stop_watching_game.
StopWatching(p) ==
  /\ p \in on /\ Watching(p)
  /\ game' = [game EXCEPT ![ptr[p]].watchers = @ \ {p}]
  /\ ptr' = [ptr EXCEPT ![p] = None]
  /\ UNCHANGED <<talker, on, gone, list, played, won>>

\* user_draughts_watch: the games are counted first, by a loop that does not
\* advance (count_number_of_draughts_games).  A watcher changes games.
Watch(p) ==
  /\ p \in on /\ ~Playing(p) /\ list # {}
  /\ \/ /\ Cardinality(list) > 1
        /\ "twoPublic" \in Exercised
        /\ talker' = "hung"
        /\ UNCHANGED <<ptr, game>>
     \/ /\ Cardinality(list) = 1
        /\ \E b \in list :
             LET left == IF Watching(p)
                         THEN [game EXCEPT ![ptr[p]].watchers = @ \ {p}]
                         ELSE game
             IN IF ptr[b] = None
                THEN talker' = "crashed" /\ UNCHANGED <<ptr, game>>
                ELSE /\ ptr' = [ptr EXCEPT ![p] = ptr[b]]
                     /\ game' = [left EXCEPT ![ptr[b]].watchers = @ \cup {p}]
                     /\ UNCHANGED talker
  /\ UNCHANGED <<on, gone, list, played, won>>

\* The offers whose white player leaves keep their pointer to him.
Offered(p) == {g \in Game : game[g] # None /\ Proposed(g) /\ game[g].white = p}

\* A mutant of Logoff: the game keeps its watcher.
Logoff_watching(p) ==
  /\ p \in on
  /\ Offered(p) = {}
  /\ on' = on \ {p}
  /\ \/ /\ Watching(p)
        /\ ptr' = [ptr EXCEPT ![p] = None]
        /\ UNCHANGED <<talker, game, list, played, won>>
     \/ /\ Playing(p) /\ MayLose(p)
        /\ Lose(p, TRUE, game)
     \/ /\ ptr[p] = None
        /\ UNCHANGED <<talker, ptr, game, list, played, won>>
  /\ UNCHANGED gone

\* logoff_player_generic: a watcher stops watching, a player loses.
Logoff(p) ==
  /\ p \in on
  /\ Offered(p) # {} => "offeredLeaves" \in Exercised
  /\ on' = on \ {p}
  /\ gone' = gone \cup Offered(p)
  /\ \/ /\ Watching(p)
        /\ ptr' = [ptr EXCEPT ![p] = None]
        /\ game' = [game EXCEPT ![ptr[p]].watchers = @ \ {p}]
        /\ UNCHANGED <<talker, list, played, won>>
     \/ /\ Playing(p) /\ MayLose(p)
        /\ Lose(p, TRUE, game)
     \/ /\ ptr[p] = None
        /\ UNCHANGED <<talker, ptr, game, list, played, won>>

\* draughts_lose_game while the talker crashes or shuts down (sys_flag.panic):
\* everybody is logged off and the games are left as they are.
Panic ==
  LET undone == {p \in on : Playing(p) /\ "friendly" \in game[ptr[p]].flags}
  IN /\ undone # {} => "friendlyPanic" \in Exercised
     /\ talker' = "down"
     /\ on' = {}
     /\ played' = [p \in Player |-> IF p \in undone THEN played[p] - 1
                                    ELSE played[p]]
     /\ UNCHANGED <<ptr, game, gone, list, won>>

Command(p) ==
  \/ Withdraw(p)
  \/ Quit(p)
  \/ DeclareWin(p)
  \/ Move(p)
  \/ MoveAndWin(p)
  \/ Chat(p)
  \/ Close(p)
  \/ PrivateOn(p)
  \/ PrivateOff(p)
  \/ StopWatching(p)
  \/ Watch(p)

Next ==
  /\ talker = "up"
  /\ \/ \E p \in Player : Logon(p) \/ Logoff(p) \/ Command(p)
     \/ \E p, p2 \in Player :
          \/ \E friendly \in BOOLEAN : Offer(p, p2, friendly)
          \/ Accept(p, p2)
          \/ Decline(p, p2)
          \/ Ignore(p, p2)
     \/ Panic

Spec == Init /\ [][Next]_vars

----------------------------------------------------------------------------
Running(g) == game[g] # None /\ ~Proposed(g)
Counted(g) == Running(g) /\ "friendly" \notin game[g].flags

\* What p points at has him: as the one who offered it, as one who plays it or
\* as a watcher.
PointerAgrees(p) ==
  ptr[p] # None =>
    /\ p \in on \/ talker = "down"
    /\ game[ptr[p]] # None
    /\ \/ p = game[ptr[p]].black
       \/ p = game[ptr[p]].white /\ Running(ptr[p])
       \/ p \in game[ptr[p]].watchers

\* Whom the game has points at it.
GameAgrees(g) ==
  game[g] # None =>
    /\ game[g].black # game[g].white
    /\ {game[g].black, game[g].white} \cap game[g].watchers = {}
    /\ ptr[game[g].black] = g
    /\ Running(g) => ptr[game[g].white] = g
    /\ \A p \in game[g].watchers : ptr[p] = g

\* A player's pointer and the games agree: it is of an offer he made, of a
\* game he plays or of one he watches, and each of these has him.  Commands,
\* logoffs and games ending under their watchers all change one or the other.
PointersAgree ==
  /\ \A p \in Player : PointerAgrees(p)
  /\ \A g \in Game : GameAgrees(g)

Privacy(g) == {"privateBlack", "privateWhite"} \cap game[g].flags

\* An entry of the list has a running game, not one both want private.
EntryIsPublic(b) ==
  /\ ptr[b] # None
  /\ Running(ptr[b])
  /\ game[ptr[b]].black = b
  /\ Privacy(ptr[b]) # {"privateBlack", "privateWhite"}

\* The list of public games: every entry has a running game of its own, a
\* game both want private is not on it, and one nobody wants private is.
ListIsPublic ==
  /\ \A b \in list : EntryIsPublic(b)
  /\ \A g \in Game : Running(g) /\ Privacy(g) = {} => game[g].black \in list

\* The games that count and are not over, and those of a player.
Open(over)      == {g \in Game : Counted(g)} \ over
OpenOf(p, over) == {g \in Open(over) : p \in {game[g].black, game[g].white}}

AddUp(over) ==
  /\ SumFunction(played) = 2 * (SumFunction(won) + Cardinality(Open(over)))
  /\ \A p \in Player : played[p] >= won[p] + Cardinality(OpenOf(p, over))

\* The scores: a game that counts has been played by two, and won by one when
\* it is over, unless it was closed and taken back.  A game whose statistics
\* end the talker is over for the scores, although it is still there.
ScoresAddUp ==
  IF talker = "statistics"
  THEN \E g \in Game : Running(g) /\ AddUp({g})
  ELSE AddUp({})

\* No command makes the talker follow a null or stale pointer, add to the list
\* twice or loop for ever.  This is not so: every game that is resigned, won,
\* declared won or ended by "ignore" does, when its statistics are told.
StaysUp == talker \in {"up", "down"}

\* Nothing but telling the statistics of a lost game makes the talker follow a
\* null or stale pointer, add to the list twice or loop for ever.
OnlyStatisticsCrash == talker \in {"up", "down", "statistics"}
============================================================================
