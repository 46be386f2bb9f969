------------------------ MODULE DraughtsGames_proofs ------------------------
(***************************************************************************)
(* As long as no offer is quit, left or made public, no two games are      *)
(* public at once and nobody chats in a game that is watched, the draughts *)
(* games stay consistent, for any players and any number of games, the     *)
(* scores add up, and nothing ends the talker but telling the statistics   *)
(* of a lost game, which always does.                                      *)
(***************************************************************************)
EXTENDS DraughtsGames, FiniteSetTheorems, WellFoundedInduction, TLAPS

\* The commands the code does not survive are not given.
Careful == Exercised \subseteq {"friendlyPanic"}

\* An offer has no watchers, nobody to move, and only its proposer can have
\* closed it.
OfferIsNew(g) ==
  game[g] # None /\ Proposed(g) =>
    /\ game[g].watchers = {}
    /\ game[g].toMove = None
    /\ "closedWhite" \notin game[g].flags

\* The inductive invariant: which pointer is followed depends on whether the
\* games and the list agree, and what they become depends on the pointers.
IInv ==
  /\ TypeOK
  /\ gone = {}
  /\ OnlyStatisticsCrash
  /\ PointersAgree
  /\ ListIsPublic
  /\ \A g \in Game : OfferIsNew(g)

LEMMA InitIInv == Init => IInv
  <1> SUFFICES ASSUME Init PROVE IInv
    OBVIOUS
  <1> USE ConstAssumption DEF Init
  <1>1. TypeOK /\ gone = {} /\ OnlyStatisticsCrash
    BY DEF TypeOK, OnlyStatisticsCrash
  <1>2. PointersAgree
    BY DEF PointersAgree, PointerAgrees, GameAgrees
  <1>3. ListIsPublic
    BY DEF ListIsPublic, Running
  <1>4. \A g \in Game : OfferIsNew(g)
    BY DEF OfferIsNew
  <1> QED
    BY <1>1, <1>2, <1>3, <1>4 DEF IInv

\* A game that goes leaves no pointer at it and no entry of the list, when the
\* pointers of those who play it are cleared: of an offer that is the one who
\* made it.
LEMMA DestroyIInv ==
  ASSUME IInv, talker = "up", NEW g \in Game, game[g] # None,
         NEW freed,
         freed = {game[g].black} \cup (IF Proposed(g) THEN {} ELSE {game[g].white}),
         Destroy(g, freed),
         on' \in SUBSET Player, on \ freed \subseteq on',
         UNCHANGED <<talker, gone>>,
         played' \in [Player -> Int], won' \in [Player -> Nat]
  PROVE  IInv'
  <1> USE ConstAssumption DEF IInv
  <1>1. /\ ptr' = [q \in Player |-> IF q \in freed \cup game[g].watchers THEN None ELSE ptr[q]]
        /\ game' = [game EXCEPT ![g] = None]
        /\ list' = IF Proposed(g) THEN list ELSE list \ {game[g].black}
    BY DEF Destroy
  <1>2. TypeOK'
    <2>1. ptr' \in [Player -> Game \cup {None}]
      BY <1>1 DEF TypeOK
    <2>2. game' \in [Game -> GameRec \cup {None}]
      BY <1>1 DEF TypeOK
    <2>3. list' \in SUBSET Player
      BY <1>1 DEF TypeOK
    <2> QED
      BY <2>1, <2>2, <2>3 DEF TypeOK
  <1>3. GameAgrees(g) /\ game[g] \in GameRec /\ game \in [Game -> GameRec \cup {None}]
    BY DEF PointersAgree, TypeOK
  <1>4. \A p \in Player : ptr[p] = g => p \in freed \cup game[g].watchers
    BY <1>3 DEF PointersAgree, PointerAgrees, Running, GameRec
  <1>5. \A p \in Player : p \in freed \cup game[g].watchers => ptr[p] = g
    BY <1>3 DEF GameAgrees, Running, GameRec
  <1>6. \A h \in Game : h # g => game'[h] = game[h]
    BY <1>1, <1>3
  <1>7. game'[g] = None
    BY <1>1, <1>3
  <1>8. \A p \in Player : ptr'[p] = IF ptr[p] = g THEN None ELSE ptr[p]
    BY <1>1, <1>4, <1>5
  <1>9. \A p \in Player : PointerAgrees(p)'
    <2> SUFFICES ASSUME NEW p \in Player, ptr'[p] # None
                 PROVE  PointerAgrees(p)'
      BY DEF PointerAgrees
    <2>1. ptr[p] # g /\ ptr'[p] = ptr[p] /\ ptr[p] \in Game /\ p \notin freed
      BY <1>8, <1>5 DEF TypeOK
    <2>2. PointerAgrees(p) /\ game'[ptr[p]] = game[ptr[p]]
      BY <1>6, <2>1 DEF PointersAgree
    <2> QED
      BY <2>1, <2>2 DEF PointerAgrees, Running, Proposed
  <1>10. \A h \in Game : GameAgrees(h)'
    <2> SUFFICES ASSUME NEW h \in Game, game'[h] # None
                 PROVE  GameAgrees(h)'
      BY DEF GameAgrees
    <2>1. h # g /\ game'[h] = game[h] /\ GameAgrees(h) /\ game[h] \in GameRec
      BY <1>6, <1>7, <1>3 DEF PointersAgree
    <2> QED
      BY <2>1, <1>8 DEF GameAgrees, GameRec, Running, Proposed
  <1>11. ListIsPublic'
    <2>1. ASSUME NEW b \in list' PROVE EntryIsPublic(b)'
      <3>1. b \in list /\ EntryIsPublic(b) /\ b \in Player /\ ptr[b] \in Game
        BY <2>1, <1>1 DEF ListIsPublic, TypeOK, EntryIsPublic
      <3>2. ptr[b] # g
        BY <3>1, <2>1, <1>1 DEF EntryIsPublic, Running
      <3> QED
        BY <3>1, <3>2, <1>6, <1>8 DEF EntryIsPublic, Running, Proposed, Privacy
    <2>2. ASSUME NEW h \in Game, Running(h)', Privacy(h)' = {} PROVE game'[h].black \in list'
      <3>1. h # g /\ game'[h] = game[h] /\ Running(h) /\ Privacy(h) = {}
        BY <2>2, <1>6, <1>7 DEF Running, Proposed, Privacy
      <3>2. game[h].black \in list /\ ptr[game[h].black] = h /\ ptr[game[g].black] = g
        BY <3>1, <1>3 DEF ListIsPublic, PointersAgree, GameAgrees, Running
      <3> QED
        BY <3>1, <3>2, <1>1
    <2> QED
      BY <2>1, <2>2 DEF ListIsPublic
  <1>12. \A h \in Game : OfferIsNew(h)'
    BY <1>6, <1>7 DEF OfferIsNew, Proposed
  <1> QED
    BY <1>2, <1>9, <1>10, <1>11, <1>12 DEF PointersAgree, OnlyStatisticsCrash

\* What is known of the game a player plays.
LEMMA PlayingFacts ==
  ASSUME IInv, NEW p \in Player, Playing(p)
  PROVE  /\ ptr[p] \in Game
         /\ game[ptr[p]] \in GameRec
         /\ GameAgrees(ptr[p])
         /\ Opponent(p, ptr[p]) \in Player \ {p}
         /\ {p, Opponent(p, ptr[p])} = {game[ptr[p]].black, game[ptr[p]].white}
         /\ Proposed(ptr[p]) => p = game[ptr[p]].black
         /\ ~Proposed(ptr[p]) => ptr[Opponent(p, ptr[p])] = ptr[p]
  <1> USE ConstAssumption DEF IInv, Playing
  <1>1. ptr[p] \in Game /\ game[ptr[p]] \in GameRec
    BY DEF TypeOK
  <1>2. GameAgrees(ptr[p]) /\ PointerAgrees(p)
    BY <1>1 DEF PointersAgree
  <1>3. p \in {game[ptr[p]].black, game[ptr[p]].white}
    BY DEF IsPlayer
  <1>4. Proposed(ptr[p]) => p = game[ptr[p]].black
    BY <1>2, <1>3 DEF PointerAgrees, GameAgrees, Running
  <1>5. /\ Opponent(p, ptr[p]) \in Player \ {p}
        /\ {p, Opponent(p, ptr[p])} = {game[ptr[p]].black, game[ptr[p]].white}
    BY <1>1, <1>2, <1>3 DEF Opponent, GameAgrees, GameRec
  <1>6. ~Proposed(ptr[p]) => ptr[Opponent(p, ptr[p])] = ptr[p]
    BY <1>2, <1>3 DEF Opponent, GameAgrees, Running
  <1> QED
    BY <1>1, <1>2, <1>4, <1>5, <1>6

\* Losing a game that runs by leaving keeps the invariant: the winner's pointer
\* is of the same game.
LEMMA LoseIInv ==
  ASSUME IInv, talker = "up", NEW p \in Player, Playing(p),
         ~Proposed(ptr[p]), Lose(p, TRUE, game), gone' = gone,
         on' \in SUBSET Player, on \ {p} \subseteq on'
  PROVE  IInv'
  <1> USE ConstAssumption
  <1> DEFINE g == ptr[p]
             w == Opponent(p, g)
  <1>1. /\ g \in Game
        /\ game[g] # None
        /\ w \in Player
        /\ ptr[w] = g
        /\ {p, w} = {game[g].black} \cup (IF Proposed(g) THEN {} ELSE {game[g].white})
    BY PlayingFacts DEF Playing
  <1>2. g \notin gone /\ g # None
    BY <1>1 DEF IInv
  <1>3. /\ won' = IF "friendly" \in game[g].flags THEN won ELSE [won EXCEPT ![w] = @ + 1]
        /\ Destroy(g, {p, w})
        /\ UNCHANGED <<talker, played>>
    BY <1>1, <1>2 DEF Lose
  <1>4. played' \in [Player -> Int] /\ won' \in [Player -> Nat]
    <2>1. played \in [Player -> Int] /\ won \in [Player -> Nat]
      BY DEF IInv, TypeOK
    <2> HIDE DEF w
    <2> QED
      BY <1>1, <1>3, <2>1
  <1>5. on \ {p, w} \subseteq on'
    OBVIOUS
  <1> HIDE DEF g, w
  <1> QED
    BY <1>1, <1>3, <1>4, <1>5, DestroyIInv

\* The list stays right when one game changes and it is left on the list, put
\* on it or taken off it as its privacy asks for.
LEMMA ListFollows ==
  ASSUME IInv, UNCHANGED ptr, NEW g \in Game, game[g] # None,
         ptr'[game[g].black] = g, game'[g].black = game[g].black,
         game'[g] # None,
         \A h \in Game : h # g => game'[h] = game[h],
         list' \in SUBSET Player,
         \A b \in Player : b # game[g].black => (b \in list' <=> b \in list),
         game[g].black \in list' =>
            Running(g)' /\ Privacy(g)' # {"privateBlack", "privateWhite"},
         Running(g)' /\ Privacy(g)' = {} => game[g].black \in list'
  PROVE  ListIsPublic'
  <1> USE ConstAssumption DEF IInv
  <1>1. ASSUME NEW b \in list' PROVE EntryIsPublic(b)'
    <2>1. CASE b = game[g].black
      BY <2>1, <1>1 DEF EntryIsPublic
    <2>2. CASE b # game[g].black
      <3>1. b \in list /\ EntryIsPublic(b) /\ ptr[b] \in Game
        BY <2>2, <1>1 DEF ListIsPublic, EntryIsPublic, TypeOK
      <3>2. ptr[b] # g
        BY <3>1, <2>2 DEF EntryIsPublic
      <3> QED
        BY <3>1, <3>2 DEF EntryIsPublic, Running, Proposed, Privacy
    <2> QED
      BY <2>1, <2>2
  <1>2. ASSUME NEW h \in Game, Running(h)', Privacy(h)' = {} PROVE game'[h].black \in list'
    <2>1. CASE h = g
      BY <2>1, <1>2
    <2>2. CASE h # g
      <3>1. game'[h] = game[h] /\ Running(h) /\ Privacy(h) = {}
        BY <2>2, <1>2 DEF Running, Proposed, Privacy
      <3>2. game[h].black \in list /\ game[h].black \in Player /\ ptr[game[h].black] = h
        BY <3>1 DEF ListIsPublic, PointersAgree, GameAgrees, Running, TypeOK
      <3> QED
        BY <3>1, <3>2, <2>2
    <2> QED
      BY <2>1, <2>2
  <1> QED
    BY <1>1, <1>2 DEF ListIsPublic

\* A step that changes neither who is in the games nor which are offers keeps
\* the pointers and the games in agreement.
LEMMA SameShape ==
  ASSUME IInv, talker = "up", UNCHANGED <<on, gone, ptr>>, OnlyStatisticsCrash',
         TypeOK', ListIsPublic',
         \A h \in Game : game[h] = None => game'[h] = None,
         \A h \in Game : game[h] # None =>
            /\ game'[h] # None
            /\ game'[h].black = game[h].black
            /\ game'[h].white = game[h].white
            /\ game'[h].watchers = game[h].watchers
            /\ Proposed(h)' = Proposed(h)
            /\ Proposed(h) => /\ game'[h].toMove = None
                              /\ "closedWhite" \notin game'[h].flags
  PROVE  IInv'
  <1> USE ConstAssumption DEF IInv
  <1>1. \A p \in Player : PointerAgrees(p)'
    <2> SUFFICES ASSUME NEW p \in Player, ptr[p] # None
                 PROVE  PointerAgrees(p)'
      BY DEF PointerAgrees
    <2>1. ptr[p] \in Game /\ PointerAgrees(p)
      BY DEF TypeOK, PointersAgree
    <2> QED
      BY <2>1 DEF PointerAgrees, Running
  <1>2. \A h \in Game : GameAgrees(h)'
    <2> SUFFICES ASSUME NEW h \in Game, game[h] # None
                 PROVE  GameAgrees(h)'
      BY DEF GameAgrees
    <2>1. GameAgrees(h)
      BY DEF PointersAgree
    <2> QED
      BY <2>1 DEF GameAgrees, Running
  <1>3. \A h \in Game : OfferIsNew(h)'
    BY DEF OfferIsNew
  <1> QED
    BY <1>1, <1>2, <1>3 DEF PointersAgree, OnlyStatisticsCrash

\* The turn passes, or stays, in a game that runs.
LEMMA TurnIInv ==
  ASSUME IInv, talker = "up", OnlyStatisticsCrash',
         NEW g \in Game, game[g] # None, ~Proposed(g), NEW x \in Player \cup {None},
         game' = [game EXCEPT ![g].toMove = x],
         UNCHANGED <<on, gone, ptr, list>>,
         played' \in [Player -> Int], won' \in [Player -> Nat]
  PROVE  IInv'
  <1> USE ConstAssumption
  <1>1. game[g] \in GameRec /\ game \in [Game -> GameRec \cup {None}]
    BY DEF IInv, TypeOK
  <1>2. /\ \A h \in Game : h # g => game'[h] = game[h]
        /\ game'[g] = [game[g] EXCEPT !.toMove = x]
        /\ game'[g] \in GameRec
    BY <1>1 DEF GameRec
  <1>3. /\ game'[g] # None
        /\ game'[g].black = game[g].black
        /\ game'[g].white = game[g].white
        /\ game'[g].watchers = game[g].watchers
        /\ game'[g].flags = game[g].flags
    BY <1>1, <1>2 DEF GameRec
  <1>4. TypeOK'
    <2>1. game' \in [Game -> GameRec \cup {None}]
      BY <1>1, <1>2
    <2> QED
      BY <2>1 DEF IInv, TypeOK, OnlyStatisticsCrash
  <1>5. ListIsPublic'
    BY <1>1, <1>2, <1>3, ListFollows DEF IInv, TypeOK, ListIsPublic, EntryIsPublic, Running, Proposed, Privacy, PointersAgree, GameAgrees
  <1> QED
    BY <1>2, <1>3, <1>4, <1>5, SameShape DEF Proposed, IInv, OfferIsNew

\* So does losing it otherwise: the game is still there.
LEMMA ToldIInv ==
  ASSUME IInv, talker = "up", NEW p \in Player, Playing(p), ~Proposed(ptr[p]),
         NEW x \in Player \cup {None},
         Lose(p, FALSE, [game EXCEPT ![ptr[p]].toMove = x]), UNCHANGED <<on, gone>>
  PROVE  IInv'
  <1> USE ConstAssumption
  <1>1. PICK g \in Game : g = ptr[p]
    BY PlayingFacts
  <1> DEFINE w == Opponent(p, g)
  <1>2. game[g] # None /\ w \in Player /\ ptr[w] = g /\ g \notin gone /\ g # None
    BY <1>1, PlayingFacts DEF Playing, IInv
  <1>3. /\ won' = IF "friendly" \in game[g].flags THEN won ELSE [won EXCEPT ![w] = @ + 1]
        /\ game' = [game EXCEPT ![g].toMove = x]
        /\ talker' = "statistics"
        /\ UNCHANGED <<ptr, list, played>>
    BY <1>1, <1>2 DEF Lose
  <1>4. played' \in [Player -> Int] /\ won' \in [Player -> Nat]
    <2>1. played \in [Player -> Int] /\ won \in [Player -> Nat]
      BY DEF IInv, TypeOK
    <2> HIDE DEF w
    <2> QED
      BY <1>2, <1>3, <2>1
  <1>5. ~Proposed(g) /\ OnlyStatisticsCrash'
    BY <1>1, <1>3 DEF OnlyStatisticsCrash
  <1> HIDE DEF w
  <1> QED
    BY <1>2, <1>3, <1>4, <1>5, TurnIInv

\* The turn that stays.
LEMMA SameTurn ==
  ASSUME IInv, NEW g \in Game, game[g] # None
  PROVE  game[g].toMove \in Player \cup {None}
         /\ game = [game EXCEPT ![g].toMove = game[g].toMove]
  BY ConstAssumption DEF IInv, TypeOK, GameRec

\* A player who plays no game leaves the one he watches, if any, and watches
\* another, if there is one.
LEMMA WatchersIInv ==
  ASSUME IInv, talker = "up", NEW p \in Player, ~Playing(p),
         NEW to \in Game \cup {None}, to # None => Running(to) /\ p \in on',
         TypeOK', ptr' = [ptr EXCEPT ![p] = to],
         UNCHANGED <<talker, gone, list>>, on \ {p} \subseteq on',
         \A h \in Game : game[h] = None => game'[h] = None,
         \A h \in Game : game[h] # None =>
            /\ game'[h] # None
            /\ game'[h].black = game[h].black
            /\ game'[h].white = game[h].white
            /\ game'[h].flags = game[h].flags
            /\ game'[h].toMove = game[h].toMove
            /\ game'[h].watchers = (game[h].watchers \ {p})
                                     \cup (IF h = to THEN {p} ELSE {})
  PROVE  IInv'
  <1> USE ConstAssumption DEF IInv
  <1>1. /\ ptr'[p] = to
        /\ \A q \in Player : q # p => ptr'[q] = ptr[q]
    BY DEF TypeOK
  <1>2. \A h \in Game : game[h] # None =>
           /\ GameAgrees(h)
           /\ game[h] \in GameRec
           /\ Running(h)' = Running(h)
           /\ Privacy(h)' = Privacy(h)
           /\ game[h].black # p
           /\ Running(h) => game[h].white # p
    BY DEF PointersAgree, GameAgrees, TypeOK, Running, Proposed, Privacy, Playing, IsPlayer
  <1>3. \A q \in Player : PointerAgrees(q)'
    <2>1. PointerAgrees(p)'
      BY <1>1, <1>2 DEF PointerAgrees, Running
    <2>2. ASSUME NEW q \in Player, q # p, ptr[q] # None PROVE PointerAgrees(q)'
      <3>1. ptr[q] \in Game /\ PointerAgrees(q) /\ ptr'[q] = ptr[q]
        BY <1>1, <2>2 DEF TypeOK, PointersAgree
      <3> QED
        BY <3>1, <2>2, <1>2 DEF PointerAgrees
    <2> QED
      BY <2>1, <2>2, <1>1 DEF PointerAgrees
  <1>4. \A h \in Game : GameAgrees(h)'
    <2> SUFFICES ASSUME NEW h \in Game, game'[h] # None
                 PROVE  GameAgrees(h)'
      BY DEF GameAgrees
    <2>1. game[h] # None /\ GameAgrees(h) /\ game[h] \in GameRec
      BY <1>2
    <2>2. \A q \in game[h].watchers : q \in Player
      BY <2>1 DEF GameRec
    <2> QED
      BY <2>1, <2>2, <1>1, <1>2 DEF GameAgrees, GameRec
  <1>5. ListIsPublic'
    <2>1. ASSUME NEW b \in list PROVE EntryIsPublic(b)'
      <3>1. b \in Player /\ EntryIsPublic(b) /\ ptr[b] \in Game
        BY <2>1 DEF ListIsPublic, EntryIsPublic, TypeOK
      <3>2. b # p /\ ptr'[b] = ptr[b]
        BY <3>1, <1>1, <1>2 DEF EntryIsPublic, Running
      <3> QED
        BY <3>1, <3>2, <1>2 DEF EntryIsPublic, Running
    <2>2. ASSUME NEW h \in Game, Running(h)', Privacy(h)' = {} PROVE game'[h].black \in list
      BY <2>2, <1>2 DEF ListIsPublic, Running
    <2> QED
      BY <2>1, <2>2 DEF ListIsPublic
  <1>6. \A h \in Game : OfferIsNew(h)'
    <2> SUFFICES ASSUME NEW h \in Game, game[h] # None, Proposed(h)
                 PROVE  OfferIsNew(h)'
      BY DEF OfferIsNew, Proposed
    <2>1. OfferIsNew(h) /\ h # to
      BY DEF Running
    <2> QED
      BY <2>1 DEF OfferIsNew, Proposed
  <1> QED
    BY <1>3, <1>4, <1>5, <1>6 DEF PointersAgree, OnlyStatisticsCrash

----------------------------------------------------------------------------
(* The actions.                                                            *)

LEMMA LogonIInv ==
  ASSUME IInv, talker = "up", NEW p \in Player, Logon(p) PROVE IInv'
  <1> USE DEF IInv, Logon
  <1>1. TypeOK'
    BY DEF TypeOK
  <1>2. PointersAgree'
    BY DEF PointersAgree, PointerAgrees, GameAgrees, Running, Proposed
  <1>3. ListIsPublic'
    BY DEF ListIsPublic, EntryIsPublic, Running, Proposed, Privacy
  <1> QED
    BY <1>1, <1>2, <1>3 DEF OnlyStatisticsCrash, OfferIsNew, Proposed

LEMMA PanicIInv ==
  ASSUME IInv, talker = "up", Panic PROVE IInv'
  <1> USE DEF IInv, Panic
  <1>1. TypeOK'
    <2>1. played' \in [Player -> Int]
      BY DEF TypeOK
    <2> QED
      BY <2>1 DEF TypeOK
  <1>2. PointersAgree'
    BY DEF PointersAgree, PointerAgrees, GameAgrees, Running, Proposed
  <1>3. ListIsPublic'
    BY DEF ListIsPublic, EntryIsPublic, Running, Proposed, Privacy
  <1> QED
    BY <1>1, <1>2, <1>3 DEF OnlyStatisticsCrash, OfferIsNew, Proposed

LEMMA WithdrawIInv ==
  ASSUME IInv, talker = "up", NEW p \in Player, Withdraw(p) PROVE IInv'
  <1>1. /\ ptr[p] \in Game /\ game[ptr[p]] # None
        /\ {p} = {game[ptr[p]].black}
        /\ Proposed(ptr[p])
    BY PlayingFacts DEF Withdraw, Playing
  <1>2. Destroy(ptr[p], {p}) /\ UNCHANGED <<talker, on, gone, played, won>>
    BY <1>1 DEF Withdraw, IInv
  <1>3. on \in SUBSET Player /\ played \in [Player -> Int] /\ won \in [Player -> Nat]
    BY DEF IInv, TypeOK
  <1> QED
    BY <1>1, <1>2, <1>3, DestroyIInv

LEMMA DeclineIInv ==
  ASSUME IInv, talker = "up", NEW p \in Player, NEW p2 \in Player, Decline(p, p2)
  PROVE  IInv'
  <1> USE ConstAssumption
  <1>1. ptr[p2] \in Game /\ PointerAgrees(p2) /\ GameAgrees(ptr[p2])
    BY DEF Decline, IInv, TypeOK, PointersAgree
  <1>2. /\ game[ptr[p2]] # None
        /\ {p2} = {game[ptr[p2]].black}
        /\ Proposed(ptr[p2])
    BY <1>1 DEF Decline, PointerAgrees, GameAgrees, Running, IsPlayer
  <1>3. Destroy(ptr[p2], {p2}) /\ UNCHANGED <<talker, on, gone, played, won>>
    BY DEF Decline
  <1>4. on \in SUBSET Player /\ played \in [Player -> Int] /\ won \in [Player -> Nat]
    BY DEF IInv, TypeOK
  <1> QED
    BY <1>1, <1>2, <1>3, <1>4, DestroyIInv

LEMMA QuitIInv ==
  ASSUME Careful, IInv, talker = "up", NEW p \in Player, Quit(p) PROVE IInv'
  <1>1. Playing(p) /\ ~Proposed(ptr[p]) /\ Lose(p, FALSE, game) /\ UNCHANGED <<on, gone>>
    BY DEF Quit, MayLose, Careful
  <1> DEFINE x == game[ptr[p]].toMove
  <1>2. x \in Player \cup {None} /\ game = [game EXCEPT ![ptr[p]].toMove = x]
    BY <1>1, PlayingFacts, SameTurn DEF Playing
  <1> HIDE DEF x
  <1>3. Lose(p, FALSE, [game EXCEPT ![ptr[p]].toMove = x])
    BY <1>1, <1>2
  <1> QED
    BY <1>1, <1>2, <1>3, ToldIInv

LEMMA IgnoreIInv ==
  ASSUME Careful, IInv, talker = "up", NEW p \in Player, NEW p2 \in Player, Ignore(p, p2)
  PROVE  IInv'
  BY WithdrawIInv, QuitIInv, DeclineIInv DEF Ignore

LEMMA DeclareWinIInv ==
  ASSUME Careful, IInv, talker = "up", NEW p \in Player, DeclareWin(p) PROVE IInv'
  <1> DEFINE e == Opponent(p, ptr[p])
  <1>1. e \in Player /\ Playing(e) /\ ~Proposed(ptr[e]) /\ Lose(e, FALSE, game) /\ UNCHANGED <<on, gone>>
    BY PlayingFacts DEF DeclareWin, Careful
  <1> DEFINE x == game[ptr[e]].toMove
  <1> HIDE DEF e
  <1>2. x \in Player \cup {None} /\ game = [game EXCEPT ![ptr[e]].toMove = x]
    BY <1>1, PlayingFacts, SameTurn DEF Playing
  <1> HIDE DEF x
  <1>3. Lose(e, FALSE, [game EXCEPT ![ptr[e]].toMove = x])
    BY <1>1, <1>2
  <1> QED
    BY <1>1, <1>2, <1>3, ToldIInv

LEMMA MoveAndWinIInv ==
  ASSUME IInv, talker = "up", NEW p \in Player, MoveAndWin(p) PROVE IInv'
  <1> DEFINE e == Opponent(p, ptr[p])
  <1>1. ~Proposed(ptr[p])
    BY ConstAssumption, PlayingFacts DEF MoveAndWin, IInv, OfferIsNew, Playing
  <1>2. e \in Player /\ Playing(e) /\ ~Proposed(ptr[e]) /\ UNCHANGED <<on, gone>>
    BY <1>1, PlayingFacts DEF MoveAndWin
  <1>3. ptr[e] = ptr[p] /\ Lose(e, FALSE, Passed(p))
    BY <1>1, PlayingFacts DEF MoveAndWin
  <1>4. Passed(p) = [game EXCEPT ![ptr[e]].toMove = e]
    BY <1>3 DEF Passed
  <1> HIDE DEF e
  <1>5. Lose(e, FALSE, [game EXCEPT ![ptr[e]].toMove = e])
    BY <1>3, <1>4
  <1> QED
    BY <1>2, <1>5, ToldIInv

LEMMA MoveIInv ==
  ASSUME IInv, talker = "up", NEW p \in Player, Move(p) PROVE IInv'
  <1> USE ConstAssumption
  <1> DEFINE g == ptr[p]
             w == Opponent(p, g)
  <1>1. g \in Game /\ game[g] \in GameRec /\ game[g] # None /\ w \in Player
    BY PlayingFacts DEF Move, Playing
  <1>2. ~Proposed(g)
    BY <1>1 DEF Move, IInv, OfferIsNew
  <1>3. /\ game' = [game EXCEPT ![g].toMove = w]
        /\ UNCHANGED <<talker, on, gone, ptr, list, played, won>>
    BY DEF Move, Passed
  <1>4. played' \in [Player -> Int] /\ won' \in [Player -> Nat] /\ OnlyStatisticsCrash'
    BY <1>3 DEF IInv, TypeOK, OnlyStatisticsCrash
  <1> HIDE DEF g, w
  <1> QED
    BY <1>1, <1>2, <1>3, <1>4, TurnIInv

LEMMA ChatIInv ==
  ASSUME Careful, IInv, talker = "up", NEW p \in Player, Chat(p) PROVE IInv'
  <1>1. UNCHANGED vars
    BY DEF Chat, Careful, IInv, vars
  <1> QED
    BY <1>1 DEF vars, IInv, TypeOK, OnlyStatisticsCrash, PointersAgree, PointerAgrees,
       GameAgrees, ListIsPublic, EntryIsPublic, Running, Proposed, Privacy, OfferIsNew

\* A change of the flags of one game.
LEMMA FlagsChange ==
  ASSUME IInv, NEW g \in Game, game[g] # None, NEW flags \in SUBSET Flag,
         game' = [game EXCEPT ![g].flags = flags]
  PROVE  /\ game' \in [Game -> GameRec \cup {None}]
         /\ game'[g] # None
         /\ game'[g].black = game[g].black
         /\ game'[g].white = game[g].white
         /\ game'[g].toMove = game[g].toMove
         /\ game'[g].watchers = game[g].watchers
         /\ game'[g].flags = flags
         /\ \A h \in Game : h # g => game'[h] = game[h]
  <1> USE ConstAssumption
  <1>1. game[g] \in GameRec /\ game \in [Game -> GameRec \cup {None}]
    BY DEF IInv, TypeOK
  <1>2. /\ \A h \in Game : h # g => game'[h] = game[h]
        /\ game'[g] = [game[g] EXCEPT !.flags = flags]
        /\ game'[g] \in GameRec
    BY <1>1 DEF GameRec
  <1> QED
    BY <1>1, <1>2 DEF GameRec

\* A change of flags that leaves an offer an offer, with the list to match.
LEMMA FlagsIInv ==
  ASSUME IInv, talker = "up", NEW g \in Game, game[g] # None,
         NEW flags \in SUBSET Flag,
         game' = [game EXCEPT ![g].flags = flags],
         UNCHANGED <<talker, on, gone, ptr, won>>,
         played' \in [Player -> Int], list' \in SUBSET Player,
         "proposed" \in flags <=> Proposed(g),
         Proposed(g) => "closedWhite" \notin flags,
         \A b \in Player : b # game[g].black => (b \in list' <=> b \in list),
         game[g].black \in list' =>
            ~Proposed(g) /\ ~({"privateBlack", "privateWhite"} \subseteq flags),
         ~Proposed(g) /\ {"privateBlack", "privateWhite"} \cap flags = {}
            => game[g].black \in list'
  PROVE  IInv'
  <1> USE ConstAssumption
  <1>1. /\ game' \in [Game -> GameRec \cup {None}]
        /\ game'[g] # None
        /\ game'[g].black = game[g].black
        /\ game'[g].white = game[g].white
        /\ game'[g].toMove = game[g].toMove
        /\ game'[g].watchers = game[g].watchers
        /\ game'[g].flags = flags
        /\ \A h \in Game : h # g => game'[h] = game[h]
    BY FlagsChange
  <1>2. TypeOK'
    BY <1>1 DEF IInv, TypeOK
  <1>3. /\ Proposed(g)' = Proposed(g)
        /\ Running(g)' = ~Proposed(g)
        /\ Privacy(g)' = {"privateBlack", "privateWhite"} \cap flags
    BY <1>1 DEF Proposed, Running, Privacy
  <1>4. ListIsPublic'
    <2>1. ptr'[game[g].black] = g
      BY DEF IInv, PointersAgree, GameAgrees
    <2>2. game[g].black \in list' =>
            Running(g)' /\ Privacy(g)' # {"privateBlack", "privateWhite"}
      BY <1>3
    <2>3. Running(g)' /\ Privacy(g)' = {} => game[g].black \in list'
      BY <1>3
    <2> QED
      BY <1>1, <2>1, <2>2, <2>3, ListFollows
  <1>5. ASSUME NEW h \in Game, game[h] # None
        PROVE  /\ game'[h] # None
               /\ game'[h].black = game[h].black
               /\ game'[h].white = game[h].white
               /\ game'[h].watchers = game[h].watchers
               /\ Proposed(h)' = Proposed(h)
               /\ Proposed(h) => /\ game'[h].toMove = None
                                 /\ "closedWhite" \notin game'[h].flags
    <2>1. OfferIsNew(h)
      BY DEF IInv
    <2>2. CASE h = g
      BY <2>1, <2>2, <1>1, <1>3, <1>5 DEF OfferIsNew
    <2>3. CASE h # g
      BY <2>1, <2>3, <1>1, <1>5 DEF OfferIsNew, Proposed
    <2> QED
      BY <2>2, <2>3
  <1>6. \A h \in Game : game[h] = None => game'[h] = None
    BY <1>1
  <1>7. OnlyStatisticsCrash'
    BY DEF IInv, OnlyStatisticsCrash
  <1> QED
    BY <1>2, <1>4, <1>5, <1>6, <1>7, SameShape

LEMMA CloseIInv ==
  ASSUME IInv, talker = "up", NEW p \in Player, Close(p) PROVE IInv'
  <1> USE ConstAssumption
  <1>1. PICK g \in Game : g = ptr[p]
    BY PlayingFacts DEF Close
  <1> DEFINE w == Opponent(p, g)
             mine == Side(p, g, "closedBlack", "closedWhite")
             theirs == Side(p, g, "closedWhite", "closedBlack")
  <1>2. /\ game[g] \in GameRec
        /\ game[g] # None
        /\ {p, w} = {game[g].black, game[g].white}
        /\ p \in Player /\ w \in Player
        /\ ptr[game[g].black] = g
        /\ Proposed(g) => p = game[g].black
        /\ game[g].black # game[g].white
    BY <1>1, PlayingFacts DEF Close, Playing, GameAgrees
  <1>3. UNCHANGED <<talker, on, gone, won>>
    BY DEF Close
  <1>4. /\ on \in SUBSET Player
        /\ played \in [Player -> Int]
        /\ won \in [Player -> Nat]
        /\ list \in SUBSET Player
    BY DEF IInv, TypeOK
  <1>5. CASE theirs \in game[g].flags
    <2>1. ~Proposed(g)
      BY <1>2, <1>5 DEF IInv, OfferIsNew, Side
    <2>2. played' = [played EXCEPT ![p] = @ - 1, ![w] = @ - 1] /\ Destroy(g, {p, w})
      BY <1>1, <1>5 DEF Close
    <2>3. {p, w} = {game[g].black} \cup (IF Proposed(g) THEN {} ELSE {game[g].white})
      BY <1>2, <2>1
    <2> HIDE DEF w, mine, theirs
    <2>4. played' \in [Player -> Int]
      BY <1>2, <1>4, <2>2
    <2> QED
      BY <1>2, <1>3, <1>4, <2>2, <2>3, <2>4, DestroyIInv
  <1>6. CASE theirs \notin game[g].flags
    <2> DEFINE F == game[g].flags \cup {mine}
    <2>1. game' = [game EXCEPT ![g].flags = F] /\ UNCHANGED <<ptr, list, played>>
      BY <1>1, <1>6 DEF Close
    <2>2. /\ F \in SUBSET Flag
          /\ "proposed" \in F <=> Proposed(g)
          /\ Proposed(g) => "closedWhite" \notin F
          /\ F \cap {"privateBlack", "privateWhite"} = Privacy(g)
      <3>1. /\ game[g].flags \in SUBSET Flag
            /\ Proposed(g) => "closedWhite" \notin game[g].flags
        BY <1>2 DEF GameRec, IInv, OfferIsNew
      <3>2. /\ mine \in {"closedBlack", "closedWhite"}
            /\ Proposed(g) => mine = "closedBlack"
        BY <1>2 DEF Side
      <3>3. Proposed(g) => "closedWhite" \notin F
        BY <3>1, <3>2
      <3> HIDE DEF mine
      <3>4. /\ F \in SUBSET Flag
            /\ F \cap {"privateBlack", "privateWhite"} = Privacy(g)
        BY <3>1, <3>2 DEF Flag, Privacy
      <3>5. "proposed" \in F <=> Proposed(g)
        BY <3>2 DEF Proposed
      <3> QED
        BY <3>3, <3>4, <3>5
    <2> HIDE DEF w, mine, theirs, F
    <2>3. game[g].black \in list => ~Proposed(g) /\ Privacy(g) # {"privateBlack", "privateWhite"}
      BY <1>2 DEF IInv, ListIsPublic, EntryIsPublic, Running
    <2>4. ~Proposed(g) /\ Privacy(g) = {} => game[g].black \in list
      BY <1>2 DEF IInv, ListIsPublic, Running
    <2>5. /\ game[g].black \in list => ~Proposed(g) /\ ~({"privateBlack", "privateWhite"} \subseteq F)
          /\ ~Proposed(g) /\ {"privateBlack", "privateWhite"} \cap F = {} => game[g].black \in list
      BY <2>2, <2>3, <2>4
    <2> QED
      BY <1>2, <1>3, <1>4, <2>1, <2>2, <2>5, FlagsIInv
  <1> QED
    BY <1>5, <1>6

LEMMA PrivateOnIInv ==
  ASSUME IInv, talker = "up", NEW p \in Player, PrivateOn(p) PROVE IInv'
  <1> USE ConstAssumption
  <1>1. PICK g \in Game : g = ptr[p]
    BY PlayingFacts DEF PrivateOn
  <1> DEFINE F == game[g].flags \cup {Mine(p, g)}
  <1>2. /\ game[g] \in GameRec
        /\ game[g] # None
        /\ ptr[game[g].black] = g
        /\ game[g].black # game[g].white
        /\ p \in {game[g].black, game[g].white}
    BY <1>1, PlayingFacts DEF PrivateOn, Playing, GameAgrees
  <1>3. /\ game' = [game EXCEPT ![g].flags = F]
        /\ list' = IF Theirs(p, g) \in game[g].flags THEN list \ {game[g].black} ELSE list
        /\ UNCHANGED <<talker, on, gone, ptr, played, won>>
    BY <1>1 DEF PrivateOn
  <1>4. played \in [Player -> Int] /\ list \in SUBSET Player
    BY DEF IInv, TypeOK
  <1>5. /\ F \in SUBSET Flag
        /\ "proposed" \in F <=> Proposed(g)
        /\ Proposed(g) => "closedWhite" \notin F
        /\ F \cap {"privateBlack", "privateWhite"} # {}
        /\ Theirs(p, g) \notin game[g].flags => ~({"privateBlack", "privateWhite"} \subseteq F)
    BY <1>2 DEF GameRec, Flag, Side, Mine, Theirs, Proposed, IInv, OfferIsNew
  <1> HIDE DEF F
  <1>6. game[g].black \in list => ~Proposed(g)
    BY <1>2 DEF IInv, ListIsPublic, EntryIsPublic, Running
  <1> QED
    BY <1>2, <1>3, <1>4, <1>5, <1>6, FlagsIInv

LEMMA PrivateOffIInv ==
  ASSUME Careful, IInv, talker = "up", NEW p \in Player, PrivateOff(p) PROVE IInv'
  <1> USE ConstAssumption
  <1>1. PICK g \in Game : g = ptr[p]
    BY PlayingFacts DEF PrivateOff
  <1> DEFINE F == game[g].flags \ {Mine(p, g)}
  <1>2. /\ game[g] \in GameRec
        /\ game[g] # None
        /\ game[g].black \in Player
        /\ ptr[game[g].black] = g
        /\ game[g].black # game[g].white
        /\ p \in {game[g].black, game[g].white}
    BY <1>1, PlayingFacts DEF PrivateOff, Playing, GameAgrees, GameRec
  <1>3. /\ ~Proposed(g)
        /\ Mine(p, g) \in game[g].flags
        /\ game' = [game EXCEPT ![g].flags = F]
        /\ list' = IF Theirs(p, g) \in game[g].flags THEN list ELSE list \cup {game[g].black}
        /\ UNCHANGED <<talker, on, gone, ptr, played, won>>
    BY <1>1 DEF PrivateOff, Careful
  <1>4. played \in [Player -> Int] /\ list \in SUBSET Player
    BY DEF IInv, TypeOK
  <1>5. /\ F \in SUBSET Flag
        /\ "proposed" \in F <=> Proposed(g)
        /\ ~({"privateBlack", "privateWhite"} \subseteq F)
        /\ Theirs(p, g) \in game[g].flags => F \cap {"privateBlack", "privateWhite"} # {}
    BY <1>2, <1>3 DEF GameRec, Flag, Side, Mine, Theirs, Proposed
  <1> HIDE DEF F
  <1> QED
    BY <1>2, <1>3, <1>4, <1>5, FlagsIInv

\* The games when p has left the one he watches.
Left(p) == IF Watching(p) THEN [game EXCEPT ![ptr[p]].watchers = @ \ {p}] ELSE game

\* Only the game p points at has him as a watcher.
LEMMA LeftFacts ==
  ASSUME IInv, NEW p \in Player, ~Playing(p)
  PROVE  /\ Left(p) \in [Game -> GameRec \cup {None}]
         /\ \A h \in Game : game[h] = None => Left(p)[h] = None
         /\ \A h \in Game : game[h] # None =>
              /\ Left(p)[h] = [game[h] EXCEPT !.watchers = @ \ {p}]
              /\ Left(p)[h] \in GameRec
  <1> USE ConstAssumption
  <1>1. game \in [Game -> GameRec \cup {None}] /\ ptr \in [Player -> Game \cup {None}]
    BY DEF IInv, TypeOK
  <1>2. \A h \in Game : game[h] # None /\ p \in game[h].watchers => Watching(p) /\ ptr[p] = h
    BY DEF IInv, PointersAgree, GameAgrees, Playing, Watching
  <1>3. Watching(p) => ptr[p] \in Game /\ game[ptr[p]] # None
    BY <1>1 DEF Watching
  <1>4. ASSUME NEW h \in Game, game[h] # None
        PROVE  /\ Left(p)[h] = [game[h] EXCEPT !.watchers = @ \ {p}]
               /\ Left(p)[h] \in GameRec
    <2>1. game[h] \in GameRec
      BY <1>1, <1>4
    <2>2. CASE Watching(p) /\ ptr[p] = h
      BY <1>1, <2>1, <2>2 DEF Left, GameRec
    <2>3. CASE ~(Watching(p) /\ ptr[p] = h)
      <3>1. Left(p)[h] = game[h] /\ p \notin game[h].watchers
        BY <1>1, <1>2, <1>3, <1>4, <2>3 DEF Left
      <3>2. game[h].watchers \ {p} = game[h].watchers
        BY <3>1
      <3>3. [game[h] EXCEPT !.watchers = @ \ {p}] = game[h]
        BY <3>2, <2>1 DEF GameRec
      <3> QED
        BY <3>1, <3>3, <2>1
    <2> QED
      BY <2>2, <2>3
  <1>5. \A h \in Game : game[h] = None => Left(p)[h] = None
    BY <1>1, <1>3 DEF Left
  <1>6. DOMAIN Left(p) = Game /\ Left(p) = [h \in Game |-> Left(p)[h]]
    BY <1>1 DEF Left
  <1> QED
    BY <1>4, <1>5, <1>6

\* Leaving a game that is watched, or none.
LEMMA LeaveIInv ==
  ASSUME IInv, talker = "up", NEW p \in Player, ~Playing(p),
         ptr' = [ptr EXCEPT ![p] = None], game' = Left(p),
         UNCHANGED <<talker, gone, list, played, won>>,
         on' \in SUBSET Player, on \ {p} \subseteq on'
  PROVE  IInv'
  <1> USE ConstAssumption
  <1>1. TypeOK'
    <2>1. game' \in [Game -> GameRec \cup {None}]
      BY LeftFacts
    <2> QED
      BY <2>1 DEF IInv, TypeOK
  <1>2. \A h \in Game : game[h] = None => game'[h] = None
    BY LeftFacts
  <1>3. ASSUME NEW h \in Game, game[h] # None
        PROVE  /\ game'[h] # None
               /\ game'[h].black = game[h].black
               /\ game'[h].white = game[h].white
               /\ game'[h].flags = game[h].flags
               /\ game'[h].toMove = game[h].toMove
               /\ game'[h].watchers = (game[h].watchers \ {p})
                                        \cup (IF h = None THEN {p} ELSE {})
    <2>1. /\ game'[h] = [game[h] EXCEPT !.watchers = @ \ {p}]
          /\ game'[h] \in GameRec
          /\ game[h] \in GameRec
      BY <1>3, LeftFacts DEF IInv, TypeOK
    <2>2. h # None
      OBVIOUS
    <2> QED
      BY <2>1, <2>2 DEF GameRec
  <1>4. None \in Game \cup {None}
    OBVIOUS
  <1> QED
    BY <1>1, <1>2, <1>3, <1>4, WatchersIInv

LEMMA StopWatchingIInv ==
  ASSUME IInv, talker = "up", NEW p \in Player, StopWatching(p) PROVE IInv'
  <1>1. /\ ~Playing(p)
        /\ ptr' = [ptr EXCEPT ![p] = None]
        /\ game' = Left(p)
        /\ UNCHANGED <<talker, gone, list, played, won, on>>
    BY DEF StopWatching, Watching, Playing, Left
  <1> QED
    BY <1>1, LeaveIInv DEF IInv, TypeOK

LEMMA LogoffIInv ==
  ASSUME Careful, IInv, talker = "up", NEW p \in Player, Logoff(p) PROVE IInv'
  <1>1. UNCHANGED gone
    BY DEF Logoff, Careful
  <1>2. on' \in SUBSET Player /\ on \ {p} \subseteq on'
    BY DEF Logoff, IInv, TypeOK
  <1>3. CASE Watching(p) /\ ~Playing(p)
    BY <1>1, <1>2, <1>3, LeaveIInv DEF Logoff, Left, Playing, Watching
  <1>4. CASE Playing(p)
    <2>1. ~Proposed(ptr[p]) /\ Lose(p, TRUE, game)
      BY <1>4 DEF Logoff, MayLose, Careful, Playing, Watching
    <2> QED
      BY <1>1, <1>2, <1>4, <2>1, LoseIInv
  <1>5. CASE ptr[p] = None
    <2>1. ~Playing(p) /\ game' = Left(p) /\ UNCHANGED <<talker, gone, list, played, won>>
      BY <1>1, <1>5 DEF Logoff, Left, Playing, Watching
    <2>2. ptr' = [ptr EXCEPT ![p] = None]
      BY <1>5 DEF Logoff, Playing, Watching, IInv, TypeOK
    <2> QED
      BY <1>2, <2>1, <2>2, LeaveIInv
  <1> QED
    BY <1>3, <1>4, <1>5 DEF Logoff, Watching, Playing

LEMMA WatchIInv ==
  ASSUME Careful, IInv, talker = "up", NEW p \in Player, Watch(p) PROVE IInv'
  <1> USE ConstAssumption
  <1>1. /\ p \in on /\ ~Playing(p)
        /\ UNCHANGED <<on, gone, list, played, won>>
    BY DEF Watch
  <1>2. PICK b \in list :
          IF ptr[b] = None
          THEN talker' = "crashed" /\ UNCHANGED <<ptr, game>>
          ELSE /\ ptr' = [ptr EXCEPT ![p] = ptr[b]]
               /\ game' = [Left(p) EXCEPT ![ptr[b]].watchers = @ \cup {p}]
               /\ UNCHANGED talker
    BY DEF Watch, Careful, Left
  <1>3. EntryIsPublic(b) /\ b \in Player
    BY DEF IInv, ListIsPublic, TypeOK
  <1>4. PICK to \in Game : to = ptr[b]
    BY <1>3 DEF EntryIsPublic, IInv, TypeOK
  <1>5. /\ to # None /\ Running(to) /\ game[to] # None
        /\ ptr' = [ptr EXCEPT ![p] = to]
        /\ game' = [Left(p) EXCEPT ![to].watchers = @ \cup {p}]
        /\ UNCHANGED talker
    BY <1>2, <1>3, <1>4 DEF EntryIsPublic, Running
  <1>6. ASSUME NEW h \in Game, game[h] # None
        PROVE  /\ game'[h] \in GameRec
               /\ game'[h] # None
               /\ game'[h].black = game[h].black
               /\ game'[h].white = game[h].white
               /\ game'[h].flags = game[h].flags
               /\ game'[h].toMove = game[h].toMove
               /\ game'[h].watchers = (game[h].watchers \ {p})
                                        \cup (IF h = to THEN {p} ELSE {})
    <2>1. /\ Left(p)[h] = [game[h] EXCEPT !.watchers = @ \ {p}]
          /\ Left(p)[h] \in GameRec
          /\ game[h] \in GameRec
          /\ Left(p) \in [Game -> GameRec \cup {None}]
      BY <1>1, <1>6, LeftFacts DEF IInv, TypeOK
    <2>2. game'[h] = IF h = to THEN [Left(p)[h] EXCEPT !.watchers = @ \cup {p}] ELSE Left(p)[h]
      BY <1>5, <2>1
    <2>3. CASE h = to
      <3>1. game'[h] = [Left(p)[h] EXCEPT !.watchers = @ \cup {p}]
        BY <2>2, <2>3
      <3>2. Left(p)[h].watchers = game[h].watchers \ {p} /\ game[h].watchers \in SUBSET Player
        BY <2>1 DEF GameRec
      <3>3. game'[h].watchers = (game[h].watchers \ {p}) \cup {p}
        BY <2>1, <3>1, <3>2 DEF GameRec
      <3>4. game'[h] \in GameRec
        <4>1. \A r \in GameRec, ws \in SUBSET Player : [r EXCEPT !.watchers = ws] \in GameRec
          BY DEF GameRec
        <4>2. Left(p)[h].watchers \cup {p} \in SUBSET Player
          BY <3>2
        <4>3. [Left(p)[h] EXCEPT !.watchers = Left(p)[h].watchers \cup {p}] \in GameRec
          BY <2>1, <4>1, <4>2, Zenon
        <4> QED
          BY <3>1, <4>3, Zenon
      <3>5. /\ game'[h].black = game[h].black
            /\ game'[h].white = game[h].white
            /\ game'[h].flags = game[h].flags
            /\ game'[h].toMove = game[h].toMove
        BY <2>1, <3>1 DEF GameRec
      <3> QED
        BY <2>3, <3>3, <3>4, <3>5
    <2>4. CASE h # to
      BY <2>1, <2>2, <2>4 DEF GameRec
    <2> QED
      BY <2>3, <2>4
  <1>7. \A h \in Game : game[h] = None => game'[h] = None
    BY <1>1, <1>5, LeftFacts
  <1>8. TypeOK'
    <2>1. DOMAIN game' = Game /\ game' = [h \in Game |-> game'[h]]
      BY <1>1, <1>5, LeftFacts
    <2>2. game' \in [Game -> GameRec \cup {None}]
      BY <1>6, <1>7, <2>1
    <2>3. ptr' \in [Player -> Game \cup {None}]
      BY <1>5 DEF IInv, TypeOK
    <2> QED
      BY <1>1, <1>5, <2>2, <2>3 DEF IInv, TypeOK
  <1>9. /\ to \in Game \cup {None} /\ (to # None => Running(to) /\ p \in on')
        /\ on \ {p} \subseteq on'
        /\ UNCHANGED <<talker, gone, list>>
        /\ ptr' = [ptr EXCEPT ![p] = to]
    BY <1>1, <1>5
  <1>10. \A h \in Game : game[h] # None =>
            /\ game'[h] # None
            /\ game'[h].black = game[h].black
            /\ game'[h].white = game[h].white
            /\ game'[h].flags = game[h].flags
            /\ game'[h].toMove = game[h].toMove
            /\ game'[h].watchers = (game[h].watchers \ {p})
                                     \cup (IF h = to THEN {p} ELSE {})
    BY <1>6
  <1> HIDE ConstAssumption
  <1> QED
    BY <1>1, <1>7, <1>8, <1>9, <1>10, WatchersIInv

LEMMA OfferIInv ==
  ASSUME IInv, talker = "up", NEW p \in Player, NEW p2 \in Player,
         NEW friendly \in BOOLEAN, Offer(p, p2, friendly)
  PROVE  IInv'
  <1> USE ConstAssumption
  <1> DEFINE F == {"proposed"} \cup (IF friendly THEN {"friendly"} ELSE {})
                  \cup (IF p \in AutoPrivate THEN {"privateBlack"} ELSE {})
  <1>1. PICK g \in Game :
          /\ game[g] = None
          /\ game' = [game EXCEPT ![g] = [black |-> p, white |-> p2, toMove |-> None,
                                          watchers |-> {}, flags |-> F]]
          /\ ptr' = [ptr EXCEPT ![p] = g]
          /\ gone' = gone \ {g}
    BY DEF Offer
  <1>2. /\ {p, p2} \subseteq on /\ p # p2 /\ ptr[p] = None
        /\ UNCHANGED <<talker, on, list, played, won>>
    BY DEF Offer
  <1>3. gone = {} /\ gone' = {}
    BY <1>1 DEF IInv
  <1>4. F \in SUBSET Flag /\ "proposed" \in F /\ "closedWhite" \notin F
    BY DEF Flag
  <1> HIDE DEF F
  <1>5. /\ game'[g] = [black |-> p, white |-> p2, toMove |-> None, watchers |-> {}, flags |-> F]
        /\ game'[g] \in GameRec
        /\ game'[g] # None
    BY <1>1, <1>4 DEF IInv, TypeOK, GameRec
  <1>6. /\ \A h \in Game : h # g => game'[h] = game[h]
        /\ ptr'[p] = g /\ g # None
        /\ \A q \in Player : q # p => ptr'[q] = ptr[q]
    BY <1>1 DEF IInv, TypeOK
  <1>7. TypeOK'
    BY <1>1, <1>2, <1>3, <1>5 DEF IInv, TypeOK
  <1>8. Proposed(g)' /\ ~Running(g)'
    BY <1>4, <1>5 DEF Proposed, Running
  <1>9. \A q \in Player : ptr[q] # g
    BY <1>1, <1>6 DEF IInv, PointersAgree, PointerAgrees
  <1>10. \A q \in Player : PointerAgrees(q)'
    <2>1. PointerAgrees(p)'
      BY <1>2, <1>5, <1>6 DEF PointerAgrees
    <2>2. ASSUME NEW q \in Player, q # p, ptr[q] # None PROVE PointerAgrees(q)'
      <3>1. PointerAgrees(q) /\ ptr[q] \in Game /\ ptr[q] # g /\ ptr'[q] = ptr[q]
        BY <2>2, <1>6, <1>9 DEF IInv, PointersAgree, TypeOK
      <3> QED
        BY <3>1, <2>2, <1>2, <1>6 DEF PointerAgrees, Running, Proposed
    <2> QED
      BY <2>1, <2>2, <1>6 DEF PointerAgrees
  <1>11. \A h \in Game : GameAgrees(h)'
    <2>1. GameAgrees(g)'
      BY <1>2, <1>5, <1>6, <1>8 DEF GameAgrees
    <2>2. ASSUME NEW h \in Game, h # g, game[h] # None PROVE GameAgrees(h)'
      <3>1. GameAgrees(h) /\ game[h] \in GameRec /\ game'[h] = game[h] /\ h # None
        BY <2>2, <1>6 DEF IInv, PointersAgree, TypeOK
      <3>2. \A q \in Player : ptr[q] = h => ptr'[q] = h
        BY <1>2, <1>6, <3>1
      <3> QED
        BY <2>2, <3>1, <3>2 DEF GameAgrees, GameRec, Running, Proposed
    <2> QED
      BY <2>1, <2>2, <1>6 DEF GameAgrees
  <1>12. ListIsPublic'
    <2>1. ASSUME NEW b \in list PROVE EntryIsPublic(b)'
      <3>1. EntryIsPublic(b) /\ b \in Player /\ ptr[b] \in Game
        BY DEF IInv, ListIsPublic, EntryIsPublic, TypeOK
      <3>2. ptr'[b] = ptr[b] /\ ptr[b] # g
        BY <3>1, <1>2, <1>6, <1>9 DEF EntryIsPublic
      <3> QED
        BY <3>1, <3>2, <1>6 DEF EntryIsPublic, Running, Proposed, Privacy
    <2>2. ASSUME NEW h \in Game, Running(h)', Privacy(h)' = {} PROVE game'[h].black \in list
      BY <2>2, <1>6, <1>8 DEF IInv, ListIsPublic, Running, Proposed, Privacy
    <2> QED
      BY <2>1, <2>2, <1>2 DEF ListIsPublic
  <1>13. \A h \in Game : OfferIsNew(h)'
    <2>1. OfferIsNew(g)'
      BY <1>4, <1>5 DEF OfferIsNew
    <2> QED
      BY <2>1, <1>6 DEF IInv, OfferIsNew, Proposed
  <1> QED
    BY <1>2, <1>3, <1>7, <1>10, <1>11, <1>12, <1>13 DEF IInv, PointersAgree, OnlyStatisticsCrash

LEMMA AcceptIInv ==
  ASSUME IInv, talker = "up", NEW p \in Player, NEW p2 \in Player, Accept(p, p2)
  PROVE  IInv'
  <1> USE ConstAssumption
  <1>1. PICK g \in Game : g = ptr[p2]
    BY DEF Accept, IInv, TypeOK
  <1> DEFINE F == AcceptedFlags(p, g)
             public == F \cap {"privateBlack", "privateWhite"} = {}
             counted == IF "friendly" \in F THEN {} ELSE {p, p2}
  <1>2. /\ p \in on /\ p2 \in on /\ p # p2
        /\ ptr[p] = None
        /\ game[g].white = p /\ Proposed(g)
        /\ UNCHANGED <<on, gone>>
    BY <1>1 DEF Accept
  <1>3. /\ game[g] # None /\ game[g] \in GameRec /\ g # None
        /\ game[g].black = p2
        /\ game[g].watchers = {}
    <2>1. PointerAgrees(p2) /\ game[g] \in GameRec \cup {None} /\ OfferIsNew(g) /\ g # None
      BY DEF IInv, TypeOK, PointersAgree
    <2> QED
      BY <2>1, <1>1, <1>2 DEF PointerAgrees, Running, OfferIsNew
  <1>4. p2 \notin list
    BY <1>1, <1>2 DEF IInv, ListIsPublic, EntryIsPublic, Running
  <1>5. /\ game' = [game EXCEPT ![g].flags = F, ![g].toMove = p2]
        /\ ptr' = [ptr EXCEPT ![p] = g]
        /\ played' = [q \in Player |-> IF q \in counted THEN played[q] + 1 ELSE played[q]]
        /\ list' = IF public THEN list \cup {p2} ELSE list
        /\ UNCHANGED <<talker, won>>
    BY <1>1, <1>4 DEF Accept, IInv
  <1>6. /\ F \in SUBSET Flag
        /\ "proposed" \notin F
        /\ ~public => p2 \notin list'
    <2>1. F \in SUBSET Flag /\ "proposed" \notin F
      BY <1>3 DEF AcceptedFlags, GameRec, Flag
    <2>2. ~public => p2 \notin list'
      BY <1>4, <1>5
    <2> QED
      BY <2>1, <2>2
  <1>7. public => {"privateBlack", "privateWhite"} \cap F = {}
    OBVIOUS
  <1>8. list' \in SUBSET Player
    BY <1>5 DEF IInv, TypeOK
  <1>9. played' \in [Player -> Int]
    BY <1>5 DEF IInv, TypeOK
  <1> HIDE DEF F
  <1>10. /\ \A h \in Game : h # g => game'[h] = game[h]
         /\ game'[g] = [game[g] EXCEPT !.flags = F, !.toMove = p2]
    BY <1>5 DEF IInv, TypeOK
  <1>11. /\ game'[g] \in GameRec
         /\ game'[g] # None
         /\ game'[g].black = p2
         /\ game'[g].white = p
         /\ game'[g].watchers = {}
         /\ game'[g].flags = F
    <2>1. game'[g] \in GameRec
      BY <1>3, <1>6, <1>10 DEF GameRec
    <2>2. game'[g] # None
      BY <2>1
    <2>3. /\ game'[g].black = game[g].black /\ game'[g].white = game[g].white
          /\ game'[g].watchers = game[g].watchers /\ game'[g].flags = F
      BY <1>3, <1>10 DEF GameRec
    <2> QED BY <2>1, <2>2, <2>3, <1>2, <1>3
  <1>12. /\ ptr'[p] = g /\ ptr'[p2] = g
         /\ \A q \in Player : q # p => ptr'[q] = ptr[q]
    BY <1>1, <1>2, <1>5 DEF IInv, TypeOK
  <1>13. TypeOK'
    <2>1. game' \in [Game -> GameRec \cup {None}]
      BY <1>5, <1>10, <1>11 DEF IInv, TypeOK
    <2>2. ptr' \in [Player -> Game \cup {None}]
      BY <1>5 DEF IInv, TypeOK
    <2> QED
      BY <1>2, <1>5, <1>8, <1>9, <2>1, <2>2 DEF IInv, TypeOK
  <1>14. ~Proposed(g)' /\ Running(g)' /\ Privacy(g)' = F \cap {"privateBlack", "privateWhite"}
    BY <1>6, <1>11 DEF Proposed, Running, Privacy
  <1>15. \A q \in Player : PointerAgrees(q)'
    <2>1. PointerAgrees(p)' /\ PointerAgrees(p2)'
      BY <1>2, <1>11, <1>12, <1>14 DEF PointerAgrees
    <2>2. ASSUME NEW q \in Player, q # p, q # p2, ptr[q] # None PROVE PointerAgrees(q)'
      <3>1. PointerAgrees(q) /\ ptr[q] \in Game /\ ptr'[q] = ptr[q]
        BY <2>2, <1>12 DEF IInv, PointersAgree, TypeOK
      <3>2. ptr[q] # g
        BY <3>1, <2>2, <1>2, <1>3 DEF PointerAgrees, Running
      <3> QED
        BY <3>1, <3>2, <2>2, <1>2, <1>10 DEF PointerAgrees, Running, Proposed
    <2> QED
      BY <2>1, <2>2, <1>12 DEF PointerAgrees
  <1>16. \A h \in Game : GameAgrees(h)'
    <2>1. GameAgrees(g)'
      BY <1>2, <1>11, <1>12 DEF GameAgrees
    <2>2. ASSUME NEW h \in Game, h # g, game[h] # None PROVE GameAgrees(h)'
      <3>1. GameAgrees(h) /\ game[h] \in GameRec /\ game'[h] = game[h] /\ h # None
        BY <2>2, <1>10 DEF IInv, PointersAgree, TypeOK
      <3>2. \A q \in Player : ptr[q] = h => ptr'[q] = h
        BY <1>2, <1>12, <3>1
      <3> QED
        BY <2>2, <3>1, <3>2 DEF GameAgrees, GameRec, Running, Proposed
    <2> QED
      BY <2>1, <2>2, <1>10 DEF GameAgrees
  <1>17. ListIsPublic'
    <2>1. ASSUME NEW b \in list' PROVE EntryIsPublic(b)'
      <3>1. CASE b = p2
        <4>1. public
          BY <3>1, <2>1, <1>6
        <4>2. Privacy(g)' = {}
          BY <4>1, <1>14
        <4> QED
          BY <3>1, <4>2, <1>3, <1>11, <1>12, <1>14 DEF EntryIsPublic, Running
      <3>2. CASE b # p2
        <4>1. b \in list
          BY <3>2, <2>1, <1>5
        <4>2. EntryIsPublic(b) /\ b \in Player /\ ptr[b] \in Game
          BY <4>1 DEF IInv, ListIsPublic, EntryIsPublic, TypeOK
        <4>3. ptr'[b] = ptr[b] /\ ptr[b] # g
          BY <4>2, <1>2, <1>12 DEF EntryIsPublic, Running
        <4> QED
          BY <4>2, <4>3, <1>10 DEF EntryIsPublic, Running, Proposed, Privacy
      <3> QED
        BY <3>1, <3>2
    <2>2. ASSUME NEW h \in Game, Running(h)', Privacy(h)' = {} PROVE game'[h].black \in list'
      <3>1. CASE h = g
        <4>1. public
          BY <3>1, <2>2, <1>14
        <4> QED
          BY <3>1, <4>1, <1>5, <1>11
      <3>2. CASE h # g
        <4>1. game[h].black \in list
          BY <3>2, <2>2, <1>10 DEF IInv, ListIsPublic, Running, Proposed, Privacy
        <4>2. game'[h] = game[h]
          BY <3>2, <1>10
        <4>3. list \subseteq list'
          BY <1>5
        <4> QED
          BY <4>1, <4>2, <4>3
      <3> QED
        BY <3>1, <3>2
    <2> QED
      BY <2>1, <2>2 DEF ListIsPublic
  <1>18. \A h \in Game : OfferIsNew(h)'
    <2>1. OfferIsNew(g)'
      BY <1>14 DEF OfferIsNew
    <2> QED
      BY <2>1, <1>10 DEF IInv, OfferIsNew, Proposed
  <1> QED
    BY <1>2, <1>5, <1>13, <1>15, <1>16, <1>17, <1>18 DEF IInv, PointersAgree, OnlyStatisticsCrash

----------------------------------------------------------------------------
LEMMA NextIInv ==
  ASSUME Careful, IInv, [Next]_vars PROVE IInv'
  <1>1. CASE UNCHANGED vars
    BY <1>1 DEF vars, IInv, TypeOK, OnlyStatisticsCrash, PointersAgree, PointerAgrees, GameAgrees,
       ListIsPublic, EntryIsPublic, Running, Proposed, Privacy, OfferIsNew
  <1>2. CASE Next
    <2>1. talker = "up"
      BY <1>2 DEF Next
    <2>2. ASSUME NEW p \in Player, Logon(p) \/ Logoff(p) \/ Command(p) PROVE IInv'
      BY <2>1, <2>2, LogonIInv, LogoffIInv, WithdrawIInv, QuitIInv, DeclareWinIInv,
         MoveIInv, MoveAndWinIInv, ChatIInv, CloseIInv, PrivateOnIInv, PrivateOffIInv,
         StopWatchingIInv, WatchIInv DEF Command
    <2>3. ASSUME NEW p \in Player, NEW p2 \in Player,
                 \/ \E friendly \in BOOLEAN : Offer(p, p2, friendly)
                 \/ Accept(p, p2)
                 \/ Decline(p, p2)
                 \/ Ignore(p, p2)
          PROVE  IInv'
      BY <2>1, <2>3, OfferIInv, AcceptIInv, DeclineIInv, IgnoreIInv
    <2>4. ASSUME Panic PROVE IInv'
      BY <2>1, <2>4, PanicIInv
    <2> QED
      BY <1>2, <2>2, <2>3, <2>4 DEF Next
  <1> QED
    BY <1>1, <1>2

LEMMA Invariance == Careful => (Spec => []IInv)
  <1> SUFFICES ASSUME Careful PROVE Spec => []IInv
    OBVIOUS
  <1>1. Init => IInv
    BY InitIInv
  <1>2. IInv /\ [Next]_vars => IInv'
    BY NextIInv
  <1> QED
    BY <1>1, <1>2, PTL DEF Spec

\* The games have the shape the commands rely on.
THEOREM TypeCorrect == Careful => (Spec => []TypeOK)
  <1>1. IInv => TypeOK
    BY DEF IInv
  <1> QED
    BY <1>1, Invariance, PTL

\* Every player's pointer is of a game that has him, and every game has the
\* pointers of those who play and watch it.
THEOREM PointersCorrect == Careful => (Spec => []PointersAgree)
  <1>1. IInv => PointersAgree
    BY DEF IInv
  <1> QED
    BY <1>1, Invariance, PTL

\* The list has the games that run and that not both players want private.
THEOREM ListCorrect == Careful => (Spec => []ListIsPublic)
  <1>1. IInv => ListIsPublic
    BY DEF IInv
  <1> QED
    BY <1>1, Invariance, PTL

\* No command follows a null or stale pointer, adds to the list twice or loops
\* for ever, but telling the statistics of a game that was lost otherwise than
\* by leaving the talker.
THEOREM TalkerEndsByStatistics == Careful => (Spec => []OnlyStatisticsCrash)
  <1>1. IInv => OnlyStatisticsCrash
    BY DEF IInv
  <1> QED
    BY <1>1, Invariance, PTL

----------------------------------------------------------------------------
(* The scores.                                                             *)

\* Induction over the natural numbers, as the least of a set of them.
LEMMA LeastOf ==
  ASSUME NEW T \in SUBSET Nat, T # {}
  PROVE  \E n \in T : \A m \in T : n <= m
  <1> DEFINE R == OpToRel(<, Nat)
  <1>1. IsWellFoundedOn(R, Nat)
    BY NatLessThanWellFounded
  <1>2. \A m, n \in Nat : m < n => <<m, n>> \in R
    BY DEF OpToRel
  <1> HIDE DEF R
  <1>3. \E n \in T : \A m \in T : ~ (<<m, n>> \in R)
    BY <1>1, WFMin, Zenon
  <1>4. PICK n \in T : \A m \in T : ~ (<<m, n>> \in R)
    BY <1>3
  <1>5. \A m \in T : m \in Nat /\ n \in Nat /\ ~ (m < n)
    BY <1>2, <1>4
  <1> QED
    BY <1>4, <1>5

\* A sum as the library takes it: one of the elements, and the rest.
Pick(s) == CHOOSE x \in s : TRUE
Totals(f, t, D) == t = [s \in D |-> IF s = {} THEN 0 ELSE f[Pick(s)] + t[s \ {Pick(s)}]]
UpTo(S, m) == {s \in SUBSET S : Cardinality(s) <= m}

LEMMA SumIsChosen ==
  ASSUME NEW S, NEW f \in [S -> Int]
  PROVE  SumFunction(f) = (CHOOSE t : Totals(f, t, SUBSET S))[S]
  <1>1. DOMAIN f = S
    OBVIOUS
  <1> QED
    BY <1>1, Zenon DEF SumFunction, SumFunctionOnSet, FoldFunctionOnSet, MapThenFoldSet,
                       Totals, Pick

\* A set without the element that is picked is smaller.
LEMMA PickFacts ==
  ASSUME NEW S, IsFiniteSet(S), NEW s \in SUBSET S, s # {}
  PROVE  /\ Pick(s) \in s
         /\ s \ {Pick(s)} \in SUBSET S
         /\ Cardinality(s) \in Nat \ {0}
         /\ Cardinality(s \ {Pick(s)}) = Cardinality(s) - 1
  <1>1. Pick(s) \in s
    BY Zenon DEF Pick
  <1>2. IsFiniteSet(s)
    BY FS_Subset
  <1> QED
    BY <1>1, <1>2, FS_CardinalityType, FS_EmptySet, FS_RemoveElement

\* The recursion has a solution on the sets of any size.
LEMMA TotalsExist ==
  ASSUME NEW S, IsFiniteSet(S), NEW f
  PROVE  \E t : Totals(f, t, SUBSET S)
  <1> DEFINE T == {m \in Nat : ~ \E t : Totals(f, t, UpTo(S, m))}
  <1>1. T = {}
    <2>1. SUFFICES ASSUME T # {} PROVE FALSE
      OBVIOUS
    <2>2. PICK m \in T : \A k \in T : m <= k
      BY <2>1, LeastOf
    <2>3. m \in Nat /\ ~ \E t : Totals(f, t, UpTo(S, m))
      OBVIOUS
    <2>4. m # 0
      <3>1. SUFFICES ASSUME m = 0 PROVE FALSE
        OBVIOUS
      <3>2. \A s \in UpTo(S, 0) : s = {}
        <4> SUFFICES ASSUME NEW s \in UpTo(S, 0), s # {} PROVE FALSE
          OBVIOUS
        <4>1. s \in SUBSET S /\ Cardinality(s) <= 0
          BY DEF UpTo
        <4>2. Cardinality(s) \in Nat \ {0}
          BY <4>1, PickFacts
        <4> QED
          BY <4>1, <4>2
      <3>3. Totals(f, [s \in UpTo(S, 0) |-> 0], UpTo(S, 0))
        BY <3>2 DEF Totals
      <3> QED
        BY <3>1, <3>3, <2>3
    <2>5. m - 1 \in Nat /\ m - 1 \notin T
      BY <2>2, <2>3, <2>4
    <2>6. PICK t : Totals(f, t, UpTo(S, m - 1))
      BY <2>5
    <2> DEFINE u == [s \in UpTo(S, m) |->
                       IF s \in UpTo(S, m - 1) THEN t[s]
                       ELSE f[Pick(s)] + t[s \ {Pick(s)}]]
    <2> HIDE DEF T
    <2>7. ASSUME NEW s \in UpTo(S, m)
          PROVE  u[s] = IF s = {} THEN 0 ELSE f[Pick(s)] + u[s \ {Pick(s)}]
      <3>1. s \in SUBSET S /\ Cardinality(s) <= m
        BY DEF UpTo
      <3>2. CASE s = {}
        <4>1. s \in UpTo(S, m - 1)
          BY <3>1, <3>2, <2>5, FS_EmptySet DEF UpTo
        <4> QED
          BY <4>1, <3>2, <2>6 DEF Totals
      <3>3. CASE s # {}
        <4> DEFINE r == s \ {Pick(s)}
        <4>1. r \in SUBSET S /\ Cardinality(s) \in Nat /\ Cardinality(r) = Cardinality(s) - 1
          BY <3>1, <3>3, PickFacts
        <4>2. r \in UpTo(S, m - 1) /\ r \in UpTo(S, m)
          BY <4>1, <3>1, <2>3 DEF UpTo
        <4>3. u[r] = t[r]
          BY <4>2
        <4>4. s \in UpTo(S, m - 1) => t[s] = f[Pick(s)] + t[r]
          BY <3>3, <2>6 DEF Totals
        <4> QED
          BY <4>3, <4>4, <3>3
      <3> QED
        BY <3>2, <3>3
    <2>8. Totals(f, u, UpTo(S, m))
      BY <2>7 DEF Totals
    <2> QED
      BY <2>8, <2>3
  <1>2. Cardinality(S) \in Nat /\ \A s \in SUBSET S : Cardinality(s) <= Cardinality(S)
    BY FS_CardinalityType, FS_Subset
  <1>3. UpTo(S, Cardinality(S)) = SUBSET S
    BY <1>2 DEF UpTo
  <1>4. \E t : Totals(f, t, UpTo(S, Cardinality(S)))
    BY <1>1, <1>2
  <1> QED
    BY <1>3, <1>4

Adds(t, f, S) ==
  /\ t[{}] = 0
  /\ \A s \in SUBSET S : s # {} => t[s] = f[Pick(s)] + t[s \ {Pick(s)}]

LEMMA SumFacts ==
  ASSUME NEW S, IsFiniteSet(S), NEW f \in [S -> Int]
  PROVE  \E t : SumFunction(f) = t[S] /\ Adds(t, f, S)
  <1> DEFINE t == CHOOSE t : Totals(f, t, SUBSET S)
  <1>1. Totals(f, t, SUBSET S)
    BY TotalsExist
  <1>2. SumFunction(f) = t[S]
    BY SumIsChosen
  <1> HIDE DEF t
  <1>3. Adds(t, f, S)
    BY <1>1 DEF Totals, Adds
  <1> QED
    BY <1>2, <1>3

\* Induction over the subsets of a finite set: one that is not in G has a
\* smaller one that is not either.
LEMMA SubsetInduction ==
  ASSUME NEW S, IsFiniteSet(S), NEW G,
         {} \in G,
         \A s \in SUBSET S : s # {} /\ s \ {Pick(s)} \in G => s \in G
  PROVE  S \in G
  <1> DEFINE T == {m \in Nat : \E s \in SUBSET S : s \notin G /\ Cardinality(s) = m}
  <1>1. SUFFICES ASSUME S \notin G PROVE FALSE
    OBVIOUS
  <1>2. Cardinality(S) \in T
    BY <1>1, FS_CardinalityType
  <1>3. PICK m \in T : \A k \in T : m <= k
    BY <1>2, LeastOf
  <1>4. PICK s \in SUBSET S : s \notin G /\ Cardinality(s) = m
    OBVIOUS
  <1>5. s # {} /\ s \ {Pick(s)} \notin G
    BY <1>4
  <1>6. /\ s \ {Pick(s)} \in SUBSET S
        /\ m \in Nat \ {0} /\ Cardinality(s \ {Pick(s)}) = m - 1
    BY <1>4, <1>5, PickFacts
  <1>7. m - 1 \in T
    BY <1>5, <1>6
  <1> QED
    BY <1>3, <1>6, <1>7

LEMMA SumType ==
  ASSUME NEW S, IsFiniteSet(S), NEW f \in [S -> Int]
  PROVE  SumFunction(f) \in Int
  <1>1. PICK t : SumFunction(f) = t[S] /\ Adds(t, f, S)
    BY SumFacts
  <1> DEFINE G == {s \in SUBSET S : t[s] \in Int}
  <1>2. {} \in G
    BY <1>1 DEF Adds
  <1>3. ASSUME NEW s \in SUBSET S, s # {}, s \ {Pick(s)} \in G
        PROVE  s \in G
    <2>1. Pick(s) \in S
      BY <1>3, PickFacts
    <2>2. t[s] = f[Pick(s)] + t[s \ {Pick(s)}]
      BY <1>1, <1>3 DEF Adds
    <2> QED
      BY <1>3, <2>1, <2>2
  <1>4. S \in G
    <2> HIDE DEF G
    <2> QED
      BY <1>2, <1>3, SubsetInduction
  <1> QED
    BY <1>1, <1>4

\* Adding to one of the numbers adds as much to the sum.
LEMMA SumChanges ==
  ASSUME NEW S, IsFiniteSet(S), NEW f \in [S -> Int], NEW g \in [S -> Int],
         NEW a \in S, NEW d \in Int,
         g[a] = f[a] + d, \A x \in S : x # a => g[x] = f[x]
  PROVE  SumFunction(g) = SumFunction(f) + d
  <1> DEFINE extra(s) == IF a \in s THEN d ELSE 0
  <1>1. PICK t : SumFunction(f) = t[S] /\ Adds(t, f, S)
    BY SumFacts
  <1>2. PICK u : SumFunction(g) = u[S] /\ Adds(u, g, S)
    BY SumFacts
  <1> DEFINE G == {s \in SUBSET S : t[s] \in Int /\ u[s] = t[s] + extra(s)}
  <1>3. {} \in G
    BY <1>1, <1>2 DEF Adds
  <1>4. ASSUME NEW s \in SUBSET S, s # {}, s \ {Pick(s)} \in G
        PROVE  s \in G
    <2> DEFINE x == Pick(s)
               r == s \ {x}
    <2>1. x \in s /\ x \in S
      BY <1>4, PickFacts
    <2>2. t[r] \in Int /\ u[r] = t[r] + extra(r)
      BY <1>4
    <2>3. t[s] = f[x] + t[r] /\ u[s] = g[x] + u[r]
      BY <1>1, <1>2, <1>4 DEF Adds
    <2> HIDE DEF x
    <2>4. f[x] \in Int /\ g[x] = f[x] + (IF x = a THEN d ELSE 0)
      BY <2>1
    <2>5. extra(s) = (IF x = a THEN d ELSE 0) + extra(r)
      BY <2>1
    <2> QED
      BY <2>2, <2>3, <2>4, <2>5
  <1>5. S \in G
    <2> HIDE DEF G
    <2> QED
      BY <1>3, <1>4, SubsetInduction
  <1> QED
    BY <1>1, <1>2, <1>5

\* There are only as many games as pointers.
LEMMA OpenIsFinite ==
  ASSUME IInv
  PROVE  IsFiniteSet(Open({})) /\ \A p \in Player : IsFiniteSet(OpenOf(p, {}))
  <1> DEFINE T == {ptr[p] : p \in Player}
  <1>1. IsFiniteSet(Player) /\ ptr \in [Player -> Game \cup {None}]
    BY ConstAssumption DEF IInv, TypeOK
  <1>2. ptr \in Surjection(Player, T)
    BY <1>1 DEF Surjection
  <1>3. IsFiniteSet(T)
    BY <1>1, <1>2, FS_Surjection
  <1>4. Open({}) \subseteq T
    <2> SUFFICES ASSUME NEW g \in Game, Counted(g) PROVE g \in T
      BY DEF Open
    <2>1. game[g] \in GameRec /\ ptr[game[g].black] = g
      BY ConstAssumption DEF Counted, Running, IInv, TypeOK, PointersAgree, GameAgrees
    <2> QED
      BY <2>1 DEF GameRec
  <1>5. IsFiniteSet(Open({}))
    <2> HIDE DEF T
    <2> QED
      BY <1>3, <1>4, FS_Subset
  <1>6. \A p \in Player : OpenOf(p, {}) \in SUBSET Open({})
    BY DEF Open, OpenOf
  <1> QED
    BY <1>5, <1>6, FS_Subset

\* A step that begins and ends no game that counts.
LEMMA SameScores ==
  ASSUME AddUp({}), UNCHANGED <<played, won>>, NEW over,
         \A h \in Game : Counted(h)' /\ h \notin over <=> Counted(h),
         \A h \in Game : Counted(h) => /\ game'[h].black = game[h].black
                                       /\ game'[h].white = game[h].white
  PROVE  AddUp(over)'
  <1>1. Open(over)' = Open({})
    BY DEF Open
  <1>2. \A p \in Player : OpenOf(p, over)' = OpenOf(p, {})
    BY <1>1 DEF OpenOf, Open
  <1>3. /\ SumFunction(played') = 2 * (SumFunction(won') + Cardinality(Open(over)'))
        /\ \A p \in Player : played'[p] >= won'[p] + Cardinality(OpenOf(p, over)')
    BY <1>1, <1>2 DEF AddUp
  <1> QED
    BY <1>3 DEF AddUp

\* A game that counts is over: it is won by one of the two, or taken back from
\* both.  It is gone, or among those that are over but for their block.
LEMMA GameOver ==
  ASSUME IInv, AddUp({}), NEW g \in Game, Counted(g),
         NEW over, over \subseteq {g}, game'[g] = None \/ over = {g},
         \A h \in Game : h # g => game'[h] = game[h],
         NEW p \in Player, NEW w \in Player, {p, w} = {game[g].black, game[g].white},
         \/ won' = [won EXCEPT ![w] = @ + 1] /\ UNCHANGED played
         \/ played' = [played EXCEPT ![p] = @ - 1, ![w] = @ - 1] /\ UNCHANGED won
  PROVE  AddUp(over)'
  <1>1. /\ IsFiniteSet(Player)
        /\ played \in [Player -> Int] /\ won \in [Player -> Nat] /\ won \in [Player -> Int]
    BY ConstAssumption DEF IInv, TypeOK
  <1>7. p # w
    <2>1. game[g] # None /\ GameAgrees(g)
      BY DEF IInv, PointersAgree, Counted, Running
    <2>2. game[g].black # game[g].white
      BY <2>1 DEF GameAgrees
    <2> QED
      BY <2>2
  <1>2. /\ SumFunction(played) \in Int /\ SumFunction(won) \in Int
        /\ Cardinality(Open({})) \in Nat
        /\ \A q \in Player : Cardinality(OpenOf(q, {})) \in Nat
    BY <1>1, OpenIsFinite, FS_CardinalityType, SumType
  <1>0. Open(over)' = Open({}) \ {g} /\ g \in Open({})
    BY DEF Open, Counted, Running, Proposed
  <1>3. Cardinality(Open(over)') = Cardinality(Open({})) - 1
    <2>1. Open(over)' = Open({}) \ {g} /\ g \in Open({})
      BY <1>0
    <2> QED
      BY <2>1, OpenIsFinite, FS_RemoveElement
  <1>4. \A q \in Player : Cardinality(OpenOf(q, over)') =
          Cardinality(OpenOf(q, {})) - (IF q \in {p, w} THEN 1 ELSE 0)
    <2> SUFFICES ASSUME NEW q \in Player
                 PROVE  Cardinality(OpenOf(q, over)') =
                          Cardinality(OpenOf(q, {})) - (IF q \in {p, w} THEN 1 ELSE 0)
      OBVIOUS
    <2>1. OpenOf(q, over)' = OpenOf(q, {}) \ {g} /\ (g \in OpenOf(q, {}) <=> q \in {p, w})
      <3>1. \A h \in Open({}) : h \in Game
        BY DEF Open
      <3> QED
        BY <1>0, <3>1 DEF OpenOf
    <2>2. Cardinality(OpenOf(q, {}) \ {g}) =
            IF g \in OpenOf(q, {}) THEN Cardinality(OpenOf(q, {})) - 1
            ELSE Cardinality(OpenOf(q, {}))
      BY OpenIsFinite, FS_RemoveElement
    <2> QED
      BY <1>2, <2>1, <2>2
  <1>5. CASE won' = [won EXCEPT ![w] = @ + 1] /\ UNCHANGED played
    <2>1. SumFunction(won') = SumFunction(won) + 1
      <3>1. /\ won' \in [Player -> Int]
            /\ won'[w] = won[w] + 1 /\ \A q \in Player : q # w => won'[q] = won[q]
        BY <1>1, <1>5
      <3> QED
        BY <1>1, <3>1, SumChanges
    <2>2. \A q \in Player : won'[q] <= won[q] + (IF q \in {p, w} THEN 1 ELSE 0)
      BY <1>1, <1>5
    <2>3. SumFunction(played') = 2 * (SumFunction(won') + Cardinality(Open(over)'))
      BY <1>2, <1>3, <1>5, <2>1 DEF AddUp
    <2>4. ASSUME NEW q \in Player PROVE played'[q] >= won'[q] + Cardinality(OpenOf(q, over)')
      <3>1. played[q] >= won[q] + Cardinality(OpenOf(q, {}))
        BY DEF AddUp
      <3>2. played[q] \in Int /\ won[q] \in Int /\ won'[q] \in Int /\ played'[q] = played[q]
        BY <1>1, <1>5
      <3> QED
        BY <1>2, <1>4, <2>2, <3>1, <3>2
    <2> QED
      BY <2>3, <2>4 DEF AddUp
  <1>6. CASE played' = [played EXCEPT ![p] = @ - 1, ![w] = @ - 1] /\ UNCHANGED won
    <2> DEFINE f == [played EXCEPT ![p] = @ + (-1)]
    <2>0. f \in [Player -> Int]
      BY <1>1
    <2>1. f[p] = played[p] + (-1) /\ \A q \in Player : q # p => f[q] = played[q]
      BY <1>1
    <2>2. /\ played' \in [Player -> Int]
          /\ played'[w] = f[w] + (-1) /\ \A q \in Player : q # w => played'[q] = f[q]
      BY <1>1, <1>7, <1>6
    <2> HIDE DEF f
    <2>3. SumFunction(f) = SumFunction(played) + (-1)
      BY <1>1, <2>0, <2>1, SumChanges
    <2>4. SumFunction(played') = SumFunction(f) + (-1)
      BY <1>1, <2>0, <2>2, SumChanges
    <2>5. SumFunction(played') = 2 * (SumFunction(won') + Cardinality(Open(over)'))
      BY <1>2, <1>3, <1>6, <2>3, <2>4 DEF AddUp
    <2>6. ASSUME NEW q \in Player PROVE played'[q] >= won'[q] + Cardinality(OpenOf(q, over)')
      <3>1. played[q] >= won[q] + Cardinality(OpenOf(q, {}))
        BY DEF AddUp
      <3>2. /\ played[q] \in Int /\ won[q] \in Int /\ won'[q] = won[q]
            /\ played'[q] = played[q] - (IF q \in {p, w} THEN 1 ELSE 0)
        BY <1>1, <1>6
      <3> QED
        BY <1>2, <1>4, <3>1, <3>2
    <2> QED
      BY <2>5, <2>6 DEF AddUp
  <1> QED
    BY <1>5, <1>6

\* An offer is accepted for a game that counts: both have played one more.
LEMMA GameBegins ==
  ASSUME IInv, AddUp({}), NEW g \in Game, ~Counted(g), Counted(g)',
         \A h \in Game : h # g => game'[h] = game[h],
         NEW p \in Player, NEW w \in Player, p # w,
         {p, w} = {game'[g].black, game'[g].white},
         played' = [q \in Player |-> IF q \in {p, w} THEN played[q] + 1 ELSE played[q]],
         UNCHANGED won
  PROVE  AddUp({})'
  <1>1. /\ IsFiniteSet(Player)
        /\ played \in [Player -> Int] /\ won \in [Player -> Nat] /\ won \in [Player -> Int]
    BY ConstAssumption DEF IInv, TypeOK
  <1>2. /\ SumFunction(played) \in Int /\ SumFunction(won) \in Int
        /\ Cardinality(Open({})) \in Nat
        /\ \A q \in Player : Cardinality(OpenOf(q, {})) \in Nat
    BY <1>1, OpenIsFinite, FS_CardinalityType, SumType
  <1>3. Cardinality(Open({})') = Cardinality(Open({})) + 1
    <2>1. Open({})' = Open({}) \cup {g} /\ g \notin Open({})
      BY DEF Open, Counted, Running, Proposed
    <2> QED
      BY <2>1, OpenIsFinite, FS_AddElement
  <1>4. \A q \in Player : Cardinality(OpenOf(q, {})') =
          Cardinality(OpenOf(q, {})) + (IF q \in {p, w} THEN 1 ELSE 0)
    <2> SUFFICES ASSUME NEW q \in Player
                 PROVE  Cardinality(OpenOf(q, {})') =
                          Cardinality(OpenOf(q, {})) + (IF q \in {p, w} THEN 1 ELSE 0)
      OBVIOUS
    <2>1. /\ g \notin OpenOf(q, {})
          /\ OpenOf(q, {})' = IF q \in {p, w} THEN OpenOf(q, {}) \cup {g} ELSE OpenOf(q, {})
      BY DEF OpenOf, Open, Counted, Running, Proposed
    <2>2. Cardinality(OpenOf(q, {}) \cup {g}) = Cardinality(OpenOf(q, {})) + 1
      <3> DEFINE O == OpenOf(q, {})
      <3>1. IsFiniteSet(O) /\ g \notin O
        BY <2>1, OpenIsFinite
      <3> HIDE DEF O
      <3>2. Cardinality(O \cup {g}) = Cardinality(O) + 1
        BY <3>1, FS_AddElement
      <3> QED
        BY <3>2 DEF O
    <2>3. CASE q \in {p, w}
      <3>1. OpenOf(q, {})' = OpenOf(q, {}) \cup {g}
        BY <2>1, <2>3
      <3> QED
        BY <2>2, <2>3, <3>1
    <2>4. CASE q \notin {p, w}
      <3>1. OpenOf(q, {})' = OpenOf(q, {})
        BY <2>1, <2>4
      <3>2. Cardinality(OpenOf(q, {})) \in Nat
        BY <1>2
      <3> QED
        BY <2>4, <3>1, <3>2
    <2> QED
      BY <2>3, <2>4
  <1> DEFINE f == [played EXCEPT ![p] = @ + 1]
  <1>5. /\ f \in [Player -> Int]
        /\ f[p] = played[p] + 1 /\ \A q \in Player : q # p => f[q] = played[q]
    BY <1>1
  <1>6. /\ played' \in [Player -> Int]
        /\ played'[w] = f[w] + 1 /\ \A q \in Player : q # w => played'[q] = f[q]
    BY <1>1
  <1> HIDE DEF f
  <1>7. SumFunction(f) = SumFunction(played) + 1
    BY <1>1, <1>5, SumChanges
  <1>8. SumFunction(played') = SumFunction(f) + 1
    <2> DEFINE h == played'
    <2>1. IsFiniteSet(Player) /\ w \in Player /\ 1 \in Int
      BY <1>1
    <2>2. f \in [Player -> Int] /\ h \in [Player -> Int]
      BY <1>5, <1>6
    <2>3. h[w] = f[w] + 1 /\ \A q \in Player : q # w => h[q] = f[q]
      BY <1>6
    <2> HIDE DEF h
    <2>4. SumFunction(h) = SumFunction(f) + 1
      BY <2>1, <2>2, <2>3, SumChanges
    <2> QED
      BY <2>4 DEF h
  <1>9. SumFunction(played') = 2 * (SumFunction(won') + Cardinality(Open({})'))
    BY <1>2, <1>3, <1>7, <1>8 DEF AddUp
  <1>10. ASSUME NEW q \in Player PROVE played'[q] >= won'[q] + Cardinality(OpenOf(q, {})')
    <2>1. played[q] >= won[q] + Cardinality(OpenOf(q, {}))
      BY DEF AddUp
    <2>2. /\ played[q] \in Int /\ won[q] \in Int /\ won'[q] = won[q]
          /\ played'[q] = played[q] + (IF q \in {p, w} THEN 1 ELSE 0)
      BY <1>1
    <2> QED
      BY <1>2, <1>4, <2>1, <2>2
  <1> QED
    BY <1>9, <1>10 DEF AddUp

\* A step that changes neither whom a game is of nor whether it counts.
LEMMA SameGames ==
  ASSUME AddUp({}), UNCHANGED <<played, won>>,
         \A h \in Game : game[h] = None => game'[h] = None,
         \A h \in Game : game[h] # None =>
            /\ game'[h] # None
            /\ game'[h].black = game[h].black
            /\ game'[h].white = game[h].white
            /\ Proposed(h)' <=> Proposed(h)
            /\ "friendly" \in game'[h].flags <=> "friendly" \in game[h].flags
  PROVE  AddUp({})'
  <1>1. \A h \in Game : Counted(h)' <=> Counted(h)
    BY DEF Counted, Running
  <1>2. \A h \in Game : Counted(h) => /\ game'[h].black = game[h].black
                                      /\ game'[h].white = game[h].white
    BY DEF Counted, Running
  <1> QED
    BY <1>1, <1>2, SameScores

\* An offer or a friendly game goes.
LEMMA UncountedGoes ==
  ASSUME IInv, AddUp({}), NEW g \in Game, ~Counted(g), NEW freed, Destroy(g, freed),
         UNCHANGED <<played, won>>
  PROVE  AddUp({})'
  <1>1. game' = [game EXCEPT ![g] = None] /\ game \in [Game -> GameRec \cup {None}]
    BY DEF Destroy, IInv, TypeOK
  <1>2. game'[g] = None /\ \A h \in Game : h # g => game'[h] = game[h]
    BY <1>1
  <1>3. \A h \in Game : Counted(h)' <=> Counted(h)
    BY <1>2 DEF Counted, Running, Proposed
  <1>4. \A h \in Game : Counted(h) => /\ game'[h].black = game[h].black
                                      /\ game'[h].white = game[h].white
    BY <1>2
  <1> QED
    BY <1>3, <1>4, SameScores

\* A player leaves a game that runs: if it counts, the other has won one more.
LEMMA LoseScores ==
  ASSUME IInv, AddUp({}), NEW p \in Player, Playing(p), ~Proposed(ptr[p]), Lose(p, TRUE, game)
  PROVE  AddUp({})'
  <1> DEFINE g == ptr[p]
             w == Opponent(p, g)
  <1>1. /\ g \in Game /\ game[g] # None /\ w \in Player /\ ptr[w] = g
        /\ {p, w} = {game[g].black, game[g].white}
    BY PlayingFacts DEF Playing
  <1>2. g \notin gone /\ g # None
    BY <1>1, ConstAssumption DEF IInv
  <1>3. /\ won' = IF "friendly" \in game[g].flags THEN won ELSE [won EXCEPT ![w] = @ + 1]
        /\ Destroy(g, {p, w})
        /\ UNCHANGED played
    BY <1>1, <1>2 DEF Lose
  <1> HIDE DEF w
  <1>4. CASE "friendly" \in game[g].flags
    BY <1>1, <1>3, <1>4, UncountedGoes DEF Counted
  <1>5. CASE "friendly" \notin game[g].flags
    <2>1. Counted(g)
      BY <1>1, <1>5 DEF Counted, Running
    <2>2. game'[g] = None /\ \A h \in Game : h # g => game'[h] = game[h]
      BY <1>1, <1>3 DEF Destroy, IInv, TypeOK
    <2>3. won' = [won EXCEPT ![w] = @ + 1]
      BY <1>3, <1>5
    <2> HIDE DEF g
    <2> QED
      BY <1>1, <1>3, <2>1, <2>2, <2>3, GameOver
  <1> QED
    BY <1>4, <1>5

\* A game that runs is lost otherwise: it is over for the scores, and told.
LEMMA ToldScores ==
  ASSUME IInv, AddUp({}), NEW p \in Player, Playing(p), ~Proposed(ptr[p]),
         NEW x \in Player \cup {None},
         Lose(p, FALSE, [game EXCEPT ![ptr[p]].toMove = x])
  PROVE  ScoresAddUp'
  <1>1. PICK g \in Game : g = ptr[p]
    BY PlayingFacts
  <1> DEFINE w == Opponent(p, g)
  <1>2. /\ game[g] # None /\ game[g] \in GameRec /\ w \in Player /\ ptr[w] = g
        /\ {p, w} = {game[g].black, game[g].white}
        /\ ~Proposed(g)
    BY <1>1, PlayingFacts DEF Playing
  <1>3. g \notin gone /\ g # None
    BY <1>1, ConstAssumption DEF IInv
  <1>4. /\ won' = IF "friendly" \in game[g].flags THEN won ELSE [won EXCEPT ![w] = @ + 1]
        /\ game' = [game EXCEPT ![g].toMove = x]
        /\ talker' = "statistics"
        /\ UNCHANGED played
    BY <1>1, <1>2, <1>3 DEF Lose
  <1> HIDE DEF w
  <1>5. /\ \A h \in Game : h # g => game'[h] = game[h]
        /\ game'[g] = [game[g] EXCEPT !.toMove = x]
    BY <1>4 DEF IInv, TypeOK
  <1>6. Running(g)'
    <2>1. game'[g].flags = game[g].flags
      BY <1>2, <1>5 DEF GameRec
    <2>2. game'[g] # None
      <3>1. game'[g] \in GameRec
        BY <1>2, <1>5 DEF GameRec
      <3> QED
        BY <3>1, ConstAssumption
    <2> QED
      BY <2>1, <2>2, <1>2 DEF Running, Proposed
  <1>7. CASE "friendly" \in game[g].flags
    <2>1. \A h \in Game : Counted(h)' /\ h \notin {g} <=> Counted(h)
      BY <1>5, <1>7 DEF Counted, Running, Proposed
    <2>2. \A h \in Game : Counted(h) => /\ game'[h].black = game[h].black
                                        /\ game'[h].white = game[h].white
      BY <1>5, <1>7 DEF Counted
    <2>3. UNCHANGED <<played, won>>
      BY <1>4, <1>7
    <2>4. AddUp({g})'
      BY <2>1, <2>2, <2>3, SameScores
    <2> QED
      BY <1>4, <1>6, <2>4 DEF ScoresAddUp
  <1>8. CASE "friendly" \notin game[g].flags
    <2>1. Counted(g) /\ won' = [won EXCEPT ![w] = @ + 1]
      BY <1>2, <1>4, <1>8 DEF Counted, Running
    <2>2. PICK over : over = {g}
      OBVIOUS
    <2>3. AddUp(over)'
      <3>1. over \subseteq {g} /\ Counted(g)
        BY <2>1, <2>2
      <3>2. won' = [won EXCEPT ![w] = @ + 1] /\ UNCHANGED played
        BY <1>4, <2>1
      <3>3. w \in Player /\ {p, w} = {game[g].black, game[g].white}
        BY <1>2
      <3>4. \A h \in Game : h # g => game'[h] = game[h]
        BY <1>5
      <3> QED
        BY <2>2, <3>1, <3>2, <3>3, <3>4, GameOver
    <2>4. AddUp({g})'
      BY <2>2, <2>3
    <2> QED
      BY <1>4, <1>6, <2>4 DEF ScoresAddUp
  <1> QED
    BY <1>7, <1>8

LEMMA WithdrawScores ==
  ASSUME IInv, AddUp({}), talker = "up", NEW p \in Player, Withdraw(p)
  PROVE  AddUp({})'
  <1>1. ptr[p] \in Game /\ ~Counted(ptr[p])
    BY PlayingFacts DEF Withdraw, Counted, Running
  <1>2. Destroy(ptr[p], {p}) /\ UNCHANGED <<played, won>>
    BY <1>1 DEF Withdraw, IInv
  <1> QED
    BY <1>1, <1>2, UncountedGoes

LEMMA DeclineScores ==
  ASSUME IInv, AddUp({}), NEW p \in Player, NEW p2 \in Player, Decline(p, p2)
  PROVE  AddUp({})'
  <1>1. ptr[p2] \in Game /\ ~Counted(ptr[p2])
    BY DEF Decline, Counted, Running, IInv, TypeOK
  <1> QED
    BY <1>1, UncountedGoes DEF Decline

LEMMA QuitScores ==
  ASSUME Careful, IInv, AddUp({}), NEW p \in Player, Quit(p) PROVE ScoresAddUp'
  <1>1. Playing(p) /\ ~Proposed(ptr[p]) /\ Lose(p, FALSE, game)
    BY DEF Quit, MayLose, Careful
  <1> DEFINE x == game[ptr[p]].toMove
  <1>2. x \in Player \cup {None} /\ game = [game EXCEPT ![ptr[p]].toMove = x]
    BY <1>1, PlayingFacts, SameTurn DEF Playing
  <1> HIDE DEF x
  <1>3. Lose(p, FALSE, [game EXCEPT ![ptr[p]].toMove = x])
    BY <1>1, <1>2
  <1> QED
    BY <1>1, <1>2, <1>3, ToldScores

LEMMA DeclareWinScores ==
  ASSUME Careful, IInv, AddUp({}), NEW p \in Player, DeclareWin(p) PROVE ScoresAddUp'
  <1> DEFINE e == Opponent(p, ptr[p])
  <1>1. e \in Player /\ Playing(e) /\ ~Proposed(ptr[e]) /\ Lose(e, FALSE, game)
    BY PlayingFacts DEF DeclareWin, Careful
  <1> DEFINE x == game[ptr[e]].toMove
  <1> HIDE DEF e
  <1>2. x \in Player \cup {None} /\ game = [game EXCEPT ![ptr[e]].toMove = x]
    BY <1>1, PlayingFacts, SameTurn DEF Playing
  <1> HIDE DEF x
  <1>3. Lose(e, FALSE, [game EXCEPT ![ptr[e]].toMove = x])
    BY <1>1, <1>2
  <1> QED
    BY <1>1, <1>2, <1>3, ToldScores

LEMMA MoveAndWinScores ==
  ASSUME IInv, AddUp({}), NEW p \in Player, MoveAndWin(p) PROVE ScoresAddUp'
  <1> DEFINE e == Opponent(p, ptr[p])
  <1>1. ~Proposed(ptr[p])
    BY ConstAssumption, PlayingFacts DEF MoveAndWin, IInv, OfferIsNew, Playing
  <1>2. /\ e \in Player /\ Playing(e) /\ ~Proposed(ptr[e])
        /\ ptr[e] = ptr[p] /\ Lose(e, FALSE, Passed(p))
    BY <1>1, PlayingFacts DEF MoveAndWin
  <1>3. Passed(p) = [game EXCEPT ![ptr[e]].toMove = e]
    BY <1>2 DEF Passed
  <1> HIDE DEF e
  <1>4. Lose(e, FALSE, [game EXCEPT ![ptr[e]].toMove = e])
    BY <1>2, <1>3
  <1> QED
    BY <1>2, <1>4, ToldScores

LEMMA MoveScores ==
  ASSUME IInv, AddUp({}), NEW p \in Player, Move(p) PROVE AddUp({})'
  <1> DEFINE g == ptr[p]
             w == Opponent(p, g)
  <1>1. g \in Game /\ game[g] \in GameRec /\ game[g] # None /\ w \in Player
    BY PlayingFacts DEF Move, Playing
  <1>2. /\ game \in [Game -> GameRec \cup {None}]
        /\ game' = [game EXCEPT ![g].toMove = w]
        /\ UNCHANGED <<played, won>>
    BY DEF IInv, TypeOK, Move, Passed
  <1> HIDE DEF g, w
  <1>3. /\ \A h \in Game : h # g => game'[h] = game[h]
        /\ game'[g] = [game[g] EXCEPT !.toMove = w]
        /\ game'[g] \in GameRec
    BY <1>1, <1>2 DEF GameRec
  <1>4. /\ game'[g] # None
        /\ game'[g].black = game[g].black
        /\ game'[g].white = game[g].white
        /\ game'[g].flags = game[g].flags
    BY <1>1, <1>3, ConstAssumption DEF GameRec
  <1> QED
    BY <1>2, <1>1, <1>3, <1>4, SameGames DEF Proposed

LEMMA ChatScores ==
  ASSUME Careful, IInv, AddUp({}), NEW p \in Player, Chat(p) PROVE AddUp({})'
  <1>1. UNCHANGED <<game, played, won>>
    BY DEF Chat, Careful, IInv
  <1> QED
    BY <1>1, SameGames DEF Proposed

\* A change of flags that are about neither.
LEMMA FlagsScores ==
  ASSUME IInv, AddUp({}), UNCHANGED <<played, won>>,
         NEW g \in Game, game[g] # None, NEW flags \in SUBSET Flag,
         game' = [game EXCEPT ![g].flags = flags],
         flags \cap {"proposed", "friendly"} = game[g].flags \cap {"proposed", "friendly"}
  PROVE  AddUp({})'
  <1>1. /\ game'[g] # None
        /\ game'[g].black = game[g].black
        /\ game'[g].white = game[g].white
        /\ game'[g].flags = flags
        /\ \A h \in Game : h # g => game'[h] = game[h]
    BY FlagsChange
  <1>2. /\ "proposed" \in flags <=> "proposed" \in game[g].flags
        /\ "friendly" \in flags <=> "friendly" \in game[g].flags
    OBVIOUS
  <1> QED
    BY <1>1, <1>2, SameGames DEF Proposed

LEMMA CloseScores ==
  ASSUME IInv, AddUp({}), NEW p \in Player, Close(p) PROVE AddUp({})'
  <1>1. PICK g \in Game : g = ptr[p]
    BY PlayingFacts DEF Close
  <1> DEFINE w == Opponent(p, g)
             mine == Side(p, g, "closedBlack", "closedWhite")
             theirs == Side(p, g, "closedWhite", "closedBlack")
  <1>2. /\ game[g] \in GameRec
        /\ game[g] # None
        /\ {p, w} = {game[g].black, game[g].white}
        /\ w \in Player
        /\ Proposed(g) => p = game[g].black
        /\ game[g].black # game[g].white
        /\ "friendly" \notin game[g].flags
    BY <1>1, PlayingFacts DEF Close, Playing, GameAgrees
  <1>3. UNCHANGED won
    BY DEF Close
  <1>4. CASE theirs \in game[g].flags
    <2>1. ~Proposed(g)
      BY <1>2, <1>4 DEF IInv, OfferIsNew, Side
    <2>2. played' = [played EXCEPT ![p] = @ - 1, ![w] = @ - 1] /\ Destroy(g, {p, w})
      BY <1>1, <1>4 DEF Close
    <2> HIDE DEF w, mine, theirs
    <2>3. Counted(g)
      BY <1>2, <2>1 DEF Counted, Running
    <2>4. game'[g] = None /\ \A h \in Game : h # g => game'[h] = game[h]
      BY <2>2 DEF Destroy, IInv, TypeOK
    <2> QED
      BY <1>2, <1>3, <2>2, <2>3, <2>4, GameOver
  <1>5. CASE theirs \notin game[g].flags
    <2> DEFINE F == game[g].flags \cup {mine}
    <2>1. game' = [game EXCEPT ![g].flags = F] /\ UNCHANGED played
      BY <1>1, <1>5 DEF Close
    <2>2. game[g].flags \in SUBSET Flag /\ mine \in {"closedBlack", "closedWhite"}
      BY <1>2 DEF GameRec, Side
    <2> HIDE DEF w, mine, theirs
    <2>3. /\ F \in SUBSET Flag
          /\ F \cap {"proposed", "friendly"} = game[g].flags \cap {"proposed", "friendly"}
      BY <2>2 DEF Flag
    <2> HIDE DEF F
    <2> QED
      BY <1>2, <1>3, <2>1, <2>3, FlagsScores
  <1> QED
    BY <1>4, <1>5

LEMMA PrivateScores ==
  ASSUME IInv, AddUp({}), NEW p \in Player, PrivateOn(p) \/ PrivateOff(p)
  PROVE  AddUp({})'
  <1>1. PICK g \in Game : g = ptr[p]
    BY PlayingFacts DEF PrivateOn, PrivateOff
  <1>2. game[g] \in GameRec /\ game[g] # None
    BY <1>1, PlayingFacts DEF PrivateOn, PrivateOff, Playing
  <1>3. PICK F \in {game[g].flags \cup {Mine(p, g)}, game[g].flags \ {Mine(p, g)}} :
          game' = [game EXCEPT ![g].flags = F]
    BY <1>1 DEF PrivateOn, PrivateOff
  <1>4. game[g].flags \in SUBSET Flag /\ Mine(p, g) \in {"privateBlack", "privateWhite"}
    BY <1>2 DEF GameRec, Mine, Side
  <1>5. /\ F \in SUBSET Flag
        /\ F \cap {"proposed", "friendly"} = game[g].flags \cap {"proposed", "friendly"}
    BY <1>4 DEF Flag
  <1>6. UNCHANGED <<played, won>>
    BY DEF PrivateOn, PrivateOff
  <1> QED
    BY <1>2, <1>3, <1>5, <1>6, FlagsScores

\* Nobody plays or stops playing a game because somebody stops watching one.
LEMMA LeaveScores ==
  ASSUME IInv, AddUp({}), NEW p \in Player, ~Playing(p), game' = Left(p),
         UNCHANGED <<played, won>>
  PROVE  AddUp({})'
  <1>1. \A h \in Game : game[h] = None => game'[h] = None
    BY LeftFacts
  <1>2. ASSUME NEW h \in Game, game[h] # None
        PROVE  /\ game'[h] # None
               /\ game'[h].black = game[h].black
               /\ game'[h].white = game[h].white
               /\ game'[h].flags = game[h].flags
    <2>1. /\ game'[h] = [game[h] EXCEPT !.watchers = @ \ {p}]
          /\ game'[h] \in GameRec
          /\ game[h] \in GameRec
      BY <1>2, LeftFacts DEF IInv, TypeOK
    <2> QED
      BY <2>1, ConstAssumption DEF GameRec
  <1> QED
    BY <1>1, <1>2, SameGames DEF Proposed

LEMMA WatchScores ==
  ASSUME Careful, IInv, AddUp({}), NEW p \in Player, Watch(p) PROVE AddUp({})'
  <1>1. ~Playing(p) /\ UNCHANGED <<played, won>>
    BY DEF Watch
  <1>2. PICK b \in list :
          IF ptr[b] = None
          THEN UNCHANGED game
          ELSE game' = [Left(p) EXCEPT ![ptr[b]].watchers = @ \cup {p}]
    BY DEF Watch, Careful, Left
  <1>3. PICK to \in Game : to = ptr[b] /\ game[to] # None
    BY DEF IInv, ListIsPublic, EntryIsPublic, Running, TypeOK
  <1>4. game' = [Left(p) EXCEPT ![to].watchers = @ \cup {p}]
    BY <1>2, <1>3, ConstAssumption
  <1>5. \A h \in Game : game[h] = None => game'[h] = None
    BY <1>1, <1>3, <1>4, LeftFacts
  <1>6. ASSUME NEW h \in Game, game[h] # None
        PROVE  /\ game'[h] # None
               /\ game'[h].black = game[h].black
               /\ game'[h].white = game[h].white
               /\ game'[h].flags = game[h].flags
    <2>1. /\ Left(p)[h] = [game[h] EXCEPT !.watchers = @ \ {p}]
          /\ Left(p)[h] \in GameRec
          /\ game[h] \in GameRec
          /\ Left(p) \in [Game -> GameRec \cup {None}]
      BY <1>1, <1>6, LeftFacts DEF IInv, TypeOK
    <2>2. game'[h] = IF h = to THEN [Left(p)[h] EXCEPT !.watchers = @ \cup {p}] ELSE Left(p)[h]
      BY <1>4, <2>1
    <2>3. \A r \in GameRec : \A ws : /\ [r EXCEPT !.watchers = ws].black = r.black
                                     /\ [r EXCEPT !.watchers = ws].white = r.white
                                     /\ [r EXCEPT !.watchers = ws].flags = r.flags
      BY DEF GameRec
    <2>4. /\ game'[h].black = game[h].black
          /\ game'[h].white = game[h].white
          /\ game'[h].flags = game[h].flags
      BY <2>1, <2>2, <2>3
    <2>5. game'[h] # None
      <3>1. Left(p)[h].watchers \cup {p} \in SUBSET Player
        BY <2>1 DEF GameRec
      <3>2. \A r \in GameRec, ws \in SUBSET Player : [r EXCEPT !.watchers = ws] \in GameRec
        BY DEF GameRec
      <3>3. [Left(p)[h] EXCEPT !.watchers = Left(p)[h].watchers \cup {p}] \in GameRec
        BY <2>1, <3>1, <3>2, Zenon
      <3>4. game'[h] \in GameRec
        BY <2>1, <2>2, <3>3, Zenon
      <3> QED
        BY <3>4, ConstAssumption
    <2> QED
      BY <2>4, <2>5
  <1> QED
    BY <1>1, <1>5, <1>6, SameGames DEF Proposed

LEMMA LogoffScores ==
  ASSUME Careful, IInv, AddUp({}), NEW p \in Player, Logoff(p) PROVE AddUp({})'
  <1>1. CASE Playing(p)
    <2>1. ~Proposed(ptr[p]) /\ Lose(p, TRUE, game)
      BY <1>1 DEF Logoff, MayLose, Careful, Playing, Watching
    <2> QED
      BY <1>1, <2>1, LoseScores
  <1>2. CASE ~Playing(p)
    <2>1. game' = Left(p) /\ UNCHANGED <<played, won>>
      BY <1>2 DEF Logoff, Left, Playing, Watching
    <2> QED
      BY <1>2, <2>1, LeaveScores
  <1> QED
    BY <1>1, <1>2

LEMMA StopWatchingScores ==
  ASSUME IInv, AddUp({}), NEW p \in Player, StopWatching(p) PROVE AddUp({})'
  <1>1. ~Playing(p) /\ game' = Left(p) /\ UNCHANGED <<played, won>>
    BY DEF StopWatching, Watching, Playing, Left
  <1> QED
    BY <1>1, LeaveScores

LEMMA OfferScores ==
  ASSUME IInv, AddUp({}), NEW p \in Player, NEW p2 \in Player,
         NEW friendly \in BOOLEAN, Offer(p, p2, friendly)
  PROVE  AddUp({})'
  <1> DEFINE F == {"proposed"} \cup (IF friendly THEN {"friendly"} ELSE {})
                  \cup (IF p \in AutoPrivate THEN {"privateBlack"} ELSE {})
  <1>1. PICK g \in Game :
          /\ game[g] = None
          /\ game' = [game EXCEPT ![g] = [black |-> p, white |-> p2, toMove |-> None,
                                          watchers |-> {}, flags |-> F]]
    BY DEF Offer
  <1>2. "proposed" \in F /\ UNCHANGED <<played, won>>
    BY DEF Offer
  <1> HIDE DEF F
  <1>3. game'[g].flags = F /\ \A h \in Game : h # g => game'[h] = game[h]
    BY <1>1 DEF IInv, TypeOK
  <1>4. \A h \in Game : Counted(h)' <=> Counted(h)
    BY <1>1, <1>2, <1>3 DEF Counted, Running, Proposed
  <1>5. \A h \in Game : Counted(h) => /\ game'[h].black = game[h].black
                                      /\ game'[h].white = game[h].white
    BY <1>1, <1>3 DEF Counted, Running
  <1> QED
    BY <1>2, <1>4, <1>5, SameScores

LEMMA AcceptScores ==
  ASSUME IInv, AddUp({}), NEW p \in Player, NEW p2 \in Player, Accept(p, p2)
  PROVE  AddUp({})'
  <1>1. PICK g \in Game : g = ptr[p2]
    BY DEF Accept, IInv, TypeOK
  <1> DEFINE F == AcceptedFlags(p, g)
             counted == IF "friendly" \in F THEN {} ELSE {p, p2}
  <1>2. p # p2 /\ game[g].white = p /\ Proposed(g)
    BY <1>1 DEF Accept
  <1>3. game[g] # None /\ game[g] \in GameRec /\ game[g].black = p2
    <2>1. PointerAgrees(p2) /\ game[g] \in GameRec \cup {None} /\ OfferIsNew(g) /\ g # None
      BY ConstAssumption DEF IInv, TypeOK, PointersAgree
    <2> QED
      BY <2>1, <1>1, <1>2 DEF PointerAgrees, Running, OfferIsNew
  <1>4. p2 \notin list
    BY <1>1, <1>2 DEF IInv, ListIsPublic, EntryIsPublic, Running
  <1>5. /\ game' = [game EXCEPT ![g].flags = F, ![g].toMove = p2]
        /\ played' = [q \in Player |-> IF q \in counted THEN played[q] + 1 ELSE played[q]]
        /\ UNCHANGED won
    BY <1>1, <1>4 DEF Accept
  <1>6. "proposed" \notin F
    BY DEF AcceptedFlags
  <1> HIDE DEF F
  <1>7. /\ game'[g] = [game[g] EXCEPT !.flags = F, !.toMove = p2]
        /\ \A h \in Game : h # g => game'[h] = game[h]
    BY <1>3, <1>5 DEF IInv, TypeOK, GameRec
  <1>8. game'[g].flags = F /\ game'[g].black = p2 /\ game'[g].white = p
    BY <1>2, <1>3, <1>7 DEF GameRec
  <1>9. ~Counted(g)
    BY <1>2 DEF Counted, Running
  <1>10. CASE "friendly" \in F
    <2>1. \A h \in Game : Counted(h)' <=> Counted(h)
      BY <1>7, <1>8, <1>9, <1>10 DEF Counted, Running, Proposed
    <2>2. \A h \in Game : Counted(h) => /\ game'[h].black = game[h].black
                                        /\ game'[h].white = game[h].white
      BY <1>7, <1>9
    <2>3. played' = played
      BY <1>5, <1>10 DEF IInv, TypeOK
    <2> QED
      BY <1>5, <2>1, <2>2, <2>3, SameScores
  <1>11. CASE "friendly" \notin F
    <2>1. game'[g] # None
      <3>1. F \in SUBSET Flag /\ p2 \in Player
        BY <1>3 DEF AcceptedFlags, GameRec, Flag, F
      <3>2. game'[g] \in GameRec
        BY <1>3, <1>7, <3>1 DEF GameRec
      <3> QED
        BY <3>2, ConstAssumption
    <2>2. Counted(g)'
      BY <1>6, <1>8, <1>11, <2>1 DEF Counted, Running, Proposed
    <2>3. played' = [q \in Player |-> IF q \in {p, p2} THEN played[q] + 1 ELSE played[q]]
      BY <1>5, <1>11
    <2>4. {p, p2} = {game'[g].black, game'[g].white} /\ \A h \in Game : h # g => game'[h] = game[h]
      BY <1>7, <1>8
    <2>5. UNCHANGED won
      BY <1>5
    <2> QED
      BY <1>2, <1>9, <2>2, <2>3, <2>4, <2>5, GameBegins
  <1> QED
    BY <1>10, <1>11

\* The talker's end takes nothing back when nobody plays a friendly game.
LEMMA PanicScores ==
  ASSUME "friendlyPanic" \notin Exercised, IInv, AddUp({}), Panic PROVE AddUp({})'
  <1>1. UNCHANGED <<game, played, won>>
    BY DEF Panic, IInv, TypeOK
  <1> QED
    BY <1>1, SameGames DEF Proposed

LEMMA InitScores == Init => AddUp({})
  <1> SUFFICES ASSUME Init PROVE AddUp({})
    OBVIOUS
  <1>1. Open({}) = {} /\ \A p \in Player : OpenOf(p, {}) = {}
    BY DEF Init, Open, OpenOf, Counted, Running
  <1>2. IsFiniteSet(Player) /\ played \in [Player -> Int] /\ won = played
    BY ConstAssumption DEF Init
  <1>3. PICK t : SumFunction(played) = t[Player] /\ Adds(t, played, Player)
    BY <1>2, SumFacts
  <1> DEFINE G == {s \in SUBSET Player : t[s] = 0}
  <1>4. {} \in G
    BY <1>3 DEF Adds
  <1>5. ASSUME NEW s \in SUBSET Player, s # {}, s \ {Pick(s)} \in G
        PROVE  s \in G
    <2>1. played[Pick(s)] = 0
      BY <1>2, <1>5, PickFacts DEF Init
    <2>2. t[s] = played[Pick(s)] + t[s \ {Pick(s)}]
      BY <1>3, <1>5 DEF Adds
    <2> QED
      BY <1>5, <2>1, <2>2
  <1>6. Player \in G
    <2> HIDE DEF G
    <2> QED
      BY <1>2, <1>4, <1>5, SubsetInduction
  <1>7. SumFunction(played) = 0 /\ SumFunction(won) = 0
    BY <1>2, <1>3, <1>6
  <1>8. \A p \in Player : played[p] >= won[p] + Cardinality(OpenOf(p, {}))
    BY <1>1, FS_EmptySet DEF Init
  <1>9. SumFunction(played) = 2 * (SumFunction(won) + Cardinality(Open({})))
    BY <1>1, <1>7, FS_EmptySet
  <1> QED
    BY <1>8, <1>9 DEF AddUp

\* Only a game that is lost has its statistics told.
LEMMA OthersDoNotTell ==
  ASSUME talker = "up", NEW p \in Player, NEW p2 \in Player,
         \/ Logon(p) \/ Withdraw(p) \/ Move(p) \/ Close(p)
         \/ PrivateOn(p) \/ PrivateOff(p) \/ StopWatching(p) \/ Watch(p) \/ Chat(p)
         \/ \E friendly \in BOOLEAN : Offer(p, p2, friendly)
         \/ Accept(p, p2) \/ Decline(p, p2)
         \/ Panic
  PROVE  talker' # "statistics"
  BY DEF Logon, Withdraw, Move, Close, PrivateOn, PrivateOff, StopWatching, Watch, Chat,
         Offer, Accept, Decline, Panic, Crash

LEMMA LogoffDoesNotTell ==
  ASSUME Careful, IInv, talker = "up", NEW p \in Player, Logoff(p)
  PROVE  talker' # "statistics"
  BY DEF Logoff, Lose, Crash

LEMMA NextScores ==
  ASSUME Exercised = {}, IInv, ScoresAddUp, [Next]_vars PROVE ScoresAddUp'
  <1>0. Careful
    BY DEF Careful
  <1>1. CASE UNCHANGED vars
    BY <1>1 DEF vars, ScoresAddUp, AddUp, Open, OpenOf, Counted, Running, Proposed
  <1>2. CASE Next
    <2>1. talker = "up" /\ AddUp({})
      BY <1>2 DEF Next, ScoresAddUp
    <2>0. ASSUME AddUp({})', talker' # "statistics" PROVE ScoresAddUp'
      BY <2>0 DEF ScoresAddUp
    <2>2. ASSUME NEW p \in Player, Logon(p) PROVE ScoresAddUp'
      <3>1. UNCHANGED <<game, played, won>>
        BY <2>2 DEF Logon
      <3>2. AddUp({})'
        BY <2>1, <3>1, SameGames DEF Proposed
      <3> QED
        BY <2>0, <2>1, <2>2, <3>2, OthersDoNotTell
    <2>3. ASSUME NEW p \in Player, Logoff(p) \/ Command(p) PROVE ScoresAddUp'
      <3>1. CASE Logoff(p)
        BY <1>0, <2>0, <2>1, <3>1, LogoffScores, LogoffDoesNotTell
      <3>2. CASE Quit(p) \/ DeclareWin(p) \/ MoveAndWin(p)
        BY <1>0, <2>1, <3>2, QuitScores, DeclareWinScores, MoveAndWinScores
      <3>3. CASE Withdraw(p) \/ Move(p) \/ Close(p) \/ PrivateOn(p) \/ PrivateOff(p)
                 \/ StopWatching(p) \/ Watch(p) \/ Chat(p)
        <4>1. AddUp({})'
          BY <1>0, <2>1, <3>3, WithdrawScores, MoveScores, CloseScores, PrivateScores,
             StopWatchingScores, WatchScores, ChatScores
        <4>2. talker' # "statistics"
          BY <2>1, <3>3, OthersDoNotTell
        <4> QED
          BY <2>0, <4>1, <4>2
      <3> QED
        BY <2>3, <3>1, <3>2, <3>3 DEF Command
    <2>4. ASSUME NEW p \in Player, NEW p2 \in Player,
                 \/ \E friendly \in BOOLEAN : Offer(p, p2, friendly)
                 \/ Accept(p, p2)
                 \/ Decline(p, p2)
                 \/ Ignore(p, p2)
          PROVE  ScoresAddUp'
      <3>1. CASE (\E friendly \in BOOLEAN : Offer(p, p2, friendly)) \/ Accept(p, p2)
                 \/ Decline(p, p2) \/ Withdraw(p)
        <4>1. AddUp({})'
          BY <1>0, <2>1, <3>1, OfferScores, AcceptScores, DeclineScores, WithdrawScores
        <4>2. talker' # "statistics"
          BY <2>1, <3>1, OthersDoNotTell
        <4> QED
          BY <2>0, <4>1, <4>2
      <3>2. CASE Quit(p)
        BY <1>0, <2>1, <3>2, QuitScores
      <3> QED
        BY <2>4, <3>1, <3>2 DEF Ignore
    <2>5. ASSUME Panic PROVE ScoresAddUp'
      <3>1. AddUp({})' /\ talker' # "statistics"
        BY <2>1, <2>5, PanicScores DEF Panic
      <3> QED
        BY <2>0, <3>1
    <2> QED
      BY <1>2, <2>2, <2>3, <2>4, <2>5 DEF Next
  <1> QED
    BY <1>1, <1>2

\* A game that counts is played by two and won by one of them unless both take
\* it back: the scores of all add up, and nobody has won more than he played.
THEOREM ScoresCorrect == Exercised = {} => (Spec => []ScoresAddUp)
  <1> SUFFICES ASSUME Exercised = {} PROVE Spec => []ScoresAddUp
    OBVIOUS
  <1>1. Careful
    BY DEF Careful
  <1>2. Spec => []IInv
    BY <1>1, Invariance
  <1>3. Init => ScoresAddUp
    BY InitScores DEF Init, ScoresAddUp
  <1>4. IInv /\ ScoresAddUp /\ [Next]_vars => ScoresAddUp'
    BY NextScores
  <1> QED
    BY <1>2, <1>3, <1>4, PTL DEF Spec
=============================================================================
