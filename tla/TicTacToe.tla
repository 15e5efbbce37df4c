------------------------------ MODULE TicTacToe -----------------------------
(***************************************************************************)
(* The game of two users who chat (bot/chat_features.go): rows of          *)
(* tictactoe_games that both users' handlers, in whatever instances, and   *)
(* the scheduler change.  A move is a transaction that locks the row of    *)
(* the game; everything else is single statements.  A user has one handler *)
(* at a time while his lock lives (Inbound: LockProtects); a handler that  *)
(* waits longer for Telegram loses it.  The board is any set of cells with *)
(* any lines.                                                              *)
(***************************************************************************)
EXTENDS Naturals, FiniteSets

CONSTANTS
  Player,   \* the two users of the chat
  Worker,   \* goroutines that handle updates, of all instances
  Game,     \* ids of tictactoe_games, numbers that grow
  Cell,
  Line,     \* the sets of cells that win
  NoPlayer

ASSUME GameAssumption ==
  /\ \E p, q \in Player : p # q /\ Player = {p, q}
  /\ NoPlayer \notin Player /\ Game \subseteq Nat \ {0}
  /\ IsFiniteSet(Cell) /\ Cell # {}
  /\ Line \subseteq SUBSET Cell /\ {} \notin Line

VARIABLES
  talking,  \* the chat has status chatting
  game,     \* the rows; status "none" before the INSERT, "deleted" after all
  hand,     \* what each worker is at: the next statement, whose handler, which game
  unlocked  \* history: players whose lock ran out under a handler of theirs

gameVars == <<talking, game, hand, unlocked>>

Other(p) == CHOOSE q \in Player : q # p

Blank == [x |-> NoPlayer, o |-> NoPlayer, turn |-> NoPlayer, status |-> "none",
          board |-> [c \in Cell |-> "."]]
NoGame == 0
AtRest == [pc |-> "idle", player |-> NoPlayer, game |-> NoGame]

GameInit ==
  /\ talking = TRUE
  /\ game = [g \in Game |-> Blank]
  /\ hand = [w \in Worker |-> AtRest]
  /\ unlocked = {}

Cells(b, m) == {c \in Cell : b[c] = m}
Wins(b, m) == \E l \in Line : l \subseteq Cells(b, m)

\* What a game is after a move.
Verdict(b) ==
  IF Wins(b, "X") \/ Wins(b, "O") THEN "finished"
  ELSE IF Cells(b, ".") = {} THEN "draw" ELSE "active"

Mark(g, p) == IF game[g].o = p THEN "O" ELSE "X"

Begin(w, p, pc, g) == hand' = [hand EXCEPT ![w] = [pc |-> pc, player |-> p, game |-> g]]
Proceed(w, pc, g) == hand' = [hand EXCEPT ![w].pc = pc, ![w].game = g]
Rest(w) == hand' = [hand EXCEPT ![w] = AtRest]

\* The wrong worker, that goes on when the lock cannot be had.
LockIgnored(p) == TRUE

\* The lock of p can be had: no handler of his runs, or it outlived its lock.
Unlocked(p) == p \in unlocked \/ \A w \in Worker : hand[w].player # p

\* An UPDATE of a row that may be gone.
SetStatus(g, s) ==
  game' = IF game[g].status = "deleted" THEN game ELSE [game EXCEPT ![g].status = s]

-----------------------------------------------------------------------------
\* handleChat finds the active chat and turns to the game; the chat may end
\* before the next statement.
TapStart(w, p) ==
  /\ hand[w].pc = "idle" /\ Unlocked(p) /\ talking
  /\ Begin(w, p, "insert", NoGame)
  /\ UNCHANGED <<talking, game, unlocked>>

\* A tap on any other game is answered and changes nothing, whatever happens to
\* the game in between.
TapGame(w, p, g, op) ==
  /\ hand[w].pc = "idle" /\ Unlocked(p) /\ talking
  /\ game[g].status \in IF op = "play" THEN {"active"} ELSE {"finished", "draw"}
  /\ Begin(w, p, op, g)
  /\ UNCHANGED <<talking, game, unlocked>>

\* startTicTacToe: the INSERT.
InsertGame(w, g) ==
  LET p == hand[w].player IN
  /\ hand[w].pc = "insert"
  /\ game[g].status = "none" /\ \A h \in Game : h < g => game[h].status # "none"
  /\ game' = [game EXCEPT ![g] = [Blank EXCEPT !.x = p, !.o = Other(p), !.turn = p, !.status = "active"]]
  /\ Proceed(w, "boards", g)
  /\ UNCHANGED <<talking, unlocked>>

\* startTicTacToe: both boards are sent; one that fails spoils the game.  (A
\* synthetic partner is sent nothing and never moves.)
SendBoards(w) ==
  /\ hand[w].pc = "boards"
  /\ \/ Rest(w)
     \/ Proceed(w, "spoil", hand[w].game)
  /\ UNCHANGED <<talking, game, unlocked>>

Spoil(w) ==
  /\ hand[w].pc = "spoil"
  /\ SetStatus(hand[w].game, "send_failed")
  /\ Rest(w)
  /\ UNCHANGED <<talking, unlocked>>

\* The wrong move: the board was read before the row was locked, so that only
\* the cell is looked at.
PlayOutOfTurn(w, c) ==
  LET p == hand[w].player
      g == hand[w].game
      b == [game[g].board EXCEPT ![c] = Mark(g, p)]
  IN
  /\ hand[w].pc = "play"
  /\ game' = IF game[g].status = "active" /\ game[g].board[c] = "."
             THEN [game EXCEPT ![g].board = b, ![g].turn = Other(p), ![g].status = Verdict(b)]
             ELSE game
  /\ Rest(w)
  /\ UNCHANGED <<talking, unlocked>>

\* The wrong move: a game that is over is not looked for.
PlayOn(w, c) ==
  LET p == hand[w].player
      g == hand[w].game
      b == [game[g].board EXCEPT ![c] = Mark(g, p)]
  IN
  /\ hand[w].pc = "play"
  /\ game' = IF game[g].status # "deleted" /\ game[g].turn = p /\ game[g].board[c] = "."
             THEN [game EXCEPT ![g].board = b, ![g].turn = Other(p), ![g].status = Verdict(b)]
             ELSE game
  /\ Rest(w)
  /\ UNCHANGED <<talking, unlocked>>

\* playTicTacToe, the transaction on the locked row: a move that is not legal is
\* answered and changes nothing.
Play(w, c) ==
  LET p == hand[w].player
      g == hand[w].game
      b == [game[g].board EXCEPT ![c] = Mark(g, p)]
  IN
  /\ hand[w].pc = "play"
  /\ game' = IF game[g].status = "active" /\ game[g].turn = p /\ game[g].board[c] = "."
             THEN [game EXCEPT ![g].board = b, ![g].turn = Other(p), ![g].status = Verdict(b)]
             ELSE game
  /\ Rest(w)
  /\ UNCHANGED <<talking, unlocked>>

\* playTicTacToe, restart: the status is read, ...
Restart(w) ==
  LET g == hand[w].game IN
  /\ hand[w].pc = "restart"
  /\ IF game[g].status \in {"finished", "draw"} THEN Proceed(w, "retire", g) ELSE Rest(w)
  /\ UNCHANGED <<talking, game, unlocked>>

\* ... the old game is ended, and a new one is started.
Retire(w) ==
  /\ hand[w].pc = "retire"
  /\ SetStatus(hand[w].game, "ended")
  /\ Proceed(w, "insert", NoGame)
  /\ UNCHANGED <<talking, unlocked>>

\* The handler's process dies.
DropHandler(w) ==
  /\ hand[w].pc # "idle"
  /\ Rest(w)
  /\ UNCHANGED <<talking, game, unlocked>>

\* PER_USER_LOCK_TTL runs out under a handler, which keeps running: from then on
\* another update of the player may be handled beside it.
LockRunsOut(p) ==
  /\ p \notin unlocked
  /\ \E w \in Worker : hand[w].player = p
  /\ unlocked' = unlocked \cup {p}
  /\ UNCHANGED <<talking, game, hand>>

-----------------------------------------------------------------------------
\* The chat ends, by either user or a job.
Part ==
  /\ talking
  /\ talking' = FALSE
  /\ UNCHANGED <<game, hand, unlocked>>

\* The wrong job, that ends only games in which a move was made.
EndMovedOrphans ==
  LET S == {g \in Game : game[g].status = "active" /\ Cells(game[g].board, "X") # {}} IN
  /\ ~talking
  /\ S # {}
  /\ game' = [g \in Game |-> IF g \in S THEN [game[g] EXCEPT !.status = "ended"] ELSE game[g]]
  /\ UNCHANGED <<talking, hand, unlocked>>

\* RunOnce ends the games of chats that are over ...
EndOrphans ==
  /\ ~talking
  /\ \E g \in Game : game[g].status = "active"
  /\ game' = [g \in Game |-> IF game[g].status = "active" THEN [game[g] EXCEPT !.status = "ended"]
                                                          ELSE game[g]]
  /\ UNCHANGED <<talking, hand, unlocked>>

\* ... and deletes games that were over for a day, also under a slow handler.
DeleteGame(g) ==
  /\ game[g].status \notin {"none", "active", "deleted"}
  /\ game' = [game EXCEPT ![g] = [Blank EXCEPT !.status = "deleted"]]
  /\ UNCHANGED <<talking, hand, unlocked>>

GameStep(w) ==
  \/ \E g \in Game : InsertGame(w, g)
  \/ SendBoards(w) \/ Spoil(w)
  \/ \E c \in Cell : Play(w, c)
  \/ Restart(w) \/ Retire(w)

GameNext ==
  \/ \E w \in Worker :
       \/ GameStep(w)
       \/ \E p \in Player : TapStart(w, p)
       \/ \E p \in Player, g \in Game, op \in {"play", "restart"} : TapGame(w, p, g, op)
       \/ DropHandler(w)
  \/ \E p \in Player : LockRunsOut(p)
  \/ Part
  \/ EndOrphans
  \/ \E g \in Game : DeleteGame(g)

GameSpec == GameInit /\ [][GameNext]_gameVars

\* Handlers go on and the scheduler comes round.
GameFairness == (\A w \in Worker : WF_gameVars(GameStep(w))) /\ WF_gameVars(EndOrphans)

-----------------------------------------------------------------------------
\* The types of the state.
GameTypeOK ==
  /\ talking \in BOOLEAN
  /\ game \in [Game -> [x : Player \cup {NoPlayer}, o : Player \cup {NoPlayer},
                        turn : Player \cup {NoPlayer},
                        status : {"none", "active", "finished", "draw", "ended", "send_failed", "deleted"},
                        board : [Cell -> {"X", "O", "."}]]]
  /\ hand \in [Worker -> [pc : {"idle", "insert", "boards", "spoil", "play", "restart", "retire"},
                          player : Player \cup {NoPlayer}, game : Game \cup {NoGame}]]
  /\ unlocked \subseteq Player

\* The marks alternate, X first, and it is the turn of whoever is behind.
Alternate(g) ==
  LET X == Cells(game[g].board, "X")
      O == Cells(game[g].board, "O")
  IN  /\ game[g].turn = game[g].x => Cardinality(X) = Cardinality(O)
      /\ game[g].turn = game[g].o => Cardinality(X) = Cardinality(O) + 1

\* Whatever both players tap at the same time, the marks of a game alternate, no
\* game has two winners, and a game that goes on has no winner and a free cell.
GamesFair ==
  \A g \in Game : game[g].status \notin {"none", "deleted"} =>
    /\ Alternate(g)
    /\ ~(Wins(game[g].board, "X") /\ Wins(game[g].board, "O"))
    /\ game[g].status = "active" => Verdict(game[g].board) = "active"
    /\ game[g].status \in {"finished", "draw"} => game[g].status = Verdict(game[g].board)

\* A game that failed to start has no marks: the UPDATE of send_failed, which
\* looks at no status, comes long after the INSERT, but the other player is not
\* to move and X cannot while his handler has his lock.  Once that lock ran out
\* under him X can move in a second handler, and a game in play is spoiled.
FailedUnplayed ==
  \A g \in Game : game[g].status = "send_failed" /\ game[g].x \notin unlocked
                    => Cells(game[g].board, ".") = Cell

\* A game that is over stays over, with the board it has, although moves,
\* restarts, failures and the scheduler race for its row.
OverStaysOver ==
  [][\A g \in Game : game[g].status \notin {"none", "active"} =>
       \/ game'[g].status = "deleted"
       \/ game'[g].status # "active" /\ game'[g].board = game[g].board]_gameVars

\* When a chat is over so are its games in the end, one started too late included.
OrphansEnd ==
  <>(~talking) => <>[](\A g \in Game : game[g].status # "active")
=============================================================================
