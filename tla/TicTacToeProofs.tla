-------------------------- MODULE TicTacToeProofs ---------------------------
(***************************************************************************)
(* Proofs about TicTacToe, for any board, any lines and any number of      *)
(* games.  The argument is about one row of tictactoe_games: what makes it *)
(* a fair game is kept by a move, by the end of a game and by its failure. *)
(***************************************************************************)
EXTENDS TicTacToe, FiniteSetTheorems, TLAPS

Status == {"none", "active", "finished", "draw", "ended", "send_failed", "deleted"}
Row == [x : Player \cup {NoPlayer}, o : Player \cup {NoPlayer}, turn : Player \cup {NoPlayer},
        status : Status, board : [Cell -> {"X", "O", "."}]]
Hand == [pc : {"idle", "insert", "boards", "spoil", "play", "restart", "retire"},
         player : Player \cup {NoPlayer}, game : Game \cup {NoGame}]

\* A row that is a game.
Played(r) == r.status \notin {"none", "deleted"}

\* What GamesFair says of a row, and who plays it.
FairRow(r) ==
  Played(r) =>
    /\ r.x \in Player /\ r.o = Other(r.x) /\ r.turn \in {r.x, r.o}
    /\ r.turn = r.x => Cardinality(Cells(r.board, "X")) = Cardinality(Cells(r.board, "O"))
    /\ r.turn = r.o => Cardinality(Cells(r.board, "X")) = Cardinality(Cells(r.board, "O")) + 1
    /\ ~(Wins(r.board, "X") /\ Wins(r.board, "O"))
    /\ r.status = "active" => Verdict(r.board) = "active"
    /\ r.status \in {"finished", "draw"} => r.status = Verdict(r.board)

\* A worker that is busy works for a player, and two of them for the same one
\* only past the loss of his lock.
HandsHeld ==
  /\ \A w \in Worker : hand[w].player = NoPlayer <=> hand[w].pc = "idle"
  /\ \A v, w \in Worker : v # w /\ hand[v].player = hand[w].player /\ hand[v].player # NoPlayer
                           => hand[v].player \in unlocked

\* The row of a handler was inserted.
HandsKnown ==
  \A w \in Worker : hand[w].pc \notin {"idle", "insert"} =>
    hand[w].game \in Game /\ game[hand[w].game].status # "none"

\* While the boards are sent nobody has moved: it is the turn of X, whose lock
\* the handler has.
Unplayed ==
  \A w \in Worker : hand[w].pc \in {"boards", "spoil"} /\ Played(game[hand[w].game]) =>
    LET r == game[hand[w].game] IN
    /\ r.x = hand[w].player
    /\ r.x \notin unlocked => r.turn = r.x /\ Cells(r.board, ".") = Cell

IndInv ==
  /\ game \in [Game -> Row] /\ hand \in [Worker -> Hand] /\ talking \in BOOLEAN /\ unlocked \subseteq Player
  /\ HandsHeld /\ HandsKnown /\ Unplayed /\ FailedUnplayed
  /\ \A g \in Game : FairRow(game[g])

-----------------------------------------------------------------------------
(* One row.                                                                *)

LEMMA OtherIs ==
    ASSUME NEW p \in Player
    PROVE  /\ Other(p) \in Player /\ Other(p) # p /\ Other(Other(p)) = p
           /\ \A q \in Player : q # p => q = Other(p)
<1>1. PICK a, b \in Player : a # b /\ Player = {a, b}
  BY GameAssumption
<1>2. \A r \in Player : \E q \in Player : q # r
  BY <1>1
<1>3. \A r \in Player : Other(r) \in Player /\ Other(r) # r
  BY <1>2 DEF Other
<1> QED
  BY <1>1, <1>3

LEMMA VerdictIs ==
    ASSUME NEW b
    PROVE  /\ Verdict(b) \in {"active", "finished", "draw"}
           /\ Verdict(b) = "active" <=> ~Wins(b, "X") /\ ~Wins(b, "O") /\ Cells(b, ".") # {}
  BY DEF Verdict

\* An empty board.
LEMMA BlankIs ==
  /\ Blank \in Row /\ Blank.board \in [Cell -> {"X", "O", "."}]
  /\ Cells(Blank.board, "X") = {} /\ Cells(Blank.board, "O") = {} /\ Cells(Blank.board, ".") = Cell
<1>1. Blank \in Row
  BY DEF Blank, Row, Status
<1>2. \A c \in Cell : Blank.board[c] = "."
  BY DEF Blank
<1> QED
  BY <1>1, <1>2 DEF Cells, Row

LEMMA NewRow ==
    ASSUME NEW p \in Player
    PROVE  LET r == [Blank EXCEPT !.x = p, !.o = Other(p), !.turn = p, !.status = "active"]
           IN  /\ r \in Row /\ Played(r) /\ FairRow(r) /\ r.status = "active"
               /\ r.x = p /\ r.turn = p /\ Cells(r.board, ".") = Cell
<1> DEFINE r == [Blank EXCEPT !.x = p, !.o = Other(p), !.turn = p, !.status = "active"]
<1>1. /\ r \in Row /\ r.board = Blank.board /\ r.status = "active"
      /\ r.x = p /\ r.o = Other(p) /\ r.turn = p
  BY OtherIs, BlankIs DEF Blank, Row, Status
<1>2. Cells(r.board, "X") = {} /\ Cells(r.board, "O") = {} /\ Cells(r.board, ".") = Cell
  BY <1>1, BlankIs
<1>3. ~Wins(r.board, "X") /\ ~Wins(r.board, "O")
  BY <1>2, GameAssumption DEF Wins
<1>4. Verdict(r.board) = "active"
  BY <1>2, <1>3, VerdictIs, GameAssumption
<1> HIDE DEF r
<1>5. FairRow(r)
  BY <1>1, <1>2, <1>3, <1>4, OtherIs, FS_EmptySet DEF FairRow
<1> QED
  BY <1>1, <1>2, <1>5 DEF Played, r

\* A status that ends a game.
LEMMA EndedRow ==
    ASSUME NEW r \in Row, Played(r), FairRow(r), NEW s \in {"ended", "send_failed"}
    PROVE  LET e == [r EXCEPT !.status = s]
           IN  /\ e \in Row /\ Played(e) /\ FairRow(e) /\ e.status = s
               /\ e.x = r.x /\ e.board = r.board /\ e.turn = r.turn
<1> DEFINE e == [r EXCEPT !.status = s]
<1>1. e \in Row /\ e.status = s /\ e.board = r.board /\ e.turn = r.turn /\ e.x = r.x /\ e.o = r.o
  BY DEF Row, Status
<1> HIDE DEF e
<1>2. Played(e) /\ FairRow(e)
  BY <1>1 DEF FairRow, Played
<1> QED
  BY <1>1, <1>2 DEF e

\* A move.
LEMMA MovedRow ==
    ASSUME NEW r \in Row, FairRow(r), r.status = "active", NEW c \in Cell, r.board[c] = ".",
           NEW p \in Player, r.turn = p
    PROVE  LET b == [r.board EXCEPT ![c] = IF r.o = p THEN "O" ELSE "X"]
               m == [r EXCEPT !.board = b, !.turn = Other(p), !.status = Verdict(b)]
           IN  m \in Row /\ Played(m) /\ FairRow(m) /\ m.status # "send_failed"
<1> DEFINE k == IF r.o = p THEN "O" ELSE "X"
           b == [r.board EXCEPT ![c] = k]
           m == [r EXCEPT !.board = b, !.turn = Other(p), !.status = Verdict(b)]
<1>0. /\ r.x \in Player /\ r.o = Other(r.x) /\ r.turn \in {r.x, r.o} /\ r.x # r.o
      /\ Other(r.o) = r.x
  BY OtherIs DEF FairRow, Played
<1>1. b \in [Cell -> {"X", "O", "."}]
  BY DEF Row
<1>2. /\ m \in Row /\ m.board = b /\ m.turn = Other(p) /\ m.status = Verdict(b)
      /\ m.x = r.x /\ m.o = r.o
  <2>1. Other(p) \in Player /\ Verdict(b) \in Status
    BY OtherIs, VerdictIs DEF Status
  <2> QED
    BY <1>1, <2>1 DEF Row
<1>3. IsFiniteSet(Cells(r.board, "X")) /\ IsFiniteSet(Cells(r.board, "O"))
  <2>1. Cells(r.board, "X") \subseteq Cell /\ Cells(r.board, "O") \subseteq Cell
    BY DEF Cells
  <2> QED
    BY <2>1, FS_Subset, GameAssumption
<1>4. c \notin Cells(r.board, "X") /\ c \notin Cells(r.board, "O")
  BY DEF Cells
<1>5. ~Wins(r.board, "X") /\ ~Wins(r.board, "O")
  BY VerdictIs DEF FairRow, Played
<1> HIDE DEF m
<1>6. CASE p = r.x
  <2>1. Cells(b, "X") = Cells(r.board, "X") \cup {c} /\ Cells(b, "O") = Cells(r.board, "O")
    BY <1>0, <1>6 DEF Cells, Row
  <2>2. Cardinality(Cells(b, "X")) = Cardinality(Cells(b, "O")) + 1
    BY <1>0, <1>3, <1>4, <1>6, <2>1, FS_AddElement DEF FairRow, Played
  <2>3. ~Wins(b, "O")
    BY <1>5, <2>1 DEF Wins
  <2> HIDE DEF b
  <2> QED
    BY <1>0, <1>2, <1>6, <2>2, <2>3, VerdictIs DEF FairRow, Played, m, b
<1>7. CASE p = r.o
  <2>1. Cells(b, "O") = Cells(r.board, "O") \cup {c} /\ Cells(b, "X") = Cells(r.board, "X")
    BY <1>7 DEF Cells, Row
  <2>2. Cardinality(Cells(b, "X")) = Cardinality(Cells(b, "O"))
    BY <1>0, <1>3, <1>4, <1>7, <2>1, FS_AddElement DEF FairRow, Played
  <2>3. ~Wins(b, "X")
    BY <1>5, <2>1 DEF Wins
  <2> HIDE DEF b
  <2> QED
    BY <1>0, <1>2, <1>7, <2>2, <2>3, VerdictIs DEF FairRow, Played, m, b
<1> QED
  BY <1>0, <1>6, <1>7

-----------------------------------------------------------------------------
(* The steps.                                                              *)

LEMMA RestIs == AtRest \in Hand /\ AtRest.pc = "idle" /\ AtRest.player = NoPlayer
  BY DEF AtRest, Hand, NoGame

LEMMA IndInit == GameInit => IndInv
<1> SUFFICES ASSUME GameInit PROVE IndInv
  OBVIOUS
<1>1. FairRow(Blank) /\ Blank.status = "none"
  BY DEF FairRow, Played, Blank
<1>2. HandsHeld /\ HandsKnown /\ Unplayed
  BY RestIs DEF GameInit, HandsHeld, HandsKnown, Unplayed
<1>3. FailedUnplayed
  BY <1>1 DEF GameInit, FailedUnplayed
<1> QED
  BY <1>1, <1>2, <1>3, RestIs, BlankIs DEF GameInit, IndInv

\* Only hands change: the rows stay, and each hand keeps to what is known of it.
LEMMA HandStep ==
    ASSUME IndInv, UNCHANGED <<talking, game, unlocked>>, hand' \in [Worker -> Hand], NEW w \in Worker,
           \A v \in Worker : v # w => hand'[v] = hand[v],
           hand'[w].player = NoPlayer <=> hand'[w].pc = "idle",
           hand'[w].player \in {NoPlayer, hand[w].player} \/ Unlocked(hand'[w].player),
           hand'[w].pc \notin {"idle", "insert"} =>
              hand'[w].game \in Game /\ game[hand'[w].game].status # "none",
           hand'[w].pc \in {"boards", "spoil"} =>
              /\ hand[w].pc = "boards"
              /\ hand'[w].game = hand[w].game /\ hand'[w].player = hand[w].player
    PROVE  IndInv'
<1>1. HandsHeld'
  BY DEF IndInv, HandsHeld, Unlocked
<1>2. HandsKnown'
  BY DEF IndInv, HandsKnown
<1>3. Unplayed'
  BY DEF IndInv, Unplayed, Played
<1> QED
  BY <1>1, <1>2, <1>3 DEF IndInv, FailedUnplayed, FairRow, Played

\* A worker rests.
LEMMA RestStep ==
    ASSUME IndInv, UNCHANGED <<talking, game, unlocked>>, NEW w \in Worker, Rest(w)
    PROVE  IndInv'
<1>1. /\ hand' \in [Worker -> Hand] /\ hand'[w] = AtRest
      /\ \A v \in Worker : v # w => hand'[v] = hand[v]
  BY RestIs DEF Rest, IndInv
<1> QED
  BY <1>1, RestIs, HandStep

\* A handler goes on to its next statement.
LEMMA ProceedStep ==
    ASSUME IndInv, UNCHANGED <<talking, game, unlocked>>, NEW w \in Worker, hand[w].pc # "idle",
           \/ Proceed(w, "retire", hand[w].game) /\ hand[w].pc = "restart"
           \/ Proceed(w, "spoil", hand[w].game) /\ hand[w].pc = "boards"
    PROVE  IndInv'
<1> PICK pc \in {"retire", "spoil"} : Proceed(w, pc, hand[w].game) /\ (pc = "spoil" => hand[w].pc = "boards")
                                     /\ hand[w].pc \in {"restart", "boards"}
  OBVIOUS
<1>1. hand[w].game \in Game /\ game[hand[w].game].status # "none"
  BY DEF IndInv, HandsKnown
<1>2. /\ hand' \in [Worker -> Hand] /\ \A v \in Worker : v # w => hand'[v] = hand[v]
      /\ hand'[w].pc = pc /\ hand'[w].game = hand[w].game /\ hand'[w].player = hand[w].player
  BY DEF Proceed, IndInv, Hand
<1>3. hand[w].player # NoPlayer
  BY DEF IndInv, HandsHeld
<1> QED
  BY <1>1, <1>2, <1>3, HandStep

\* A worker takes an update.
LEMMA BeginStep ==
    ASSUME IndInv, UNCHANGED <<talking, game, unlocked>>, NEW w \in Worker, NEW p \in Player, Unlocked(p),
           NEW pc \in {"insert", "play", "restart"}, NEW g \in Game \cup {NoGame}, Begin(w, p, pc, g),
           pc # "insert" => g \in Game /\ game[g].status # "none"
    PROVE  IndInv'
<1>1. /\ hand' \in [Worker -> Hand] /\ \A v \in Worker : v # w => hand'[v] = hand[v]
      /\ hand'[w].pc = pc /\ hand'[w].game = g /\ hand'[w].player = p
  BY DEF Begin, IndInv, Hand
<1>2. p # NoPlayer
  BY GameAssumption
<1> QED
  BY <1>1, <1>2, HandStep

\* The lock of a player runs out: less is asked of his games.
LEMMA IndLockRunsOut ==
    ASSUME IndInv, NEW p \in Player, LockRunsOut(p)
    PROVE  IndInv'
<1>1. UNCHANGED <<talking, game, hand>> /\ unlocked \subseteq unlocked' /\ unlocked' \subseteq Player
  BY DEF LockRunsOut, IndInv
<1>2. HandsHeld' /\ HandsKnown' /\ Unplayed' /\ FailedUnplayed'
  BY <1>1 DEF IndInv, HandsHeld, HandsKnown, Unplayed, Played, FailedUnplayed
<1> QED
  BY <1>1, <1>2 DEF IndInv, FairRow, Played

\* A row is ended, by its handler; it may be gone.
LEMMA EndStep ==
    ASSUME IndInv, NEW w \in Worker, hand[w].pc \in {"spoil", "retire"},
           NEW s \in {"ended", "send_failed"}, s = "send_failed" => hand[w].pc = "spoil",
           SetStatus(hand[w].game, s), UNCHANGED <<talking, unlocked>>,
           Rest(w) \/ Proceed(w, "insert", NoGame)
    PROVE  IndInv'
<1> DEFINE g == hand[w].game
           r == game[g]
<1>1. g \in Game /\ r \in Row /\ FairRow(r) /\ r.status # "none"
  BY DEF IndInv, HandsKnown
<1>2. /\ hand' \in [Worker -> Hand] /\ hand'[w].pc \in {"idle", "insert"}
      /\ hand'[w].player = NoPlayer <=> hand'[w].pc = "idle"
      /\ hand'[w].player \in {NoPlayer, hand[w].player}
      /\ \A v \in Worker : v # w => hand'[v] = hand[v]
  <2>1. CASE Rest(w)
    BY <2>1, RestIs DEF Rest, IndInv
  <2>2. CASE Proceed(w, "insert", NoGame)
    BY <2>2 DEF Proceed, IndInv, HandsHeld, Hand
  <2> QED
    BY <2>1, <2>2
<1>3. CASE r.status = "deleted"
  BY <1>2, <1>3, HandStep DEF SetStatus
<1>4. CASE r.status # "deleted"
  <2>1. Played(r)
    BY <1>1, <1>4 DEF Played
  <2>2. s = "send_failed" /\ r.x \notin unlocked => Cells(r.board, ".") = Cell
    BY <2>1 DEF IndInv, Unplayed
  <2>3. game' = [game EXCEPT ![g] = [r EXCEPT !.status = s]]
    BY <1>4 DEF SetStatus
  <2>4. /\ game' \in [Game -> Row]
        /\ \A h \in Game : h # g => game'[h] = game[h]
        /\ Played(game'[g]) /\ FairRow(game'[g]) /\ game'[g].status = s
        /\ game'[g].x = r.x /\ game'[g].board = r.board /\ game'[g].turn = r.turn
    BY <1>1, <2>1, <2>3, EndedRow DEF IndInv
  <2>5. HandsHeld'
    BY <1>2 DEF IndInv, HandsHeld
  <2>6. HandsKnown'
    BY <1>2, <2>4 DEF IndInv, HandsKnown, Played
  <2>7. Unplayed'
    <3> SUFFICES ASSUME NEW v \in Worker, hand'[v].pc \in {"boards", "spoil"}, Played(game'[hand'[v].game])
                 PROVE  LET e == game'[hand'[v].game] IN
                        /\ e.x = hand'[v].player
                        /\ e.x \notin unlocked => e.turn = e.x /\ Cells(e.board, ".") = Cell
      BY DEF Unplayed, Played
    <3>1. v # w /\ hand'[v] = hand[v] /\ hand[v].game \in Game
      BY <1>2 DEF IndInv, HandsKnown
    <3>2. CASE hand[v].game = g
      BY <2>1, <2>4, <3>1, <3>2 DEF IndInv, Unplayed
    <3>3. CASE hand[v].game # g
      BY <2>4, <3>1, <3>3 DEF IndInv, Unplayed
    <3> QED
      BY <3>2, <3>3
  <2>8. FailedUnplayed'
    BY <2>2, <2>4 DEF IndInv, FailedUnplayed
  <2> QED
    BY <1>1, <1>2, <2>4, <2>5, <2>6, <2>7, <2>8 DEF IndInv
<1> QED
  BY <1>3, <1>4

LEMMA IndInsert ==
    ASSUME IndInv, NEW w \in Worker, NEW g \in Game, InsertGame(w, g)
    PROVE  IndInv'
<1> DEFINE p == hand[w].player
<1>0. p \in Player /\ p # NoPlayer
  BY DEF InsertGame, IndInv, HandsHeld, Hand
<1>1. /\ game' \in [Game -> Row] /\ Played(game'[g]) /\ FairRow(game'[g]) /\ game'[g].status = "active"
      /\ game'[g].x = p /\ game'[g].turn = p /\ Cells(game'[g].board, ".") = Cell
      /\ \A h \in Game : h # g => game'[h] = game[h]
  BY <1>0, NewRow DEF InsertGame, IndInv
<1>2. game[g].status = "none" /\ UNCHANGED <<talking, unlocked>>
  BY DEF InsertGame
<1>3. /\ hand' \in [Worker -> Hand] /\ \A v \in Worker : v # w => hand'[v] = hand[v]
      /\ hand'[w].pc = "boards" /\ hand'[w].game = g /\ hand'[w].player = p
  BY DEF InsertGame, Proceed, IndInv, Hand
<1>4. HandsHeld'
  BY <1>0, <1>2, <1>3 DEF IndInv, HandsHeld
<1>5. HandsKnown'
  BY <1>1, <1>2, <1>3 DEF IndInv, HandsKnown
<1>6. Unplayed'
  <2> SUFFICES ASSUME NEW v \in Worker, hand'[v].pc \in {"boards", "spoil"}, Played(game'[hand'[v].game])
               PROVE  LET e == game'[hand'[v].game] IN
                      /\ e.x = hand'[v].player
                      /\ e.x \notin unlocked => e.turn = e.x /\ Cells(e.board, ".") = Cell
    BY <1>2 DEF Unplayed, Played
  <2>1. CASE v = w
    BY <1>1, <1>3, <2>1
  <2>2. CASE v # w
    <3>1. hand'[v] = hand[v] /\ hand[v].game \in Game /\ hand[v].game # g
      BY <1>2, <1>3, <2>2 DEF IndInv, HandsKnown
    <3> QED
      BY <1>1, <3>1 DEF IndInv, Unplayed
  <2> QED
    BY <2>1, <2>2
<1>7. FailedUnplayed'
  BY <1>1, <1>2 DEF IndInv, FailedUnplayed
<1> QED
  BY <1>1, <1>2, <1>3, <1>4, <1>5, <1>6, <1>7 DEF IndInv

LEMMA IndPlay ==
    ASSUME IndInv, NEW w \in Worker, NEW c \in Cell, Play(w, c)
    PROVE  IndInv'
<1> DEFINE g == hand[w].game
           p == hand[w].player
           r == game[g]
<1>0. p \in Player /\ p # NoPlayer
  BY DEF Play, IndInv, HandsHeld, Hand
<1>1. g \in Game /\ r \in Row /\ FairRow(r)
  BY DEF Play, IndInv, HandsKnown
<1>2. CASE game' = game
  BY <1>2, RestStep DEF Play
<1>3. CASE r.status = "active" /\ r.turn = p /\ r.board[c] = "."
  <2>1. /\ game' \in [Game -> Row] /\ Played(game'[g]) /\ FairRow(game'[g])
        /\ game'[g].status # "send_failed" /\ game'[g].x = r.x
        /\ \A h \in Game : h # g => game'[h] = game[h]
    <3> DEFINE b == [r.board EXCEPT ![c] = IF r.o = p THEN "O" ELSE "X"]
               m == [r EXCEPT !.board = b, !.turn = Other(p), !.status = Verdict(b)]
    <3>1. game' = [game EXCEPT ![g] = m]
      BY <1>1, <1>3 DEF Play, IndInv, Mark
    <3>2. m \in Row /\ Played(m) /\ FairRow(m) /\ m.status # "send_failed"
      BY <1>0, <1>1, <1>3, MovedRow
    <3>3. m.x = r.x
      BY <1>1 DEF Row
    <3> HIDE DEF m
    <3> QED
      BY <1>1, <3>1, <3>2, <3>3 DEF IndInv
  <2>2. /\ hand' \in [Worker -> Hand] /\ hand'[w].pc = "idle" /\ hand'[w].player = NoPlayer
        /\ \A v \in Worker : v # w => hand'[v] = hand[v]
    BY RestIs DEF Play, Rest, IndInv
  <2>3. UNCHANGED <<talking, unlocked>>
    BY DEF Play
  <2>4. HandsHeld'
    BY <2>2, <2>3 DEF IndInv, HandsHeld
  <2>5. HandsKnown'
    BY <2>1, <2>2 DEF IndInv, HandsKnown, Played
  <2>6. Unplayed'
    <3> SUFFICES ASSUME NEW v \in Worker, hand'[v].pc \in {"boards", "spoil"}, Played(game'[hand'[v].game])
                 PROVE  LET e == game'[hand'[v].game] IN
                        /\ e.x = hand'[v].player
                        /\ e.x \notin unlocked => e.turn = e.x /\ Cells(e.board, ".") = Cell
      BY <2>3 DEF Unplayed, Played
    <3>1. v # w /\ hand'[v] = hand[v] /\ hand[v].game \in Game
      BY <2>2 DEF IndInv, HandsKnown
    <3>2. CASE hand[v].game # g
      BY <2>1, <3>1, <3>2 DEF IndInv, Unplayed
    <3>3. CASE hand[v].game = g
      <4>1. Played(r) /\ r.x = hand[v].player /\ (r.x \notin unlocked => r.turn = r.x)
        BY <1>3, <3>1, <3>3 DEF IndInv, Unplayed, Played
      <4>2. r.x \notin unlocked => r.x # p
        BY <1>0, <3>1, <4>1 DEF IndInv, HandsHeld
      <4>3. r.x \in unlocked
        BY <1>3, <4>1, <4>2
      <4> QED
        BY <2>1, <3>1, <3>3, <4>1, <4>3
    <3> QED
      BY <3>2, <3>3
  <2>7. FailedUnplayed'
    BY <2>1, <2>3 DEF IndInv, FailedUnplayed
  <2> QED
    BY <2>1, <2>2, <2>3, <2>4, <2>5, <2>6, <2>7 DEF IndInv
<1> QED
  BY <1>2, <1>3 DEF Play

\* The scheduler.
LEMMA IndEndOrphans ==
    ASSUME IndInv, EndOrphans
    PROVE  IndInv'
<1>0. UNCHANGED <<talking, hand, unlocked>>
  BY DEF EndOrphans
<1>1. ASSUME NEW g \in Game
      PROVE  /\ game'[g] \in Row /\ FairRow(game'[g])
             /\ Played(game[g]) <=> Played(game'[g])
             /\ game'[g].status = "none" <=> game[g].status = "none"
             /\ game'[g].status = "send_failed" => game[g].status = "send_failed"
             /\ game'[g].x = game[g].x
             /\ game'[g].board = game[g].board /\ game'[g].turn = game[g].turn
  <2>1. game[g] \in Row /\ FairRow(game[g])
    BY DEF IndInv
  <2>2. CASE game[g].status = "active"
    <3> DEFINE e == [game[g] EXCEPT !.status = "ended"]
    <3>1. game'[g] = e /\ Played(game[g])
      BY <2>2 DEF EndOrphans, Played
    <3>2. /\ e \in Row /\ Played(e) /\ FairRow(e) /\ e.status = "ended"
          /\ e.x = game[g].x /\ e.board = game[g].board /\ e.turn = game[g].turn
      BY <2>1, <3>1, EndedRow
    <3> HIDE DEF e
    <3> QED
      BY <2>2, <3>1, <3>2
  <2>3. CASE game[g].status # "active"
    BY <2>1, <2>3 DEF EndOrphans
  <2> QED
    BY <2>2, <2>3
<1>2. game' \in [Game -> Row]
  BY <1>1 DEF EndOrphans
<1>3. HandsHeld' /\ HandsKnown'
  BY <1>0, <1>1 DEF IndInv, HandsHeld, HandsKnown
<1>4. Unplayed'
  <2>1. \A w \in Worker : hand[w].pc \in {"boards", "spoil"} => hand[w].game \in Game
    BY DEF IndInv, HandsKnown
  <2>2. \A g \in Game : Played(game[g])' <=> Played(game'[g])
    BY DEF Played
  <2> QED
    BY <1>0, <1>1, <2>1, <2>2 DEF IndInv, Unplayed
<1>5. FailedUnplayed'
  BY <1>0, <1>1 DEF IndInv, FailedUnplayed
<1> QED
  BY <1>0, <1>1, <1>2, <1>3, <1>4, <1>5 DEF IndInv

LEMMA IndDelete ==
    ASSUME IndInv, NEW g \in Game, DeleteGame(g)
    PROVE  IndInv'
<1> DEFINE e == [Blank EXCEPT !.status = "deleted"]
<1>1. e \in Row /\ e.status = "deleted"
  BY BlankIs DEF Row, Status
<1> HIDE DEF e
<1>2. FairRow(e) /\ ~Played(e)
  BY <1>1 DEF FairRow, Played
<1>3. /\ game' \in [Game -> Row] /\ game'[g] = e /\ UNCHANGED <<talking, hand, unlocked>>
      /\ \A h \in Game : h # g => game'[h] = game[h]
  BY <1>1 DEF DeleteGame, IndInv, e
<1>4. HandsHeld' /\ HandsKnown'
  BY <1>1, <1>3 DEF IndInv, HandsHeld, HandsKnown
<1>5. Unplayed'
  <2>1. \A w \in Worker : hand[w].pc \in {"boards", "spoil"} => hand[w].game \in Game
    BY DEF IndInv, HandsKnown
  <2>2. \A h \in Game : Played(game[h])' <=> Played(game'[h])
    BY DEF Played
  <2> QED
    BY <1>2, <1>3, <2>1, <2>2 DEF IndInv, Unplayed
<1>6. FailedUnplayed'
  BY <1>1, <1>3 DEF IndInv, FailedUnplayed
<1> QED
  BY <1>2, <1>3, <1>4, <1>5, <1>6 DEF IndInv

LEMMA IndStep == IndInv /\ [GameNext]_gameVars => IndInv'
<1> SUFFICES ASSUME IndInv, [GameNext]_gameVars PROVE IndInv'
  OBVIOUS
<1>1. CASE UNCHANGED gameVars
  BY <1>1 DEF gameVars, IndInv, HandsHeld, HandsKnown, Unplayed, FailedUnplayed, FairRow, Played
<1>2. ASSUME NEW w \in Worker, SendBoards(w) PROVE IndInv'
  BY <1>2, RestStep, ProceedStep DEF SendBoards
<1>3. ASSUME NEW w \in Worker, Spoil(w) PROVE IndInv'
  BY <1>3, EndStep DEF Spoil
<1>4. ASSUME NEW w \in Worker, Retire(w) PROVE IndInv'
  BY <1>4, EndStep DEF Retire
<1>5. ASSUME NEW w \in Worker, Restart(w) PROVE IndInv'
  BY <1>5, RestStep, ProceedStep DEF Restart
<1>6. ASSUME NEW w \in Worker, NEW p \in Player, TapStart(w, p) PROVE IndInv'
  BY <1>6, BeginStep DEF TapStart
<1>7. ASSUME NEW w \in Worker, NEW p \in Player, NEW g \in Game, NEW op \in {"play", "restart"},
             TapGame(w, p, g, op)
      PROVE  IndInv'
  <2>1. game[g].status # "none"
    BY <1>7 DEF TapGame
  <2> QED
    BY <1>7, <2>1, BeginStep DEF TapGame
<1>8. ASSUME NEW w \in Worker, DropHandler(w) PROVE IndInv'
  BY <1>8, RestStep DEF DropHandler
<1>9. CASE Part
  BY <1>9 DEF Part, IndInv, HandsHeld, HandsKnown, Unplayed, FailedUnplayed, FairRow, Played
<1> QED
  BY <1>1, <1>2, <1>3, <1>4, <1>5, <1>6, <1>7, <1>8, <1>9,
     IndInsert, IndPlay, IndLockRunsOut, IndEndOrphans, IndDelete
  DEF GameNext, GameStep

LEMMA Invariant == GameSpec => []IndInv
  BY IndInit, IndStep, PTL DEF GameSpec

\* Type correctness.
THEOREM GameTypeCorrect == GameSpec => []GameTypeOK
<1>1. IndInv => GameTypeOK
  BY DEF IndInv, GameTypeOK, Row, Status, Hand
<1> QED
  BY <1>1, Invariant, PTL

\* Whatever is tapped at the same time, games are fair.
THEOREM GamesAreFair == GameSpec => []GamesFair
<1>1. IndInv => GamesFair
  <2> SUFFICES ASSUME IndInv, NEW g \in Game, game[g].status \notin {"none", "deleted"}
               PROVE  /\ Alternate(g)
                      /\ ~(Wins(game[g].board, "X") /\ Wins(game[g].board, "O"))
                      /\ game[g].status = "active" => Verdict(game[g].board) = "active"
                      /\ game[g].status \in {"finished", "draw"} => game[g].status = Verdict(game[g].board)
    BY DEF GamesFair
  <2> QED
    BY DEF IndInv, FairRow, Played, Alternate
<1> QED
  BY <1>1, Invariant, PTL

\* A game that failed to start has not been played, unless its X lost his lock.
THEOREM FailedIsUnplayed == GameSpec => []FailedUnplayed
<1>1. IndInv => FailedUnplayed
  BY DEF IndInv
<1> QED
  BY <1>1, Invariant, PTL

\* A game that is over stays over.
THEOREM OverIsOver == GameSpec => OverStaysOver
<1> DEFINE Over == \A g \in Game : game[g].status \notin {"none", "active"} =>
                     \/ game'[g].status = "deleted"
                     \/ game'[g].status # "active" /\ game'[g].board = game[g].board
<1>1. IndInv /\ [GameNext]_gameVars => Over \/ UNCHANGED gameVars
  <2> SUFFICES ASSUME IndInv, GameNext, NEW g \in Game, game[g].status \notin {"none", "active"}
               PROVE  \/ game'[g].status = "deleted"
                      \/ game'[g].status # "active" /\ game'[g].board = game[g].board
    OBVIOUS
  <2>0. game \in [Game -> Row]
    BY DEF IndInv
  <2>1. CASE game'[g] = game[g]
    BY <2>1
  <2>2. ASSUME NEW h, NEW s \in {"ended", "send_failed"}, SetStatus(h, s)
        PROVE  game'[g].status # "active" /\ game'[g].board = game[g].board
    BY <2>0, <2>2 DEF SetStatus, Row
  <2>3. ASSUME NEW w \in Worker, GameStep(w)
        PROVE  game'[g].status # "active" /\ game'[g].board = game[g].board
    BY <2>0, <2>2, <2>3 DEF GameStep, InsertGame, SendBoards, Spoil, Play, Restart, Retire
  <2>4. CASE EndOrphans
    BY <2>4 DEF EndOrphans
  <2>5. ASSUME NEW h \in Game, DeleteGame(h)
        PROVE  game'[g] = game[g] \/ game'[g].status = "deleted"
    BY <2>0, <2>5 DEF DeleteGame, Blank
  <2> QED
    BY <2>1, <2>3, <2>4, <2>5 DEF GameNext, TapStart, TapGame, DropHandler, LockRunsOut, Part
<1> QED
  BY <1>1, Invariant, PTL DEF GameSpec, OverStaysOver

=============================================================================
