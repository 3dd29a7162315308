------------------------- MODULE TicTacToe_proofs -------------------------
(* Proofs that the Tic-tac app keeps the rules of the game and the turns.  *)
EXTENDS TicTacToe, FiniteSetTheorems, TLAPS

Boards == [Squares -> {"", "X", "O"}]

\* The three loops of checkGame visit the eight lines of the board.
LEMMA LoopsAreLines ==
    ASSUME NEW b, NEW p
    PROVE  CheckGame(b, p) <=> Rules!HasLine(b, p)
<1> DEFINE At(i) == b[i] = p
<1>1. CheckGame(b, p) <=>
         \/ At(0) /\ At(1) /\ At(2)
         \/ At(3) /\ At(4) /\ At(5)
         \/ At(6) /\ At(7) /\ At(8)
         \/ At(0) /\ At(3) /\ At(6)
         \/ At(1) /\ At(4) /\ At(7)
         \/ At(2) /\ At(5) /\ At(8)
         \/ At(0) /\ At(4) /\ At(8)
         \/ At(2) /\ At(4) /\ At(6)
  <2>1. (\E index \in 0..2 : b[3 * index] = p /\ b[1 + 3 * index] = p
                                              /\ b[2 + 3 * index] = p)
          <=> \/ At(0) /\ At(1) /\ At(2)
              \/ At(3) /\ At(4) /\ At(5)
              \/ At(6) /\ At(7) /\ At(8)
    <3>1. 0..2 = {0, 1, 2}
      OBVIOUS
    <3>2. /\ 3 * 0 = 0 /\ 1 + 3 * 0 = 1 /\ 2 + 3 * 0 = 2
          /\ 3 * 1 = 3 /\ 1 + 3 * 1 = 4 /\ 2 + 3 * 1 = 5
          /\ 3 * 2 = 6 /\ 1 + 3 * 2 = 7 /\ 2 + 3 * 2 = 8
      OBVIOUS
    <3> QED
      BY <3>1, <3>2, Zenon
  <2>2. (\E index \in 0..2 : b[index] = p /\ b[3 + index] = p
                                          /\ b[6 + index] = p)
          <=> \/ At(0) /\ At(3) /\ At(6)
              \/ At(1) /\ At(4) /\ At(7)
              \/ At(2) /\ At(5) /\ At(8)
    <3>1. 0..2 = {0, 1, 2}
      OBVIOUS
    <3>2. /\ 3 + 0 = 3 /\ 3 + 1 = 4 /\ 3 + 2 = 5
          /\ 6 + 0 = 6 /\ 6 + 1 = 7 /\ 6 + 2 = 8
      OBVIOUS
    <3> QED
      BY <3>1, <3>2, Zenon
  <2>3. (\E index \in 0..1 : b[2 * index] = p /\ b[4] = p
                                              /\ b[8 - 2 * index] = p)
          <=> \/ At(0) /\ At(4) /\ At(8)
              \/ At(2) /\ At(4) /\ At(6)
    <3>1. 0..1 = {0, 1}
      OBVIOUS
    <3>2. 2 * 0 = 0 /\ 8 - 2 * 0 = 8 /\ 2 * 1 = 2 /\ 8 - 2 * 1 = 6
      OBVIOUS
    <3> QED
      BY <3>1, <3>2, Zenon
  <2> QED
    BY <2>1, <2>2, <2>3, Zenon DEF CheckGame
<1>2. Rules!HasLine(b, p) <=>
         \/ At(0) /\ At(1) /\ At(2)
         \/ At(3) /\ At(4) /\ At(5)
         \/ At(6) /\ At(7) /\ At(8)
         \/ At(0) /\ At(3) /\ At(6)
         \/ At(1) /\ At(4) /\ At(7)
         \/ At(2) /\ At(5) /\ At(8)
         \/ At(0) /\ At(4) /\ At(8)
         \/ At(2) /\ At(4) /\ At(6)
  BY Zenon DEF Rules!HasLine, Rules!Lines
<1> QED
  BY <1>1, <1>2

\* Type correctness.
THEOREM TypeCorrect == Spec => []TypeOK
<1>1. Init => TypeOK
  BY DEF Init, TypeOK, NoMoves
<1>2. ASSUME TypeOK, [Next]_vars PROVE TypeOK'
  <2>1. ASSUME NEW n \in Squares, PlayerTapped(n) PROVE TypeOK'
    <3>1. /\ player \in {"X", "O"} /\ winnerAlert = "" /\ resettingGame = FALSE
      BY <1>2, <2>1 DEF PlayerTapped, TypeOK
    <3>2. moves' \in [Squares -> {"", "X", "O"}]
      BY <1>2, <2>1, <3>1 DEF PlayerTapped, TypeOK
    <3>3. \/ GameOver(player) \/ GameOver("draw") \/ NextTurn
      BY <2>1 DEF PlayerTapped
    <3> QED
      BY <3>1, <3>2, <3>3 DEF GameOver, NextTurn, TypeOK
  <2>2. CASE ResetGame
    BY <2>2 DEF ResetGame, TypeOK, NoMoves
  <2>3. CASE UNCHANGED vars
    BY <1>2, <2>3 DEF vars, TypeOK
  <2> QED
    BY <1>2, <2>1, <2>2, <2>3 DEF Next
<1> QED
  BY <1>1, <1>2, PTL DEF Spec

-----------------------------------------------------------------------------
(* Refinement.                                                             *)

\* What the players are told is how the board stands.  In particular nobody
\* owns a line while the game is open: this is why a look at the lines of the
\* player who has just moved is enough.
Announced == IF winnerAlert = "" THEN "open" ELSE winnerAlert
Honest == Announced = Rules!Standing(moves)
Inv == TypeOK /\ Honest

LEMMA OpenBoard ==
    ASSUME NEW b, Rules!Standing(b) = "open"
    PROVE  ~Rules!HasLine(b, "X") /\ ~Rules!HasLine(b, "O") /\ ~Full(b)
BY DEF Rules!Standing, Rules!Filled, Rules!Cells, Rules!Empty, Full, Squares

LEMMA LinesOnBoard ==
    \A line \in Rules!Lines : line \subseteq Squares /\ line # {}
<1>1. Squares = {0, 1, 2, 3, 4, 5, 6, 7, 8}
  BY DEF Squares
<1> QED
  BY <1>1, Zenon DEF Rules!Lines

\* A mark of p completes no line of q.
LEMMA OthersLines ==
    ASSUME NEW b \in Boards, NEW n \in Squares, b[n] = "",
           NEW p \in {"X", "O"}, NEW q \in {"X", "O"}, p # q,
           ~Rules!HasLine(b, q)
    PROVE  ~Rules!HasLine([b EXCEPT ![n] = p], q)
<1> DEFINE d == [b EXCEPT ![n] = p]
<1>1. \A c \in Squares : d[c] = q => b[c] = q
  BY DEF Boards
<1> QED
  BY <1>1, LinesOnBoard DEF Rules!HasLine

\* playerTapped announces what the board after the move is worth.
LEMMA TapHonest ==
    ASSUME Inv, NEW n \in Squares, PlayerTapped(n)
    PROVE  /\ player \in {"X", "O"} /\ winnerAlert = ""
           /\ moves' = [moves EXCEPT ![n] = player]
           /\ moves' \in Boards
           /\ Announced' = Rules!Standing(moves')
           /\ Announced' = "open" => player' = Rules!Other(player)
<1>1. /\ player \in {"X", "O"} /\ winnerAlert = "" /\ moves[n] = ""
      /\ moves \in Boards /\ moves' = [moves EXCEPT ![n] = player]
  BY DEF Inv, TypeOK, PlayerTapped, Boards
<1>2. moves' \in Boards
  BY <1>1 DEF Boards
<1>3. ~Rules!HasLine(moves, "X") /\ ~Rules!HasLine(moves, "O")
  BY <1>1, OpenBoard DEF Inv, Honest, Announced
<1>4. CheckGame(moves', player) <=> Rules!HasLine(moves', player)
  BY LoopsAreLines
<1>5. \A q \in {"X", "O"} : q # player => ~Rules!HasLine(moves', q)
  BY <1>1, <1>3, OthersLines
<1>6. Full(moves') <=> Rules!Filled(moves')
  BY DEF Full, Rules!Filled, Rules!Cells, Rules!Empty, Squares
<1>7. CASE CheckGame(moves', player)
  <2>1. GameOver(player)
    BY <1>7 DEF PlayerTapped
  <2>2. Announced' = player /\ player # "open"
    BY <1>1, <2>1 DEF GameOver, Announced
  <2>3. Rules!Standing(moves') = player
    BY <1>1, <1>4, <1>5, <1>7 DEF Rules!Standing
  <2> QED
    BY <1>1, <1>2, <2>2, <2>3
<1>8. CASE ~CheckGame(moves', player) /\ Full(moves')
  <2>1. GameOver("draw")
    BY <1>8 DEF PlayerTapped
  <2>2. Announced' = "draw"
    BY <2>1 DEF GameOver, Announced
  <2>3. Rules!Standing(moves') = "draw"
    BY <1>1, <1>4, <1>5, <1>6, <1>8 DEF Rules!Standing
  <2> QED
    BY <1>1, <1>2, <2>2, <2>3
<1>9. CASE ~CheckGame(moves', player) /\ ~Full(moves')
  <2>1. NextTurn
    BY <1>9 DEF PlayerTapped
  <2>2. Announced' = "open" /\ player' = Rules!Other(player)
    BY <1>1, <2>1 DEF NextTurn, Announced, Rules!Other
  <2>3. Rules!Standing(moves') = "open"
    BY <1>1, <1>4, <1>5, <1>6, <1>9 DEF Rules!Standing
  <2> QED
    BY <1>1, <1>2, <2>2, <2>3
<1> QED
  BY <1>7, <1>8, <1>9

LEMMA NewBoardOpen == Rules!Standing(NoMoves) = "open"
<1>1. \A c \in Squares : NoMoves[c] = ""
  BY DEF NoMoves
<1>2. ~Rules!HasLine(NoMoves, "X") /\ ~Rules!HasLine(NoMoves, "O")
  BY <1>1, LinesOnBoard DEF Rules!HasLine
<1>3. ~Rules!Filled(NoMoves)
  <2>1. 0 \in Squares
    BY DEF Squares
  <2> QED
    BY <1>1, <2>1 DEF Rules!Filled, Rules!Cells, Rules!Empty, Squares
<1> QED
  BY <1>2, <1>3 DEF Rules!Standing

LEMMA InvInit == Init => Inv
BY NewBoardOpen DEF Init, Inv, TypeOK, Honest, Announced, NoMoves

LEMMA InvStep == ASSUME Inv, TypeOK', [Next]_vars PROVE Inv'
<1>1. ASSUME NEW n \in Squares, PlayerTapped(n) PROVE Honest'
  BY <1>1, TapHonest DEF Honest
<1>2. CASE ResetGame
  <2>1. moves' = NoMoves /\ Announced' = "open"
    BY <1>2 DEF ResetGame, Announced
  <2>2. Rules!Standing(moves') = "open"
    BY <2>1, NewBoardOpen
  <2> QED
    BY <2>1, <2>2 DEF Inv, Honest
<1>3. CASE UNCHANGED vars
  BY <1>3 DEF vars, Inv, Honest, Announced
<1> QED
  BY <1>1, <1>2, <1>3 DEF Next, Inv

\* The app implements the rules: every tap is a legal move or starts a new
\* game, and the announcement is how the whole board stands.
THEOREM AppKeepsTheRules == Spec => KeepsTheRules
<1>1. Init => Rules!RulesInit
  BY DEF Init, Rules!RulesInit, NoMoves, Rules!NewBoard, Rules!Cells,
         Rules!Empty, Squares
<1>2. ASSUME Inv, [Next]_vars PROVE [Rules!RulesNext]_Rules!rulesVars
  <2>1. ASSUME NEW n \in Squares, PlayerTapped(n) PROVE Rules!Mark(n)
    BY <1>2, <2>1, TapHonest
    DEF Rules!Mark, Rules!Empty, PlayerTapped, Announced
  <2>2. ASSUME ResetGame PROVE Rules!NewGame
    <3>1. Announced # "open"
      BY <1>2, <2>2 DEF ResetGame, Inv, TypeOK, Announced
    <3>2. Announced' = "open" /\ player' = "X" /\ moves' = NoMoves
      BY <2>2 DEF ResetGame, Announced
    <3>3. NoMoves = Rules!NewBoard
      BY DEF NoMoves, Rules!NewBoard, Rules!Cells, Rules!Empty, Squares
    <3> QED
      BY <3>1, <3>2, <3>3 DEF Rules!NewGame, Announced
  <2>3. CASE UNCHANGED vars
    BY <2>3 DEF vars, Rules!rulesVars
  <2> QED
    BY <1>2, <2>1, <2>2, <2>3
    DEF Next, Rules!RulesNext, Rules!Cells, Squares
<1> QED
  BY <1>1, <1>2, InvInit, InvStep, TypeCorrect, PTL
  DEF Spec, KeepsTheRules, Rules!RulesSpec

\* A full board always ends the game, so Play Again is offered.
THEOREM NeverLeftStuck == Spec => []NeverStuck
<1>1. Inv => NeverStuck
  BY OpenBoard DEF Inv, TypeOK, Honest, Announced, NeverStuck
<1> QED
  BY <1>1, InvInit, InvStep, TypeCorrect, PTL DEF Spec

-----------------------------------------------------------------------------
(* Winners.                                                                *)

\* The lines of the other player are never looked at: no board may have both.
LinesOfOne == ~(Rules!HasLine(moves, "X") /\ Rules!HasLine(moves, "O"))

\* What the alert says is how the whole board stands, with one winner at most,
\* although checkGame looks at the lines of one player only.
THEOREM WinnerIsAnnounced == Spec => [](Honest /\ LinesOfOne)
<1>1. Init => LinesOfOne
  BY NewBoardOpen, OpenBoard DEF Init, LinesOfOne
<1>2. ASSUME Inv, LinesOfOne, [Next]_vars PROVE LinesOfOne'
  <2>1. ASSUME NEW n \in Squares, PlayerTapped(n) PROVE LinesOfOne'
    <3>1. /\ player \in {"X", "O"} /\ moves[n] = "" /\ moves \in Boards
          /\ moves' = [moves EXCEPT ![n] = player]
      BY <1>2, <2>1, TapHonest DEF Inv, TypeOK, PlayerTapped, Boards
    <3>2. ~Rules!HasLine(moves, "X") /\ ~Rules!HasLine(moves, "O")
      BY <1>2, <2>1, TapHonest, OpenBoard DEF Inv, Honest, Announced
    <3>3. \A q \in {"X", "O"} : q # player => ~Rules!HasLine(moves', q)
      BY <3>1, <3>2, OthersLines
    <3> QED BY <3>1, <3>3 DEF LinesOfOne
  <2>2. CASE ResetGame
    <3>1. moves' = NoMoves
      BY <2>2 DEF ResetGame
    <3> QED BY <3>1, NewBoardOpen, OpenBoard DEF LinesOfOne
  <2>3. CASE UNCHANGED vars
    BY <1>2, <2>3 DEF vars, LinesOfOne
  <2> QED BY <1>2, <2>1, <2>2, <2>3 DEF Next
<1>3. Inv => Honest
  BY DEF Inv
<1> QED
  BY <1>1, <1>2, <1>3, InvInit, InvStep, TypeCorrect, PTL DEF Spec

-----------------------------------------------------------------------------
(* Turns.                                                                  *)

LEMMA OwnedFinite ==
    ASSUME NEW p
    PROVE  IsFiniteSet(Owned(p)) /\ Cardinality(Owned(p)) \in Nat
<1>1. IsFiniteSet(Squares)
  <2>1. 0 \in Int /\ 8 \in Int
    OBVIOUS
  <2> QED BY <2>1, FS_Interval, Zenon DEF Squares
<1>2. Owned(p) \subseteq Squares
  BY DEF Owned
<1> QED BY <1>1, <1>2, FS_Subset, FS_CardinalityType

\* A tap gives a free square to the player whose turn it is.
LEMMA TapCounts ==
    ASSUME TypeOK, NEW n \in Squares, PlayerTapped(n), NEW q \in {"X", "O"}
    PROVE  Cardinality(Owned(q)') =
               Cardinality(Owned(q)) + (IF q = player THEN 1 ELSE 0)
<1>1. /\ moves \in [Squares -> {"", "X", "O"}]
      /\ moves[n] = "" /\ player \in {"X", "O"}
      /\ moves' = [moves EXCEPT ![n] = player]
  BY DEF TypeOK, PlayerTapped
<1>2. CASE q = player
  <2>1. Owned(q)' = Owned(q) \cup {n} /\ n \notin Owned(q)
    BY <1>1, <1>2 DEF Owned
  <2>2. Cardinality(Owned(q) \cup {n}) = Cardinality(Owned(q)) + 1
    BY <2>1, OwnedFinite, FS_AddElement
  <2> QED BY <1>2, <2>1, <2>2
<1>3. CASE q # player
  <2>1. Owned(q)' = Owned(q)
    BY <1>1, <1>3 DEF Owned
  <2>2. Cardinality(Owned(q)) \in Nat
    BY OwnedFinite
  <2> QED BY <1>3, <2>1, <2>2
<1> QED BY <1>2, <1>3

LEMMA NewCounts ==
    ASSUME moves = NoMoves
    PROVE  Cardinality(Owned("X")) = 0 /\ Cardinality(Owned("O")) = 0
<1>1. Owned("X") = {} /\ Owned("O") = {}
  BY DEF Owned, NoMoves
<1> QED BY <1>1, FS_EmptySet

\* X and O take turns through any number of games.
THEOREM TurnsAreFair == Spec => []FairTurns
<1>1. Init => FairTurns
  BY NewCounts DEF Init, FairTurns
<1>2. ASSUME TypeOK, FairTurns, [Next]_vars PROVE FairTurns'
  <2>0. Cardinality(Owned("X")) \in Nat /\ Cardinality(Owned("O")) \in Nat
    BY OwnedFinite
  <2>1. ASSUME NEW n \in Squares, PlayerTapped(n) PROVE FairTurns'
    <3>1. player \in {"X", "O"} /\ player' \in {"-", IF player = "X" THEN "O" ELSE "X"}
      BY <1>2, <2>1 DEF TypeOK, PlayerTapped, GameOver, NextTurn
    <3>2. /\ Cardinality(Owned("X")') =
                 Cardinality(Owned("X")) + (IF player = "X" THEN 1 ELSE 0)
          /\ Cardinality(Owned("O")') =
                 Cardinality(Owned("O")) + (IF player = "O" THEN 1 ELSE 0)
      BY <1>2, <2>1, TapCounts
    <3> QED BY <1>2, <2>0, <3>1, <3>2 DEF FairTurns
  <2>2. CASE ResetGame
    <3>1. moves' = NoMoves /\ player' = "X"
      BY <2>2 DEF ResetGame
    <3>2. Owned("X")' = {} /\ Owned("O")' = {}
      BY <3>1 DEF Owned, NoMoves
    <3> QED BY <3>1, <3>2, FS_EmptySet DEF FairTurns
  <2>3. CASE UNCHANGED vars
    BY <1>2, <2>3 DEF vars, FairTurns, Owned
  <2> QED BY <1>2, <2>1, <2>2, <2>3 DEF Next
<1> QED BY <1>1, <1>2, TypeCorrect, PTL DEF Spec

=============================================================================
