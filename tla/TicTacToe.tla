----------------------------- MODULE TicTacToe -----------------------------
(***************************************************************************)
(* The Tic-tac app: ContentView, its four @State fields and its two        *)
(* buttons.  SwiftUI runs the actions on the main thread one at a time and *)
(* evaluates body, and with it `disabled`, between two of them.            *)
(***************************************************************************)
EXTENDS Naturals, FiniteSets

VARIABLES
    moves,          \* the nine squares, "" when free
    player,         \* "X" or "O", and "-" when the game is over
    winnerAlert,    \* "", "X" or "O" (Player p Won), or "draw"
    resettingGame   \* the Play Again button is shown

vars == <<moves, player, winnerAlert, resettingGame>>

Squares == 0..8
NoMoves == [i \in Squares |-> ""]

Init ==
    /\ moves = NoMoves
    /\ player = "X"
    /\ winnerAlert = ""
    /\ resettingGame = FALSE

-----------------------------------------------------------------------------
\* Mutant: the last loop runs over 0...0.
CheckGameOneDiagonal(b, p) ==
    \/ \E offset \in {0, 3, 6} : b[offset] = p /\ b[1 + offset] = p /\ b[2 + offset] = p
    \/ \E offset \in 0..2 : b[offset] = p /\ b[3 + offset] = p /\ b[6 + offset] = p
    \/ b[0] = p /\ b[4] = p /\ b[8] = p

\* Does the player who has just moved own a row, a column or a diagonal?
CheckGame(b, p) ==
    \/ \E index \in 0..2 :
          b[3 * index] = p /\ b[1 + 3 * index] = p /\ b[2 + 3 * index] = p
    \/ \E index \in 0..2 :
          b[index] = p /\ b[3 + index] = p /\ b[6 + index] = p
    \/ \E index \in 0..1 :
          b[2 * index] = p /\ b[4] = p /\ b[8 - 2 * index] = p

Full(b) == \A i \in Squares : b[i] # ""

GameOver(alert) ==
    /\ winnerAlert' = alert
    /\ player' = "-"
    /\ resettingGame' = TRUE

NextTurn ==
    /\ player' = IF player = "X" THEN "O" ELSE "X"
    /\ UNCHANGED <<winnerAlert, resettingGame>>

\* Mutant: there is no branch for a draw.
PlayerTappedWithoutDraw(number) ==
    /\ moves[number] = "" /\ ~resettingGame
    /\ moves' = [moves EXCEPT ![number] = player]
    /\ IF CheckGame(moves', player) THEN GameOver(player) ELSE NextTurn

\* Mutant: a square stays enabled when it is taken.
PlayerTappedAnywhere(number) ==
    /\ ~resettingGame
    /\ moves' = [moves EXCEPT ![number] = player]
    /\ CASE CheckGame(moves', player) -> GameOver(player)
         [] ~CheckGame(moves', player) /\ Full(moves') -> GameOver("draw")
         [] OTHER -> NextTurn

\* A square can be tapped unless it is disabled.
PlayerTapped(number) ==
    /\ moves[number] = "" /\ ~resettingGame
    /\ moves' = [moves EXCEPT ![number] = player]
    /\ CASE CheckGame(moves', player) -> GameOver(player)
         [] ~CheckGame(moves', player) /\ Full(moves') -> GameOver("draw")
         [] OTHER -> NextTurn

\* Mutant: the turn is not reset.
ResetGameButPlayer ==
    /\ resettingGame
    /\ winnerAlert' = ""
    /\ resettingGame' = FALSE
    /\ moves' = NoMoves
    /\ UNCHANGED player

\* Play Again is on screen only when a game is over.
ResetGame ==
    /\ resettingGame
    /\ winnerAlert' = ""
    /\ resettingGame' = FALSE
    /\ player' = "X"
    /\ moves' = NoMoves

Next == ResetGame \/ \E number \in Squares : PlayerTapped(number)

Spec == Init /\ [][Next]_vars

-----------------------------------------------------------------------------
(* Properties.                                                             *)

\* Type invariant; the three fields that tell whether a game is over agree.
TypeOK ==
    /\ moves \in [Squares -> {"", "X", "O"}]
    /\ \/ player \in {"X", "O"} /\ winnerAlert = "" /\ resettingGame = FALSE
       \/ player = "-" /\ winnerAlert \in {"X", "O", "draw"} /\ resettingGame = TRUE

\* X and O take turns and X begins: the app keeps no move list, but through
\* wins, draws and Play Again the marks on the board say whose move it is.
Owned(p) == {i \in Squares : moves[i] = p}
FairTurns ==
    LET x == Cardinality(Owned("X")) o == Cardinality(Owned("O"))
    IN  /\ x = o \/ x = o + 1
        /\ player = "X" => x = o
        /\ player = "O" => x = o + 1

\* The players are never left with a full board and no Play Again button.
NeverStuck == ~resettingGame => ~Full(moves)

\* The app keeps the rules: it looks only at the lines of the player who has
\* just moved, and what it announces is how the whole board stands.
Rules == INSTANCE NoughtsAndCrosses
            WITH board <- moves,
                 turn <- player,
                 announced <- IF winnerAlert = "" THEN "open" ELSE winnerAlert
KeepsTheRules == Rules!RulesSpec
=============================================================================
