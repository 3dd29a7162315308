------------------------- MODULE NoughtsAndCrosses -------------------------
(***************************************************************************)
(* What the Tic-tac app promises its two players: the rules of the game,   *)
(* stated over the whole board with no regard to how the app detects a     *)
(* win.                                                                    *)
(***************************************************************************)
EXTENDS Naturals

Cells == 0..8
Marks == {"X", "O"}
Empty == ""

\* The eight lines of the board, whose rows are 012, 345 and 678.
Lines == {{0, 1, 2}, {3, 4, 5}, {6, 7, 8},
          {0, 3, 6}, {1, 4, 7}, {2, 5, 8},
          {0, 4, 8}, {2, 4, 6}}

HasLine(b, p) == \E line \in Lines : \A c \in line : b[c] = p
Filled(b) == \A c \in Cells : b[c] # Empty

\* How a game with board b stands.  "both" would be a game that went on after
\* it was won.
Standing(b) ==
    CASE HasLine(b, "X") /\ HasLine(b, "O") -> "both"
      [] HasLine(b, "X") /\ ~HasLine(b, "O") -> "X"
      [] HasLine(b, "O") /\ ~HasLine(b, "X") -> "O"
      [] ~HasLine(b, "X") /\ ~HasLine(b, "O") ->
            IF Filled(b) THEN "draw" ELSE "open"

Other(p) == IF p = "X" THEN "O" ELSE "X"

VARIABLES
    board,      \* what is written in each cell
    turn,       \* whose move it is, while the game is open
    announced   \* the standing the players are told

rulesVars == <<board, turn, announced>>

NewBoard == [c \in Cells |-> Empty]

RulesInit == board = NewBoard /\ turn = "X" /\ announced = "open"

\* The player whose turn it is marks an empty cell of an open game.
Mark(c) ==
    /\ announced = "open"
    /\ board[c] = Empty
    /\ board' = [board EXCEPT ![c] = turn]
    /\ announced' = Standing(board')
    /\ announced' = "open" => turn' = Other(turn)

\* A game that is over makes room for a new one, which X begins.
NewGame ==
    /\ announced # "open"
    /\ board' = NewBoard
    /\ turn' = "X"
    /\ announced' = "open"

RulesNext == NewGame \/ \E c \in Cells : Mark(c)

RulesSpec == RulesInit /\ [][RulesNext]_rulesVars
=============================================================================
