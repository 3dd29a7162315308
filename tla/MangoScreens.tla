---------------------------- MODULE MangoScreens ----------------------------
(***************************************************************************)
(* MangoPlateCloneApp: the screens a session is asked for from.            *)
(* LoginViewController presents a MainViewController, whose first page     *)
(* presents a LoginViewController on logout; nothing is ever dismissed, so *)
(* the screens pile up: login screens at the odd places, main screens at   *)
(* the even ones.  A request to a session is named by its screen.          *)
(***************************************************************************)
EXTENDS Naturals

CONSTANTS
    MaxScreens,  \* bound on the pile
    Accounts,    \* accounts at Google and at Kakao
    NoAccount

ASSUME ScreensAssumption == MaxScreens \in Nat \ {0}
ASSUME AccountsAssumption == NoAccount \notin Accounts

LoginScreens == {k \in 1..MaxScreens : k % 2 = 1}
MainScreens == {k \in 1..MaxScreens : k % 2 = 0}
MaybeAccount == Accounts \cup {NoAccount}
=============================================================================
