---------------------------- MODULE KakaoSession ----------------------------
(***************************************************************************)
(* The part of the Kakao SDK that MangoPlateCloneApp uses: TokenManager,   *)
(* the exchange of a login's code for a token, and the logout, which       *)
(* refreshes the token and tries again when the server calls it invalid.   *)
(* Everything runs on the main queue; the token outlives the process.      *)
(***************************************************************************)
EXTENDS MangoScreens

CONSTANT RetryCount  \* Auth.retryTokenRefreshCount, 3

ASSUME RetryAssumption == RetryCount \in Nat \ {0}

VARIABLES
    token,        \* TokenManager.token, which UserDefaults holds as well
    kakaoLogin,   \* the account whose token each login screen has asked for
    kakaoLogout   \* the logout of each main screen

kakaoVars == <<token, kakaoLogin, kakaoLogout>>

\* The account of the access token and that of the refresh token: they come
\* from one answer at login, but not always at a refresh.
Tokens == [access : MaybeAccount, refresh : MaybeAccount]
NoToken == [access |-> NoAccount, refresh |-> NoAccount]

\* "asked" while the logout is with the server, "refreshing" while the token
\* of `account` is; errors counts the invalid tokens it has met.
Logouts == [at : {"idle", "asked", "refreshing"}, errors : 0..RetryCount,
            account : MaybeAccount]
NoLogout == [at |-> "idle", errors |-> 0, account |-> NoAccount]

LoggingIn == {k \in LoginScreens : kakaoLogin[k] # NoAccount}
LoggingOut == {m \in MainScreens : kakaoLogout[m].at # "idle"}

KakaoInit ==
    /\ token = NoToken
    /\ kakaoLogin = [k \in LoginScreens |-> NoAccount]
    /\ kakaoLogout = [m \in MainScreens |-> NoLogout]

-----------------------------------------------------------------------------
(* Login: the code is there, AuthApi.token(code:) asks for the token.      *)

AskToken(k, a) ==
    /\ kakaoLogin' = [kakaoLogin EXCEPT ![k] = a]
    /\ UNCHANGED <<token, kakaoLogout>>

\* Mutant: the refresh token so far is kept, as at a refresh.
TokenMerged(k) ==
    /\ kakaoLogin[k] # NoAccount
    /\ token' = [access |-> kakaoLogin[k], refresh |-> token.refresh]
    /\ kakaoLogin' = [kakaoLogin EXCEPT ![k] = NoAccount]
    /\ UNCHANGED kakaoLogout

\* The two tokens of the answer replace those held so far.
TokenReceived(k) ==
    /\ kakaoLogin[k] # NoAccount
    /\ token' = [access |-> kakaoLogin[k], refresh |-> kakaoLogin[k]]
    /\ kakaoLogin' = [kakaoLogin EXCEPT ![k] = NoAccount]
    /\ UNCHANGED kakaoLogout

TokenRefused(k) ==
    /\ kakaoLogin[k] # NoAccount
    /\ kakaoLogin' = [kakaoLogin EXCEPT ![k] = NoAccount]
    /\ UNCHANGED <<token, kakaoLogout>>

-----------------------------------------------------------------------------
(* Logout.                                                                 *)

AskLogout(m) ==
    /\ kakaoLogout' = [kakaoLogout EXCEPT ![m] = [NoLogout EXCEPT !.at = "asked"]]
    /\ UNCHANGED <<token, kakaoLogin>>

\* However the logout ends, with success or error, it deletes whatever token
\* TokenManager holds by then.
LogoutEnds(m) ==
    /\ token' = NoToken
    /\ kakaoLogout' = [kakaoLogout EXCEPT ![m] = NoLogout]
    /\ UNCHANGED kakaoLogin

\* Accepted, or an error that is not about the token.
LogoutAnswered(m) ==
    /\ kakaoLogout[m].at = "asked"
    /\ LogoutEnds(m)

\* Mutant: the errors are not counted.
RefreshForEver(m) ==
    /\ kakaoLogout[m].at = "asked"
    /\ token # NoToken
    /\ kakaoLogout' = [kakaoLogout EXCEPT ![m].at = "refreshing",
                                          ![m].account = token.refresh]
    /\ UNCHANGED <<token, kakaoLogin>>

\* InvalidAccessToken: the token held by now, if any, is refreshed.
TokenInvalid(m) ==
    /\ kakaoLogout[m].at = "asked"
    /\ token # NoToken
    /\ kakaoLogout' = [kakaoLogout EXCEPT ![m].at = "refreshing",
                                          ![m].errors = @ + 1,
                                          ![m].account = token.refresh]
    /\ UNCHANGED <<token, kakaoLogin>>

\* Mutant: one error more than counted.
RefreshedOnceMore(m) ==
    /\ kakaoLogout[m].at = "refreshing"
    /\ token # NoToken
    /\ \E r \in {kakaoLogout[m].account, token.refresh} :
           token' = [access |-> kakaoLogout[m].account, refresh |-> r]
    /\ kakaoLogout' = [kakaoLogout EXCEPT ![m].at = "asked",
                                          ![m].account = NoAccount]
    /\ UNCHANGED kakaoLogin

\* The new token is stored over the one held by now, whose refresh token it
\* takes over when the answer brings none; the logout is sent again.
Refreshed(m) ==
    /\ kakaoLogout[m].at = "refreshing"
    /\ token # NoToken
    /\ kakaoLogout[m].errors < RetryCount
    /\ \E r \in {kakaoLogout[m].account, token.refresh} :
           token' = [access |-> kakaoLogout[m].account, refresh |-> r]
    /\ kakaoLogout' = [kakaoLogout EXCEPT ![m].at = "asked",
                                          ![m].account = NoAccount]
    /\ UNCHANGED kakaoLogin

\* The refresh fails, or finds no token to replace (TokenNotFound), or was
\* for the last error take(RetryCount) lets through, after which the sequence
\* completes, as if the logout had.
RefreshEnds(m) ==
    /\ kakaoLogout[m].at = "refreshing"
    /\ LogoutEnds(m)

LogoutStep(m) ==
    \/ LogoutAnswered(m)
    \/ TokenInvalid(m)
    \/ Refreshed(m)
    \/ RefreshEnds(m)

\* Requests end with the process, the token does not.
RestartKakao ==
    /\ kakaoLogin' = [k \in LoginScreens |-> NoAccount]
    /\ kakaoLogout' = [m \in MainScreens |-> NoLogout]
    /\ UNCHANGED token

\* The session under any client that asks for one login and one logout per
\* screen at a time.
KakaoNext ==
    \/ \E k \in LoginScreens :
           \/ \E a \in Accounts : kakaoLogin[k] = NoAccount /\ AskToken(k, a)
           \/ TokenReceived(k)
           \/ TokenRefused(k)
    \/ \E m \in MainScreens :
           \/ kakaoLogout[m].at = "idle" /\ AskLogout(m)
           \/ LogoutStep(m)
    \/ RestartKakao

KakaoSpec == KakaoInit /\ [][KakaoNext]_kakaoVars

-----------------------------------------------------------------------------
(* Properties.                                                             *)

KakaoTypeOK ==
    /\ token \in Tokens
    /\ kakaoLogin \in [LoginScreens -> MaybeAccount]
    /\ kakaoLogout \in [MainScreens -> Logouts]

\* The answers a logout can still get, none when it is not under way.
AnswersLeft(logout) ==
    CASE logout.at = "asked" -> 2 * (RetryCount - logout.errors)
      [] logout.at = "refreshing" -> 2 * (RetryCount - logout.errors) + 1
      [] logout.at = "idle" -> 0

\* A logout never goes round in circles: every answer, whatever the server says
\* and whatever other logins and logouts did to the token in the meantime,
\* leaves it fewer than before, and its end drops the token.  Only the end of
\* the process stops it earlier.
LogoutProgresses ==
    [][\A m \in LoggingOut :
           kakaoLogout'[m] # kakaoLogout[m] =>
               \/ /\ AnswersLeft(kakaoLogout'[m]) < AnswersLeft(kakaoLogout[m])
                  /\ kakaoLogout'[m].at = "idle" => token' = NoToken
               \/ RestartKakao]_kakaoVars
=============================================================================
