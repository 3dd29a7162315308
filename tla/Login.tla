------------------------------- MODULE Login -------------------------------
(***************************************************************************)
(* MangoPlateCloneApp: logging in and out.  The screens are composed with  *)
(* the two sessions they ask for, and with an end of the process at any    *)
(* time, after which the app shows a login screen again, whoever is still  *)
(* signed in.                                                              *)
(***************************************************************************)
EXTENDS FirebaseAuth, KakaoSession, FiniteSets

CONSTANT MaxUnderWay  \* bound on the requests under way at one time

VARIABLES
    screens,    \* how many screens there are, the last is in front
    sheet,      \* the login screen over which a consent sheet is up, or 0
    unsettled,  \* history: what the last logout or launch left behind, and
                \* logins the user saw nothing of
    entry       \* history: the login that brought up the main screen in
                \* front with no other request or sheet beside it

vars == <<firebaseVars, kakaoVars, screens, sheet, unsettled, entry>>

NoEntry == [with |-> "none", account |-> NoAccount]

OnLogin == screens % 2 = 1
OnMain == ~OnLogin

RequestsUnderWay ==
    Cardinality(SigningIn) + Cardinality(LoggingIn) + Cardinality(LoggingOut)

Init ==
    /\ FirebaseInit
    /\ KakaoInit
    /\ screens = 1
    /\ sheet = 0
    /\ unsettled = FALSE
    /\ entry = NoEntry

-----------------------------------------------------------------------------
(* present(MainViewController) by the login screen k.  UIKit ignores it    *)
(* when k presents something already: another screen, or the browser of a  *)
(* consent sheet (Apple's sheet is no view controller of the app).         *)

MainAppears(k, how) ==
    /\ k = screens
    /\ screens < MaxScreens
    /\ screens' = screens + 1
    /\ entry' = how
    /\ UNCHANGED unsettled

PresentIgnored(k) ==
    /\ k # screens \/ k = sheet
    /\ unsettled' = (unsettled \/ k = screens)
    /\ UNCHANGED <<screens, entry>>

PresentMain(k, how) == MainAppears(k, how) \/ PresentIgnored(k)

-----------------------------------------------------------------------------
(* The login screen.                                                       *)

\* googleLoginButtonHandle, kakoLoginButtonHandle, appleLoginButtonHandle
SheetOpened ==
    /\ OnLogin
    /\ sheet = 0
    /\ sheet' = screens
    /\ UNCHANGED <<firebaseVars, kakaoVars, screens, unsettled, entry>>

SheetCancelled ==
    /\ sheet # 0
    /\ sheet' = 0
    /\ UNCHANGED <<firebaseVars, kakaoVars, screens, unsettled, entry>>

\* A second request of one screen to one session waits for the first: the
\* same two requests are asked from two screens.
GoogleAgreed(a) ==
    /\ sheet # 0
    /\ signIn[sheet].at = "idle"
    /\ RequestsUnderWay < MaxUnderWay
    /\ AskSignIn(sheet, a)
    /\ sheet' = 0
    /\ UNCHANGED <<kakaoVars, screens, unsettled, entry>>

KakaoAgreed(a) ==
    /\ sheet # 0
    /\ kakaoLogin[sheet] = NoAccount
    /\ RequestsUnderWay < MaxUnderWay
    /\ AskToken(sheet, a)
    /\ sheet' = 0
    /\ UNCHANGED <<firebaseVars, screens, unsettled, entry>>

\* authorizationController(didCompleteWithAuthorization:), the sheet is gone.
AppleAgreed ==
    /\ sheet # 0
    /\ sheet' = 0
    /\ IF sheet = screens THEN MainAppears(sheet, NoEntry)
                          ELSE PresentIgnored(sheet)
    /\ UNCHANGED <<firebaseVars, kakaoVars>>

\* jumpLoginButtonHandle
SkipLogin ==
    /\ OnLogin
    /\ sheet = 0
    /\ MainAppears(screens, NoEntry)
    /\ UNCHANGED <<firebaseVars, kakaoVars, sheet>>

\* The work queue finishes a sign-in, which moves nothing on the screen.
FirebaseStep ==
    /\ \/ \E k \in LoginScreens, registered \in BOOLEAN :
              SignInFinished(k, registered)
       \/ \E k \in LoginScreens : GiveUpSignIn(k)
       \/ \E loaded \in BOOLEAN : Unlocked(loaded)
    /\ UNCHANGED <<kakaoVars, screens, sheet, unsettled, entry>>

\* How a main screen is entered after a sign-in that registered an account
\* while nothing was beside it.
GoogleEntry(k) ==
    IF SigningIn = {k} /\ sheet = 0 /\ signIn[k].account # NoAccount
    THEN [with |-> "google", account |-> signIn[k].account]
    ELSE NoEntry

\* The completion of Auth.signIn ignores the error: the main screen comes
\* either way.
SignedIn(k) ==
    /\ TakeCompletion(k)
    /\ PresentMain(k, GoogleEntry(k))
    /\ UNCHANGED <<kakaoVars, sheet>>

KakaoEntry(k) ==
    IF LoggingIn = {k} /\ LoggingOut = {} /\ sheet = 0
    THEN [with |-> "kakao", account |-> kakaoLogin[k]]
    ELSE NoEntry

\* The onNext and onError of loginWithKakaoAccount.
KakaoLoggedIn(k) ==
    /\ TokenReceived(k)
    /\ PresentMain(k, KakaoEntry(k))
    /\ UNCHANGED <<firebaseVars, sheet>>

KakaoRefused(k) ==
    /\ TokenRefused(k)
    /\ UNCHANGED <<firebaseVars, screens, sheet, unsettled, entry>>

-----------------------------------------------------------------------------
(* The main screen.                                                        *)

\* What a logout cannot settle: a login still under way, an error of the
\* keychain, a user who is in the keychain but was never read.
CannotSettle(saved) ==
    \/ SigningIn # {}
    \/ LoggingIn # {}
    \/ currentUser # NoAccount /\ ~saved
    \/ currentUser # storedUser

\* Mutant: logOutGoogle is forgotten.
LogOutKakaoOnly(saved) ==
    /\ OnMain
    /\ sheet = 0
    /\ screens < MaxScreens
    /\ RequestsUnderWay < MaxUnderWay
    /\ screens' = screens + 1
    /\ AskLogout(screens)
    /\ unsettled' = CannotSettle(saved)
    /\ entry' = NoEntry
    /\ UNCHANGED <<firebaseVars, sheet>>

\* logOutButtonHandle: the login screen first, then logOutKakao, which only
\* sends a request, and logOutGoogle, whose error is only printed.  The login
\* screens the last two would present are ignored, for one is presented.
LogOut(saved) ==
    /\ OnMain
    /\ sheet = 0
    /\ screens < MaxScreens
    /\ RequestsUnderWay < MaxUnderWay
    /\ screens' = screens + 1
    /\ AskLogout(screens)
    /\ SignOut(saved)
    /\ unsettled' = CannotSettle(saved)
    /\ entry' = NoEntry
    /\ UNCHANGED sheet

KakaoLogoutStep(m) ==
    /\ LogoutStep(m)
    /\ UNCHANGED <<firebaseVars, screens, sheet, unsettled, entry>>

-----------------------------------------------------------------------------
\* The process ends and is launched again, with a login screen; nothing asks
\* the sessions whether somebody is signed in.
Relaunch(loaded) ==
    /\ RestartFirebase(loaded)
    /\ RestartKakao
    /\ screens' = 1
    /\ sheet' = 0
    /\ unsettled' = (storedUser # NoAccount \/ token # NoToken)
    /\ entry' = NoEntry

Next ==
    \/ SheetOpened
    \/ SheetCancelled
    \/ \E a \in Accounts : GoogleAgreed(a) \/ KakaoAgreed(a)
    \/ AppleAgreed
    \/ SkipLogin
    \/ FirebaseStep
    \/ \E k \in LoginScreens : SignedIn(k) \/ KakaoLoggedIn(k) \/ KakaoRefused(k)
    \/ \E saved \in BOOLEAN : LogOut(saved)
    \/ \E m \in MainScreens : KakaoLogoutStep(m)
    \/ \E loaded \in BOOLEAN : Relaunch(loaded)

\* URLSession answers every request, with a timeout if need be.
Spec ==
    /\ Init
    /\ [][Next]_vars
    /\ \A m \in MainScreens : WF_vars(KakaoLogoutStep(m))

-----------------------------------------------------------------------------
(* Properties.                                                             *)

\* Type invariant.
TypeOK ==
    /\ FirebaseTypeOK
    /\ KakaoTypeOK
    /\ screens \in 1..MaxScreens
    /\ sheet \in {0} \cup LoginScreens
    /\ unsettled \in BOOLEAN
    /\ entry \in [with : {"none", "google", "kakao"}, account : MaybeAccount]

\* On a login screen with nothing under way nobody is signed in, neither in
\* memory nor on disk, neither with Firebase nor with Kakao, however logins,
\* logouts, refreshed tokens and restarts followed one another before; unless
\* the last logout or launch could not settle it, or a login was covered.
SignedOutOnLogin ==
    (OnLogin /\ SigningIn = {} /\ LoggingIn = {} /\ LoggingOut = {} /\ ~unsettled)
        => currentUser = NoAccount /\ storedUser = NoAccount /\ token = NoToken

\* Whoever came in with Kakao stays, with a token that is all theirs: no late
\* logout, refresh or login takes it away or mixes another account into it, if
\* none was under way when the main screen came.
TokenKept ==
    (OnMain /\ entry.with = "kakao")
        => token = [access |-> entry.account, refresh |-> entry.account]

\* Whoever came in with Google is the user of Firebase for the whole stay,
\* although the account was set on the work queue some time before the main
\* screen came, and can be read from the keychain again later.
UserKept ==
    (OnMain /\ entry.with = "google")
        => currentUser = entry.account /\ storedUser = entry.account

\* A logout gives up after RetryCount refreshed tokens and drops the token,
\* even if the server calls every one invalid, unless the process ends.
LogoutDropsToken ==
    \A m \in MainScreens :
        m \in LoggingOut ~> (token = NoToken \/ screens = 1)

\* The comment in the completion of Auth.signIn: what follows is done once the
\* user is registered.
MainAfterRegistration ==
    [][\A k \in LoginScreens :
           (SignedIn(k) /\ screens' # screens) => currentUser # NoAccount]_vars
=============================================================================
