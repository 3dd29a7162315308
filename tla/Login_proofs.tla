---------------------------- MODULE Login_proofs ----------------------------
(* Proofs about logging in and out, for piles of screens of any height, any *)
(* accounts and any number of requests under way.                           *)
EXTENDS Login, Sessions_proofs

(***************************************************************************)
(* The screens, and what they ask of the sessions.                         *)
(***************************************************************************)
Entries == [with : {"none", "google", "kakao"}, account : MaybeAccount]

PileOK ==
    /\ screens \in 1..MaxScreens
    /\ sheet \in {0} \cup LoginScreens
    /\ unsettled \in BOOLEAN
    /\ entry \in Entries

\* A main screen that is in front or yet to come has asked for no logout.
LogoutsBehind ==
    \A m \in MainScreens : m >= screens => kakaoLogout[m].at = "idle"

TypeInv == TypeOK /\ ErrorsLeft /\ LogoutsBehind

LEMMA TypeParts ==
    TypeInv <=> FirebaseTypeOK /\ KakaoInv /\ PileOK /\ LogoutsBehind
BY DEF TypeInv, TypeOK, KakaoInv, PileOK, Entries

LEMMA NoEntryTyped == NoEntry \in Entries
BY DEF NoEntry, Entries, MaybeAccount

LEMMA FrontScreen ==
    ASSUME TypeOK
    PROVE  /\ OnLogin => screens \in LoginScreens
           /\ OnMain => screens \in MainScreens
           /\ sheet # 0 => sheet \in LoginScreens
BY ScreensAssumption DEF TypeOK, OnLogin, OnMain, LoginScreens, MainScreens

\* What the completion of a login does to the pile, without the history.
LEMMA PresentType ==
    ASSUME PileOK, NEW k, NEW how \in Entries, PresentMain(k, how)
    PROVE  /\ screens' \in 1..MaxScreens
           /\ unsettled' \in BOOLEAN
           /\ entry' \in Entries
<1>1. CASE MainAppears(k, how)
  <2>1. screens' \in 1..MaxScreens
    BY <1>1, ScreensAssumption DEF MainAppears, PileOK
  <2> QED BY <1>1, <2>1 DEF MainAppears, PileOK
<1>2. CASE PresentIgnored(k)
  <2>1. unsettled' \in BOOLEAN
    BY <1>2, Zenon DEF PresentIgnored, PileOK
  <2> QED BY <1>2, <2>1 DEF PresentIgnored, PileOK
<1> QED BY <1>1, <1>2 DEF PresentMain

LEMMA InitType == Init => TypeInv
<1> SUFFICES ASSUME Init PROVE TypeInv
  OBVIOUS
<1>1. FirebaseTypeOK /\ KakaoInv
  BY FirebaseInitType, KakaoInitType DEF Init
<1>2. unsettled \in BOOLEAN
  BY Zenon DEF Init
<1>3. PileOK
  BY <1>2, ScreensAssumption, NoEntryTyped DEF Init, PileOK
<1>4. LogoutsBehind
  BY DEF Init, KakaoInit, NoLogout, LogoutsBehind
<1> QED BY <1>1, <1>3, <1>4, TypeParts

\* Every step of the app is one that any client of a session may take: a screen
\* asks a session for one thing at a time.
LEMMA SessionsStep ==
    ASSUME TypeInv, [Next]_vars
    PROVE  [FirebaseNext]_firebaseVars /\ [KakaoNext]_kakaoVars
<1>0. /\ OnLogin => screens \in LoginScreens
      /\ OnMain => screens \in MainScreens
      /\ sheet # 0 => sheet \in LoginScreens
  BY FrontScreen DEF TypeInv
<1>1. CASE \/ SheetOpened \/ SheetCancelled \/ AppleAgreed \/ SkipLogin
           \/ UNCHANGED vars
  BY <1>1 DEF SheetOpened, SheetCancelled, AppleAgreed, SkipLogin, vars
<1>2. ASSUME NEW a \in Accounts, GoogleAgreed(a) \/ KakaoAgreed(a)
      PROVE  [FirebaseNext]_firebaseVars /\ [KakaoNext]_kakaoVars
  BY <1>0, <1>2 DEF GoogleAgreed, KakaoAgreed, FirebaseNext, KakaoNext
<1>3. CASE FirebaseStep
  BY <1>3 DEF FirebaseStep, FirebaseNext
<1>4. ASSUME NEW k \in LoginScreens,
             SignedIn(k) \/ KakaoLoggedIn(k) \/ KakaoRefused(k)
      PROVE  [FirebaseNext]_firebaseVars /\ [KakaoNext]_kakaoVars
  BY <1>4 DEF SignedIn, KakaoLoggedIn, KakaoRefused, FirebaseNext, KakaoNext
<1>5. ASSUME NEW saved \in BOOLEAN, LogOut(saved)
      PROVE  [FirebaseNext]_firebaseVars /\ [KakaoNext]_kakaoVars
  <2>1. screens \in MainScreens /\ SignOut(saved) /\ AskLogout(screens)
    BY <1>0, <1>5 DEF LogOut
  <2>2. kakaoLogout[screens].at = "idle"
    BY <2>1 DEF TypeInv, LogoutsBehind, MainScreens
  <2> QED BY <2>1, <2>2 DEF FirebaseNext, KakaoNext
<1>6. ASSUME NEW m \in MainScreens, KakaoLogoutStep(m)
      PROVE  [FirebaseNext]_firebaseVars /\ [KakaoNext]_kakaoVars
  BY <1>6 DEF KakaoLogoutStep, KakaoNext
<1>7. ASSUME NEW loaded \in BOOLEAN, Relaunch(loaded)
      PROVE  [FirebaseNext]_firebaseVars /\ [KakaoNext]_kakaoVars
  BY <1>7 DEF Relaunch, FirebaseNext, KakaoNext
<1> QED BY <1>1, <1>2, <1>3, <1>4, <1>5, <1>6, <1>7 DEF Next

LEMMA PileStep ==
    ASSUME TypeInv, [Next]_vars
    PROVE  PileOK'
<1>0. PileOK /\ TypeOK /\ FirebaseTypeOK /\ KakaoTypeOK
  BY TypeParts DEF TypeInv, KakaoInv
<1>1. CASE SheetOpened
  BY <1>0, <1>1, FrontScreen DEF SheetOpened, PileOK
<1>2. CASE SheetCancelled
  BY <1>0, <1>2 DEF SheetCancelled, PileOK
<1>3. ASSUME NEW a \in Accounts, GoogleAgreed(a) \/ KakaoAgreed(a) PROVE PileOK'
  BY <1>0, <1>3 DEF GoogleAgreed, KakaoAgreed, PileOK
<1>4. CASE AppleAgreed
  <2>1. PresentMain(sheet, NoEntry) /\ sheet' = 0
    BY <1>4 DEF AppleAgreed, PresentMain
  <2> QED BY <1>0, <2>1, NoEntryTyped, PresentType DEF PileOK
<1>5. CASE SkipLogin
  <2>1. PresentMain(screens, NoEntry) /\ UNCHANGED sheet
    BY <1>5 DEF SkipLogin, PresentMain
  <2> QED BY <1>0, <2>1, NoEntryTyped, PresentType DEF PileOK
<1>6. CASE FirebaseStep
  BY <1>0, <1>6 DEF FirebaseStep, PileOK
<1>7. ASSUME NEW k \in LoginScreens, SignedIn(k) PROVE PileOK'
  <2>1. GoogleEntry(k) \in Entries
    BY <1>0, NoEntryTyped DEF GoogleEntry, FirebaseTypeOK, SignIns, Entries
  <2> QED BY <1>0, <1>7, <2>1, PresentType DEF SignedIn, PileOK
<1>8. ASSUME NEW k \in LoginScreens, KakaoLoggedIn(k) PROVE PileOK'
  <2>1. KakaoEntry(k) \in Entries
    BY <1>0, NoEntryTyped DEF KakaoEntry, KakaoTypeOK, Entries
  <2> QED BY <1>0, <1>8, <2>1, PresentType DEF KakaoLoggedIn, PileOK
<1>9. ASSUME NEW k \in LoginScreens, KakaoRefused(k) PROVE PileOK'
  BY <1>0, <1>9 DEF KakaoRefused, PileOK
<1>10. ASSUME NEW saved \in BOOLEAN, LogOut(saved) PROVE PileOK'
  <2>1. unsettled' \in BOOLEAN
    BY <1>10 DEF LogOut, CannotSettle
  <2> QED BY <1>0, <1>10, <2>1, NoEntryTyped, ScreensAssumption DEF LogOut, PileOK
<1>11. ASSUME NEW m \in MainScreens, KakaoLogoutStep(m) PROVE PileOK'
  BY <1>0, <1>11 DEF KakaoLogoutStep, PileOK
<1>12. ASSUME NEW loaded \in BOOLEAN, Relaunch(loaded) PROVE PileOK'
  <2>1. unsettled' \in BOOLEAN
    BY <1>12, Zenon DEF Relaunch
  <2> QED BY <1>12, <2>1, NoEntryTyped, ScreensAssumption DEF Relaunch, PileOK
<1>13. CASE UNCHANGED vars
  BY <1>0, <1>13 DEF vars, PileOK
<1> QED
  BY <1>1, <1>2, <1>3, <1>4, <1>5, <1>6, <1>7, <1>8, <1>9, <1>10, <1>11,
     <1>12, <1>13
  DEF Next

\* A main screen asks for a logout when it leaves the front for good.
LEMMA BehindStep ==
    ASSUME TypeInv, PileOK', [Next]_vars
    PROVE  LogoutsBehind'
<1>0. /\ LogoutsBehind /\ KakaoTypeOK
      /\ screens \in Nat /\ screens' \in Nat
  BY TypeParts DEF TypeInv, TypeOK, PileOK
<1>1. ASSUME UNCHANGED kakaoLogout, screens' >= screens PROVE LogoutsBehind'
  BY <1>0, <1>1 DEF LogoutsBehind, MainScreens
<1>2. ASSUME NEW saved \in BOOLEAN, LogOut(saved) PROVE LogoutsBehind'
  BY <1>0, <1>2 DEF LogOut, AskLogout, LogoutsBehind, MainScreens, KakaoTypeOK
<1>3. ASSUME NEW m \in MainScreens, KakaoLogoutStep(m) PROVE LogoutsBehind'
  <2>1. kakaoLogout[m].at # "idle"
    BY <1>3 DEF KakaoLogoutStep, LogoutStep, LogoutAnswered, TokenInvalid,
                Refreshed, RefreshEnds
  <2>2. \A n \in MainScreens : n # m => kakaoLogout'[n] = kakaoLogout[n]
    BY <1>0, <1>3
    DEF KakaoLogoutStep, LogoutStep, LogoutAnswered, TokenInvalid, Refreshed,
        RefreshEnds, LogoutEnds, KakaoTypeOK
  <2>3. UNCHANGED screens
    BY <1>3 DEF KakaoLogoutStep
  <2> QED BY <1>0, <2>1, <2>2, <2>3 DEF LogoutsBehind
<1>4. ASSUME NEW loaded \in BOOLEAN, Relaunch(loaded) PROVE LogoutsBehind'
  BY <1>4 DEF Relaunch, RestartKakao, LogoutsBehind, NoLogout
<1>5. ASSUME NEW k, NEW how, PresentMain(k, how) PROVE screens' >= screens
  BY <1>0, <1>5 DEF PresentMain, MainAppears, PresentIgnored
<1>6. CASE AppleAgreed \/ SkipLogin
  <2>1. PresentMain(sheet, NoEntry) \/ PresentMain(screens, NoEntry)
    BY <1>6 DEF AppleAgreed, SkipLogin, PresentMain
  <2> QED BY <1>1, <1>5, <1>6, <2>1 DEF AppleAgreed, SkipLogin, kakaoVars
<1>7. ASSUME NEW k \in LoginScreens, SignedIn(k) \/ KakaoLoggedIn(k)
      PROVE  LogoutsBehind'
  BY <1>1, <1>5, <1>7 DEF SignedIn, KakaoLoggedIn, TokenReceived, kakaoVars
<1>8. CASE UNCHANGED <<kakaoLogout, screens>>
  BY <1>0, <1>1, <1>8
<1>9. \/ AppleAgreed \/ SkipLogin
      \/ \E k \in LoginScreens : SignedIn(k) \/ KakaoLoggedIn(k)
      \/ \E saved \in BOOLEAN : LogOut(saved)
      \/ \E m \in MainScreens : KakaoLogoutStep(m)
      \/ \E loaded \in BOOLEAN : Relaunch(loaded)
      \/ UNCHANGED <<kakaoLogout, screens>>
  BY DEF Next, SheetOpened, SheetCancelled, GoogleAgreed, KakaoAgreed, AskToken,
         FirebaseStep, KakaoRefused, TokenRefused, vars, kakaoVars
<1> QED BY <1>2, <1>3, <1>4, <1>6, <1>7, <1>8, <1>9

LEMMA TypeInvHolds == Spec => []TypeInv
<1>1. ASSUME TypeInv, [Next]_vars PROVE TypeInv'
  <2>1. FirebaseTypeOK' /\ KakaoInv'
    BY <1>1, TypeParts, SessionsStep, FirebaseTypeStep, KakaoTypeStep
  <2>2. PileOK' /\ LogoutsBehind'
    BY <1>1, PileStep, BehindStep
  <2> QED BY <2>1, <2>2 DEF TypeInv, TypeOK, KakaoInv, PileOK, Entries
<1> QED BY <1>1, InitType, PTL DEF Spec

\* No logout asks for a token more than RetryCount times, and every variable
\* keeps its type.
THEOREM SessionsTypeCorrect == Spec => []TypeOK
BY TypeInvHolds, PTL DEF TypeInv

\* The app uses both sessions as any client may: what is proved of FirebaseSpec
\* and of KakaoSpec holds of it.
THEOREM AppIsAClient == Spec => FirebaseSpec /\ KakaoSpec
<1>1. Init => FirebaseInit /\ KakaoInit
  BY DEF Init
<1> QED
  BY <1>1, SessionsStep, TypeInvHolds, PTL DEF Spec, FirebaseSpec, KakaoSpec

\* The user in memory is the one in the keychain, through failing writes and
\* reads, late answers and restarts.
THEOREM MemoryIsStored == Spec => []MemoryFollowsKeychain
BY AppIsAClient, FirebaseFollowsKeychain, PTL

\* A logout that the screens have asked for is answered at most 2 * RetryCount
\* times, and its end drops the token.
THEOREM LogoutsProgress == Spec => LogoutProgresses
BY AppIsAClient, KakaoLogoutProgresses, PTL

(***************************************************************************)
(* The requests under way: who has asked, and which completions wait.      *)
(***************************************************************************)

\* Screens that are yet to come have asked for nothing.
AskedByPresent ==
    \A k \in LoginScreens :
        k > screens => signIn[k].at = "idle" /\ kakaoLogin[k] = NoAccount

\* A sheet is up over the login screen in front, or over the one a main screen
\* has just covered.
SheetInFront == sheet # 0 => sheet = screens \/ sheet + 1 = screens

\* The main queue holds the completion of every sign-in that is done, once.
QueueOK ==
    /\ \A p \in 1..Len(finished) : signIn[finished[p]].at = "done"
    /\ \A p, q \in 1..Len(finished) : finished[p] = finished[q] => p = q
    /\ \A k \in LoginScreens :
           signIn[k].at = "done" => \E p \in 1..Len(finished) : finished[p] = k
    /\ \A k \in LoginScreens : signIn[k].at = "asked" => signIn[k].account # NoAccount

PlacesInv == AskedByPresent /\ SheetInFront /\ QueueOK

LEMMA LoginScreen ==
    \A k \in LoginScreens :
        k \in Nat /\ k > 0 /\ k % 2 = 1 /\ (k + 1) % 2 = 0 /\ k + 1 \notin LoginScreens
BY DEF LoginScreens

LEMMA Presented ==
    ASSUME TypeOK, NEW k \in LoginScreens, NEW how, PresentMain(k, how)
    PROVE  \/ /\ k = screens
              /\ screens' = screens + 1
              /\ OnLogin
              /\ ~OnLogin'
              /\ UNCHANGED unsettled
              /\ entry' = how
           \/ /\ UNCHANGED <<screens, entry>>
              /\ unsettled => unsettled'
              /\ k = screens => unsettled'
<1>1. CASE MainAppears(k, how)
  <2>1. k = screens /\ screens' = screens + 1 /\ UNCHANGED unsettled /\ entry' = how
    BY <1>1 DEF MainAppears
  <2>2. OnLogin /\ ~OnLogin'
    BY <2>1, LoginScreen DEF OnLogin
  <2> QED BY <2>1, <2>2
<1>2. CASE PresentIgnored(k)
  BY <1>2 DEF PresentIgnored
<1> QED BY <1>1, <1>2 DEF PresentMain

LEMMA PlacesHold == Spec => []PlacesInv
<1>1. Init => PlacesInv
  BY DEF Init, FirebaseInit, KakaoInit, PlacesInv, AskedByPresent, SheetInFront,
         QueueOK, NoSignIn
<1>2. TypeOK /\ PlacesInv /\ [Next]_vars => PlacesInv'
  <2> SUFFICES ASSUME TypeOK, PlacesInv, [Next]_vars PROVE PlacesInv'
    OBVIOUS
  <2>0. /\ AskedByPresent /\ SheetInFront /\ QueueOK
        /\ screens \in Nat /\ sheet \in Nat
        /\ signIn \in [LoginScreens -> SignIns]
        /\ finished \in Seq(LoginScreens)
        /\ kakaoLogin \in [LoginScreens -> MaybeAccount]
    BY DEF PlacesInv, TypeOK, FirebaseTypeOK, KakaoTypeOK, LoginScreens
  <2>a. UNCHANGED <<signIn, finished>> => QueueOK'
    BY <2>0 DEF QueueOK
  <2>b. ASSUME UNCHANGED <<signIn, kakaoLogin>>, screens' \in Nat, screens' >= screens
        PROVE  AskedByPresent'
    BY <2>b, <2>0 DEF AskedByPresent, LoginScreens
  <2>c. UNCHANGED <<screens, sheet>> => SheetInFront'
    BY <2>0 DEF SheetInFront
  <2>1. CASE SheetOpened
    <3>1. SheetInFront'
      BY <2>1 DEF SheetOpened, SheetInFront
    <3> QED BY <2>1, <2>0, <3>1, <2>a, <2>b
            DEF SheetOpened, firebaseVars, kakaoVars, PlacesInv
  <2>2. CASE SheetCancelled
    <3>1. SheetInFront'
      BY <2>2 DEF SheetCancelled, SheetInFront
    <3> QED BY <2>2, <2>0, <3>1, <2>a, <2>b
            DEF SheetCancelled, firebaseVars, kakaoVars, PlacesInv
  <2>3. ASSUME NEW a \in Accounts, GoogleAgreed(a) PROVE PlacesInv'
    <3>1. SheetInFront'
      BY <2>3 DEF GoogleAgreed, SheetInFront
    <3>2. sheet \in LoginScreens /\ sheet <= screens /\ a # NoAccount
      BY <2>3, <2>0, FrontScreen, AccountsAssumption DEF GoogleAgreed, SheetInFront
    <3>3. /\ signIn' = [signIn EXCEPT ![sheet] = [at |-> "asked", account |-> a]]
          /\ UNCHANGED <<finished, kakaoLogin, screens>>
      BY <2>3 DEF GoogleAgreed, AskSignIn, kakaoVars
    <3>4. AskedByPresent'
      BY <2>0, <3>2, <3>3, LoginScreen DEF AskedByPresent
    <3>5. QueueOK'
      <4>1. \A p \in 1..Len(finished) : finished[p] \in LoginScreens /\ finished[p] # sheet
        BY <2>3, <2>0 DEF GoogleAgreed, QueueOK
      <4> QED BY <2>3, <2>0, <3>2, <3>3, <4>1 DEF QueueOK, GoogleAgreed
    <3> QED BY <3>1, <3>4, <3>5 DEF PlacesInv
  <2>4. ASSUME NEW a \in Accounts, KakaoAgreed(a) PROVE PlacesInv'
    <3>1. SheetInFront'
      BY <2>4 DEF KakaoAgreed, SheetInFront
    <3>2. sheet \in LoginScreens /\ sheet <= screens
      BY <2>4, <2>0, FrontScreen DEF KakaoAgreed, SheetInFront
    <3>3. AskedByPresent'
      <4>1. kakaoLogin' = [kakaoLogin EXCEPT ![sheet] = a] /\ UNCHANGED <<signIn, screens>>
        BY <2>4 DEF KakaoAgreed, AskToken, firebaseVars
      <4> QED BY <4>1, <2>0, <3>2, LoginScreen DEF AskedByPresent
    <3> QED BY <2>4, <3>1, <3>3, <2>a DEF KakaoAgreed, firebaseVars, PlacesInv
  <2>5. CASE AppleAgreed
    <3>1. PresentMain(sheet, NoEntry) /\ sheet \in LoginScreens /\ sheet' = 0
          /\ UNCHANGED <<signIn, finished, kakaoLogin>>
      BY <2>5, FrontScreen DEF AppleAgreed, PresentMain, firebaseVars, kakaoVars
    <3>2. screens' \in Nat /\ screens' >= screens
      BY <3>1, <2>0, Presented
    <3> QED BY <3>1, <3>2, <2>a, <2>b DEF PlacesInv, SheetInFront
  <2>6. CASE SkipLogin
    BY <2>6, <2>0, <2>a, <2>b
    DEF SkipLogin, MainAppears, firebaseVars, kakaoVars, PlacesInv, SheetInFront
  <2>7. CASE FirebaseStep
    <3>1. UNCHANGED <<kakaoLogin, screens, sheet>>
      BY <2>7 DEF FirebaseStep, kakaoVars
    <3>2. ASSUME NEW k \in LoginScreens, NEW registered \in BOOLEAN,
                 SignInFinished(k, registered)
          PROVE  PlacesInv'
      <4>1. /\ signIn[k].at = "asked"
            /\ finished' = Append(finished, k)
            /\ signIn' = [signIn EXCEPT ![k] =
                    [at |-> "done",
                     account |-> IF registered THEN signIn[k].account ELSE NoAccount]]
        BY <3>2, <2>0 DEF SignInFinished, SignIns
      <4>2. AskedByPresent'
        BY <4>1, <3>1, <2>0 DEF AskedByPresent
      <4>3. \A p \in 1..Len(finished) : finished[p] \in LoginScreens /\ finished[p] # k
        BY <4>1, <2>0 DEF QueueOK
      <4>4. /\ Len(finished') = Len(finished) + 1
            /\ \A p \in 1..Len(finished) : finished'[p] = finished[p]
            /\ finished'[Len(finished) + 1] = k
            /\ Len(finished) \in Nat
        BY <4>1, <2>0
      <4>5. QueueOK'
        <5>1. \A p \in 1..Len(finished') : signIn'[finished'[p]].at = "done"
          BY <4>1, <4>3, <4>4, <2>0 DEF QueueOK
        <5>2. \A p, q \in 1..Len(finished') : finished'[p] = finished'[q] => p = q
          BY <4>3, <4>4, <2>0 DEF QueueOK
        <5>3. \A j \in LoginScreens :
                  signIn'[j].at = "done" => \E p \in 1..Len(finished') : finished'[p] = j
          BY <4>1, <4>4, <2>0 DEF QueueOK
        <5>4. \A j \in LoginScreens :
                  signIn'[j].at = "asked" => signIn'[j].account # NoAccount
          BY <4>1, <2>0 DEF QueueOK
        <5> QED BY <5>1, <5>2, <5>3, <5>4 DEF QueueOK
      <4> QED BY <4>2, <4>5, <3>1, <2>c DEF PlacesInv
    <3>3. ASSUME NEW k \in LoginScreens, GiveUpSignIn(k) PROVE PlacesInv'
      <4>1. /\ signIn[k].at = "asked"
            /\ signIn' = [signIn EXCEPT ![k] = NoSignIn]
            /\ UNCHANGED finished
        BY <3>3 DEF GiveUpSignIn
      <4>2. AskedByPresent'
        BY <4>1, <3>1, <2>0 DEF AskedByPresent, NoSignIn
      <4>3. \A p \in 1..Len(finished) : finished[p] \in LoginScreens /\ finished[p] # k
        BY <4>1, <2>0 DEF QueueOK
      <4>4. QueueOK'
        BY <4>1, <4>3, <2>0 DEF QueueOK, NoSignIn
      <4> QED BY <4>2, <4>4, <3>1, <2>c DEF PlacesInv
    <3>4. ASSUME NEW loaded \in BOOLEAN, Unlocked(loaded) PROVE PlacesInv'
      BY <3>4, <3>1, <2>0, <2>a, <2>b, <2>c DEF Unlocked, PlacesInv
    <3> QED BY <2>7, <3>2, <3>3, <3>4 DEF FirebaseStep
  <2>8. ASSUME NEW k \in LoginScreens, SignedIn(k) PROVE PlacesInv'
    <3>1. /\ finished # <<>> /\ k = Head(finished) /\ finished' = Tail(finished)
          /\ signIn' = [signIn EXCEPT ![k] = NoSignIn]
          /\ UNCHANGED <<kakaoLogin, sheet>>
          /\ PresentMain(k, GoogleEntry(k))
      BY <2>8 DEF SignedIn, TakeCompletion, kakaoVars
    <3>2. \/ screens' = screens + 1 /\ k = screens
          \/ screens' = screens
      BY <3>1, Presented
    <3>3. AskedByPresent'
      BY <3>1, <3>2, <2>0 DEF AskedByPresent, NoSignIn, LoginScreens
    <3>4. SheetInFront'
      <4>1. sheet # 0 => sheet \in LoginScreens
        BY FrontScreen
      <4>2. sheet' = sheet
        BY <3>1
      <4>3. CASE screens' = screens
        BY <4>2, <4>3, <2>0 DEF SheetInFront
      <4>4. CASE screens' = screens + 1 /\ k = screens
        <5>1. ~(sheet # 0 /\ sheet + 1 = screens)
          BY <4>1, <4>4, LoginScreen
        <5> QED BY <4>2, <4>4, <5>1, <2>0 DEF SheetInFront
      <4> QED BY <3>2, <4>3, <4>4
    <3>5. /\ Len(finished) \in Nat \ {0}
          /\ Len(finished') = Len(finished) - 1
          /\ \A p \in 1..Len(finished') : finished'[p] = finished[p + 1]
          /\ finished[1] = k
      BY <3>1, <2>0
    <3>6. \A p \in 1..Len(finished') :
              finished'[p] \in LoginScreens /\ finished'[p] # k
      BY <3>5, <2>0 DEF QueueOK
    <3>7. QueueOK'
      <4>1. \A p \in 1..Len(finished') : signIn'[finished'[p]].at = "done"
        BY <3>1, <3>5, <3>6, <2>0 DEF QueueOK
      <4>2. \A p, q \in 1..Len(finished') : finished'[p] = finished'[q] => p = q
        BY <3>5, <2>0 DEF QueueOK
      <4>3. ASSUME NEW j \in LoginScreens, signIn'[j].at = "done"
            PROVE  \E p \in 1..Len(finished') : finished'[p] = j
        <5>1. j # k /\ signIn[j].at = "done"
          BY <3>1, <2>0, <4>3 DEF NoSignIn
        <5>2. PICK p \in 1..Len(finished) : finished[p] = j
          BY <5>1, <2>0 DEF QueueOK
        <5>3. p - 1 \in 1..Len(finished') /\ finished'[p - 1] = j
          BY <5>1, <5>2, <3>5
        <5> QED BY <5>3
      <4>4. \A j \in LoginScreens :
                signIn'[j].at = "asked" => signIn'[j].account # NoAccount
        BY <3>1, <2>0 DEF QueueOK, NoSignIn
      <4> QED BY <4>1, <4>2, <4>3, <4>4 DEF QueueOK
    <3> QED BY <3>3, <3>4, <3>7 DEF PlacesInv
  <2>9. ASSUME NEW k \in LoginScreens, KakaoLoggedIn(k) PROVE PlacesInv'
    <3>1. /\ kakaoLogin' = [kakaoLogin EXCEPT ![k] = NoAccount]
          /\ UNCHANGED <<signIn, finished, sheet>>
          /\ PresentMain(k, KakaoEntry(k))
      BY <2>9 DEF KakaoLoggedIn, TokenReceived, firebaseVars
    <3>2. \/ screens' = screens + 1 /\ k = screens
          \/ screens' = screens
      BY <3>1, Presented
    <3>3. AskedByPresent'
      BY <3>1, <3>2, <2>0 DEF AskedByPresent, LoginScreens
    <3>4. SheetInFront'
      <4>1. sheet # 0 => sheet \in LoginScreens
        BY FrontScreen
      <4>2. sheet' = sheet
        BY <3>1
      <4>3. CASE screens' = screens
        BY <4>2, <4>3, <2>0 DEF SheetInFront
      <4>4. CASE screens' = screens + 1 /\ k = screens
        <5>1. ~(sheet # 0 /\ sheet + 1 = screens)
          BY <4>1, <4>4, LoginScreen
        <5> QED BY <4>2, <4>4, <5>1, <2>0 DEF SheetInFront
      <4> QED BY <3>2, <4>3, <4>4
    <3> QED BY <3>1, <3>3, <3>4, <2>a DEF PlacesInv
  <2>10. ASSUME NEW k \in LoginScreens, KakaoRefused(k) PROVE PlacesInv'
    <3>1. AskedByPresent'
      BY <2>10, <2>0 DEF KakaoRefused, TokenRefused, firebaseVars, AskedByPresent
    <3> QED BY <2>10, <3>1, <2>a, <2>c DEF KakaoRefused, firebaseVars, PlacesInv
  <2>11. ASSUME NEW saved \in BOOLEAN, LogOut(saved) PROVE PlacesInv'
    <3>1. screens' = screens + 1 /\ sheet = 0 /\ sheet' = 0
          /\ UNCHANGED <<signIn, finished, kakaoLogin>>
      BY <2>11 DEF LogOut, SignOut, AskLogout
    <3> QED BY <3>1, <2>0, <2>a, <2>b DEF PlacesInv, SheetInFront
  <2>12. ASSUME NEW m \in MainScreens, KakaoLogoutStep(m) PROVE PlacesInv'
    <3>1. UNCHANGED <<screens, sheet, signIn, finished, kakaoLogin>>
      BY <2>12 DEF KakaoLogoutStep, LogoutStep, LogoutAnswered, TokenInvalid, Refreshed,
                   RefreshEnds, LogoutEnds, firebaseVars
    <3> QED BY <3>1, <2>0, <2>a, <2>b, <2>c DEF PlacesInv
  <2>13. ASSUME NEW loaded \in BOOLEAN, Relaunch(loaded) PROVE PlacesInv'
    BY <2>13
    DEF Relaunch, RestartFirebase, RestartKakao, PlacesInv, AskedByPresent, SheetInFront,
        QueueOK, NoSignIn
  <2>14. CASE UNCHANGED vars
    BY <2>14, <2>0, <2>a, <2>b, <2>c DEF vars, firebaseVars, kakaoVars, PlacesInv
  <2> QED
    BY <2>1, <2>2, <2>3, <2>4, <2>5, <2>6, <2>7, <2>8, <2>9, <2>10, <2>11,
       <2>12, <2>13, <2>14
    DEF Next
<1> QED BY <1>1, <1>2, SessionsTypeCorrect, PTL DEF Spec

(***************************************************************************)
(* Signed out on a login screen.  There, only the screen in front has      *)
(* anything under way; a user is stored only by its sign-in, which is done *)
(* and about to leave the screen; and a token that is left has a logout    *)
(* coming that drops it.                                                   *)
(***************************************************************************)
SettleInv ==
    (OnLogin /\ ~unsettled) =>
        /\ SigningIn \subseteq {screens}
        /\ LoggingIn \subseteq {screens}
        /\ signIn[screens].at # "done" => storedUser = NoAccount
        /\ token # NoToken => LoggingOut # {}

LEMMA SettleHolds == Spec => []SettleInv
<1>1. Init => SettleInv
  BY DEF Init, FirebaseInit, KakaoInit, SettleInv, SigningIn, LoggingIn, NoSignIn
<1>2. TypeOK /\ PlacesInv /\ SettleInv /\ [Next]_vars => SettleInv'
  <2> SUFFICES ASSUME TypeOK, PlacesInv, SettleInv, [Next]_vars,
                      OnLogin', ~unsettled'
               PROVE  /\ SigningIn' \subseteq {screens'}
                      /\ LoggingIn' \subseteq {screens'}
                      /\ signIn'[screens'].at # "done" => storedUser' = NoAccount
                      /\ token' # NoToken => LoggingOut' # {}
    BY DEF SettleInv
  <2> DEFINE Settled == /\ SigningIn \subseteq {screens}
                        /\ LoggingIn \subseteq {screens}
                        /\ signIn[screens].at # "done" => storedUser = NoAccount
                        /\ token # NoToken => LoggingOut # {}
  <2>0. /\ AskedByPresent /\ SheetInFront /\ QueueOK
        /\ screens \in Nat /\ sheet \in Nat
        /\ signIn \in [LoginScreens -> SignIns]
        /\ finished \in Seq(LoginScreens)
        /\ kakaoLogin \in [LoginScreens -> MaybeAccount]
        /\ kakaoLogout \in [MainScreens -> Logouts]
    BY DEF PlacesInv, TypeOK, FirebaseTypeOK, KakaoTypeOK, LoginScreens
  <2>a. UNCHANGED <<screens, unsettled>> => Settled
    BY DEF SettleInv, OnLogin
  <2>b. UNCHANGED <<screens, unsettled, signIn, kakaoLogin, storedUser, token, kakaoLogout>>
            => Settled'
    BY <2>a DEF SigningIn, LoggingIn, LoggingOut
  \* A login screen is never presented by another one.
  <2>c. ASSUME NEW k \in LoginScreens, NEW how, PresentMain(k, how)
        PROVE  k # screens /\ UNCHANGED <<screens, unsettled>>
    <3>1. ~MainAppears(k, how)
      <4>1. SUFFICES ASSUME MainAppears(k, how) PROVE FALSE
        OBVIOUS
      <4>2. screens' = k + 1
        BY <4>1 DEF MainAppears
      <4> QED BY <4>2, LoginScreen DEF OnLogin
    <3>2. PresentIgnored(k)
      BY <2>c, <3>1 DEF PresentMain
    <3>3. k # screens
      BY <3>2 DEF PresentIgnored
    <3>4. UNCHANGED unsettled
      <4>1. unsettled \in BOOLEAN
        BY DEF TypeOK
      <4>2. unsettled' = (unsettled \/ k = screens)
        BY <3>2 DEF PresentIgnored
      <4>3. ~unsettled /\ ~unsettled'
        BY <4>2
      <4> QED BY <4>1, <4>2, <3>3, Zenon
    <3> QED BY <3>2, <3>3, <3>4 DEF PresentIgnored
  \* A sheet over a login screen in front is over that screen.
  <2>d. ASSUME sheet # 0, UNCHANGED screens PROVE sheet = screens
    <3>1. screens \in LoginScreens /\ sheet \in LoginScreens
      BY <2>d, FrontScreen DEF OnLogin
    <3> QED BY <2>d, <2>0, <3>1, LoginScreen DEF SheetInFront
  <2>1. CASE SheetOpened \/ SheetCancelled
    BY <2>1, <2>b DEF SheetOpened, SheetCancelled, firebaseVars, kakaoVars
  <2>3. ASSUME NEW a \in Accounts, GoogleAgreed(a) PROVE Settled'
    <3>1. /\ sheet = screens /\ sheet \in LoginScreens
          /\ UNCHANGED <<screens, unsettled>>
      BY <2>3, <2>d, FrontScreen DEF GoogleAgreed
    <3>2. /\ signIn' = [signIn EXCEPT ![screens] = [at |-> "asked", account |-> a]]
          /\ signIn[screens].at = "idle"
          /\ UNCHANGED <<storedUser, kakaoLogin, token, kakaoLogout>>
      BY <2>3, <3>1 DEF GoogleAgreed, AskSignIn, kakaoVars
    <3> QED BY <2>0, <2>a, <3>1, <3>2 DEF SigningIn, LoggingIn, LoggingOut
  <2>4. ASSUME NEW a \in Accounts, KakaoAgreed(a) PROVE Settled'
    <3>1. /\ sheet = screens /\ sheet \in LoginScreens
          /\ UNCHANGED <<screens, unsettled>>
      BY <2>4, <2>d, FrontScreen DEF KakaoAgreed
    <3>2. /\ kakaoLogin' = [kakaoLogin EXCEPT ![screens] = a]
          /\ UNCHANGED <<storedUser, signIn, token, kakaoLogout>>
      BY <2>4, <3>1 DEF KakaoAgreed, AskToken, firebaseVars
    <3> QED BY <2>0, <2>a, <3>1, <3>2 DEF SigningIn, LoggingIn, LoggingOut
  <2>5. CASE AppleAgreed
    <3>1. sheet # 0 /\ PresentMain(sheet, NoEntry) /\ sheet \in LoginScreens
      BY <2>5, FrontScreen DEF AppleAgreed, PresentMain
    <3> QED BY <2>d, <2>c, <3>1
  <2>6. CASE SkipLogin
    <3>1. PresentMain(screens, NoEntry) /\ screens \in LoginScreens
      BY <2>6, FrontScreen DEF SkipLogin, PresentMain
    <3> QED BY <2>c, <3>1
  <2>7. CASE FirebaseStep
    <3>1. UNCHANGED <<screens, unsettled, kakaoLogin, token, kakaoLogout>>
      BY <2>7 DEF FirebaseStep, kakaoVars
    <3>2. ASSUME NEW k \in LoginScreens, NEW registered \in BOOLEAN,
                 SignInFinished(k, registered)
          PROVE  Settled'
      <4>1. /\ signIn[k].at = "asked"
            /\ signIn' = [signIn EXCEPT ![k] =
                    [at |-> "done",
                     account |-> IF registered THEN signIn[k].account ELSE NoAccount]]
        BY <3>2, <2>0 DEF SignInFinished
      <4>2. k = screens
        BY <4>1, <2>a, <3>1 DEF SigningIn
      <4> QED BY <2>0, <2>a, <3>1, <4>1, <4>2 DEF SigningIn, LoggingIn, LoggingOut
    <3>3. ASSUME NEW k \in LoginScreens, GiveUpSignIn(k) PROVE Settled'
      <4>1. /\ signIn[k].at = "asked"
            /\ signIn' = [signIn EXCEPT ![k] = NoSignIn]
            /\ UNCHANGED storedUser
        BY <3>3 DEF GiveUpSignIn
      <4>2. k = screens
        BY <4>1, <2>a, <3>1 DEF SigningIn
      <4> QED BY <2>0, <2>a, <3>1, <4>1, <4>2 DEF SigningIn, LoggingIn, LoggingOut, NoSignIn
    <3>4. ASSUME NEW loaded \in BOOLEAN, Unlocked(loaded) PROVE Settled'
      BY <3>4, <3>1, <2>b DEF Unlocked, LoadUser
    <3> QED BY <2>7, <3>2, <3>3, <3>4 DEF FirebaseStep
  <2>8. ASSUME NEW k \in LoginScreens, SignedIn(k) PROVE FALSE
    <3>1. k # screens /\ UNCHANGED <<screens, unsettled>>
      BY <2>8, <2>c DEF SignedIn
    <3>2. signIn[k].at = "done"
      <4>1. 1 \in 1..Len(finished) /\ finished[1] = k
        BY <2>8, <2>0 DEF SignedIn, TakeCompletion
      <4> QED BY <4>1, <2>0 DEF QueueOK
    <3> QED BY <3>1, <3>2, <2>a DEF SigningIn
  <2>9. ASSUME NEW k \in LoginScreens, KakaoLoggedIn(k) PROVE FALSE
    <3>1. k # screens /\ UNCHANGED <<screens, unsettled>>
      BY <2>9, <2>c DEF KakaoLoggedIn
    <3> QED BY <2>9, <3>1, <2>a DEF KakaoLoggedIn, TokenReceived, LoggingIn
  <2>10. ASSUME NEW k \in LoginScreens, KakaoRefused(k) PROVE Settled'
    <3>1. /\ UNCHANGED <<screens, unsettled, signIn, storedUser, token, kakaoLogout>>
          /\ kakaoLogin' = [kakaoLogin EXCEPT ![k] = NoAccount]
      BY <2>10 DEF KakaoRefused, TokenRefused, firebaseVars
    <3> QED BY <2>0, <2>a, <3>1 DEF SigningIn, LoggingIn, LoggingOut
  <2>11. ASSUME NEW saved \in BOOLEAN, LogOut(saved) PROVE Settled'
    <3>1. ~CannotSettle(saved)
      BY <2>11 DEF LogOut
    <3>2. SigningIn = {} /\ LoggingIn = {} /\ UNCHANGED <<signIn, kakaoLogin>>
      BY <2>11, <3>1 DEF LogOut, SignOut, AskLogout, CannotSettle
    <3>3. storedUser' = NoAccount
      BY <2>11, <3>1 DEF LogOut, SignOut, UpdateCurrentUser, CannotSettle
    <3>4. LoggingOut' # {}
      <4>1. screens \in MainScreens
        BY <2>11, FrontScreen DEF LogOut
      <4>2. kakaoLogout'[screens].at = "asked"
        BY <2>11, <4>1, <2>0 DEF LogOut, AskLogout, NoLogout
      <4> QED BY <4>1, <4>2 DEF LoggingOut
    <3> QED BY <3>2, <3>3, <3>4 DEF SigningIn, LoggingIn
  <2>12. ASSUME NEW m \in MainScreens, KakaoLogoutStep(m) PROVE Settled'
    <3>1. UNCHANGED <<screens, unsettled, signIn, storedUser, kakaoLogin>>
      BY <2>12 DEF KakaoLogoutStep, LogoutStep, LogoutAnswered, TokenInvalid, Refreshed,
                   RefreshEnds, LogoutEnds, firebaseVars
    <3>2. CASE token' = NoToken
      BY <3>1, <3>2, <2>a DEF SigningIn, LoggingIn
    <3>3. CASE TokenInvalid(m) \/ Refreshed(m)
      <4>1. kakaoLogout'[m].at # "idle"
        <5>1. kakaoLogout[m] \in Logouts
          BY <2>0
        <5> QED BY <3>3, <2>0, <5>1 DEF TokenInvalid, Refreshed, Logouts
      <4> QED BY <3>1, <4>1, <2>a DEF SigningIn, LoggingIn, LoggingOut
    <3> QED BY <2>12, <3>2, <3>3
            DEF KakaoLogoutStep, LogoutStep, LogoutAnswered, RefreshEnds, LogoutEnds
  <2>13. ASSUME NEW loaded \in BOOLEAN, Relaunch(loaded) PROVE Settled'
    <3>1. /\ storedUser' = NoAccount /\ token' = NoToken
          /\ signIn' = [k \in LoginScreens |-> NoSignIn]
          /\ kakaoLogin' = [k \in LoginScreens |-> NoAccount]
      BY <2>13 DEF Relaunch, RestartFirebase, RestartKakao, LoadUser
    <3> QED BY <3>1 DEF SigningIn, LoggingIn, NoSignIn
  <2>14. CASE UNCHANGED vars
    BY <2>14, <2>b DEF vars, firebaseVars, kakaoVars
  <2> QED
    BY <2>1, <2>3, <2>4, <2>5, <2>6, <2>7, <2>8, <2>9, <2>10, <2>11, <2>12,
       <2>13, <2>14
    DEF Next
<1> QED BY <1>1, <1>2, SessionsTypeCorrect, PlacesHold, PTL DEF Spec

\* Nobody stays signed in on a login screen with nothing under way, unless the
\* last logout or launch could not settle it or a login was covered.
THEOREM SignedOut == Spec => []SignedOutOnLogin
<1>1. TypeOK /\ SettleInv /\ MemoryFollowsKeychain => SignedOutOnLogin
  <2> SUFFICES ASSUME TypeOK, SettleInv, MemoryFollowsKeychain,
                      OnLogin, SigningIn = {}, LoggingOut = {}, ~unsettled
               PROVE  currentUser = NoAccount /\ storedUser = NoAccount /\ token = NoToken
    BY DEF SignedOutOnLogin
  <2>1. signIn[screens].at # "done"
    BY FrontScreen DEF SigningIn
  <2>2. storedUser = NoAccount /\ token = NoToken
    BY <2>1 DEF SettleInv
  <2> QED BY <2>2 DEF MemoryFollowsKeychain
<1> QED BY <1>1, SessionsTypeCorrect, SettleHolds, MemoryIsStored, PTL

(***************************************************************************)
(* The Kakao token.  Once the main screen has come up with Kakao and nothing *)
(* beside it, nothing can reach the token before the next logout: no request *)
(* is under way and no sheet is up that could ask for one.                 *)
(***************************************************************************)
TokenInv ==
    (OnMain /\ entry.with = "kakao") =>
        /\ LoggingIn = {} /\ LoggingOut = {} /\ sheet = 0
        /\ token = [access |-> entry.account, refresh |-> entry.account]

\* The main screen that was in front stays there, with the entry it had, but
\* for the one that comes up.
LEMMA MainStays ==
    ASSUME TypeOK, [Next]_vars, OnMain', entry'.with # "none"
    PROVE  \/ UNCHANGED <<screens, entry>>
           \/ \E k \in LoginScreens :
                  \/ SignedIn(k) /\ MainAppears(k, GoogleEntry(k))
                  \/ KakaoLoggedIn(k) /\ MainAppears(k, KakaoEntry(k))
<1>1. CASE SheetOpened \/ SheetCancelled \/ FirebaseStep
  BY <1>1 DEF SheetOpened, SheetCancelled, FirebaseStep
<1>2. ASSUME NEW a \in Accounts, GoogleAgreed(a) \/ KakaoAgreed(a)
      PROVE  UNCHANGED <<screens, entry>>
  BY <1>2 DEF GoogleAgreed, KakaoAgreed
<1>3. CASE AppleAgreed
  BY <1>3 DEF AppleAgreed, MainAppears, PresentIgnored, NoEntry
<1>4. ~SkipLogin
  BY DEF SkipLogin, MainAppears, NoEntry
<1>5. ASSUME NEW k \in LoginScreens, SignedIn(k) \/ KakaoLoggedIn(k) \/ KakaoRefused(k)
      PROVE  \/ UNCHANGED <<screens, entry>>
             \/ SignedIn(k) /\ MainAppears(k, GoogleEntry(k))
             \/ KakaoLoggedIn(k) /\ MainAppears(k, KakaoEntry(k))
  BY <1>5 DEF SignedIn, KakaoLoggedIn, KakaoRefused, PresentMain, PresentIgnored
<1>6. ASSUME NEW saved \in BOOLEAN PROVE ~LogOut(saved)
  BY DEF LogOut, NoEntry
<1>7. ASSUME NEW m \in MainScreens, KakaoLogoutStep(m) PROVE UNCHANGED <<screens, entry>>
  BY <1>7 DEF KakaoLogoutStep
<1>8. ASSUME NEW loaded \in BOOLEAN PROVE ~Relaunch(loaded)
  BY DEF Relaunch, NoEntry
<1>9. CASE UNCHANGED vars
  BY <1>9 DEF vars
<1> QED BY <1>1, <1>2, <1>3, <1>4, <1>5, <1>6, <1>7, <1>8, <1>9 DEF Next

LEMMA TokenHolds == Spec => []TokenInv
<1>1. Init => TokenInv
  BY DEF Init, TokenInv, OnMain, OnLogin
<1>2. TypeOK /\ TokenInv /\ [Next]_vars => TokenInv'
  <2> SUFFICES ASSUME TypeOK, TokenInv, [Next]_vars, OnMain', entry'.with = "kakao"
               PROVE  /\ LoggingIn' = {} /\ LoggingOut' = {} /\ sheet' = 0
                      /\ token' = [access |-> entry'.account, refresh |-> entry'.account]
    BY DEF TokenInv
  <2>0. /\ kakaoLogin \in [LoginScreens -> MaybeAccount]
        /\ kakaoLogout \in [MainScreens -> Logouts]
    BY DEF TypeOK, KakaoTypeOK
  \* It has just come up.
  <2>1. ASSUME NEW k \in LoginScreens, KakaoLoggedIn(k), MainAppears(k, KakaoEntry(k))
        PROVE  /\ LoggingIn' = {} /\ LoggingOut' = {} /\ sheet' = 0
               /\ token' = [access |-> entry'.account, refresh |-> entry'.account]
    <3>1. /\ LoggingIn = {k} /\ LoggingOut = {} /\ sheet = 0
          /\ entry'.account = kakaoLogin[k]
      BY <2>1 DEF MainAppears, KakaoEntry, NoEntry
    <3>2. /\ kakaoLogin' = [kakaoLogin EXCEPT ![k] = NoAccount]
          /\ token' = [access |-> kakaoLogin[k], refresh |-> kakaoLogin[k]]
          /\ UNCHANGED <<kakaoLogout, sheet>>
      BY <2>1 DEF KakaoLoggedIn, TokenReceived
    <3> QED BY <3>1, <3>2, <2>0 DEF LoggingIn, LoggingOut
  <2>2. ASSUME NEW k \in LoginScreens PROVE ~MainAppears(k, GoogleEntry(k))
    BY DEF MainAppears, GoogleEntry, NoEntry
  \* It has been there before.
  <2>3. CASE UNCHANGED <<screens, entry>>
    <3>1. /\ OnMain /\ LoggingIn = {} /\ LoggingOut = {} /\ sheet = 0
          /\ token = [access |-> entry.account, refresh |-> entry.account]
      BY <2>3 DEF TokenInv, OnMain, OnLogin
    <3>2. UNCHANGED <<kakaoVars, sheet>>
      <4>1. ~SheetOpened /\ ~SheetCancelled /\ ~AppleAgreed /\ ~SkipLogin
        BY <3>1 DEF SheetOpened, SheetCancelled, AppleAgreed, SkipLogin, OnMain
      <4>2. \A a \in Accounts : ~GoogleAgreed(a) /\ ~KakaoAgreed(a)
        BY <3>1 DEF GoogleAgreed, KakaoAgreed
      <4>3. FirebaseStep => UNCHANGED <<kakaoVars, sheet>>
        BY DEF FirebaseStep
      <4>4. \A k \in LoginScreens : ~KakaoLoggedIn(k) /\ ~KakaoRefused(k)
        BY <3>1 DEF KakaoLoggedIn, KakaoRefused, TokenReceived, TokenRefused, LoggingIn
      <4>5. \A k \in LoginScreens : SignedIn(k) => UNCHANGED <<kakaoVars, sheet>>
        BY DEF SignedIn
      <4>6. \A saved \in BOOLEAN : ~LogOut(saved)
        BY DEF LogOut, NoEntry
      <4>7. \A m \in MainScreens : ~KakaoLogoutStep(m)
        BY <3>1 DEF KakaoLogoutStep, LogoutStep, LogoutAnswered, TokenInvalid, Refreshed,
                    RefreshEnds, LoggingOut
      <4>8. \A loaded \in BOOLEAN : ~Relaunch(loaded)
        BY DEF Relaunch, NoEntry
      <4>9. CASE UNCHANGED vars
        BY <4>9 DEF vars
      <4> QED BY <4>1, <4>2, <4>3, <4>4, <4>5, <4>6, <4>7, <4>8, <4>9 DEF Next
    <3> QED BY <2>3, <3>1, <3>2 DEF kakaoVars, LoggingIn, LoggingOut
  <2> QED BY <2>1, <2>2, <2>3, MainStays
<1> QED BY <1>1, <1>2, SessionsTypeCorrect, PTL DEF Spec

\* Whoever came in with Kakao, with no other request under way, keeps a token
\* that is all theirs until the next logout.
THEOREM TokenSurvives == Spec => []TokenKept
<1>1. TokenInv => TokenKept
  BY DEF TokenInv, TokenKept
<1> QED BY <1>1, TokenHolds, PTL

(***************************************************************************)
(* The Firebase user.  The work queue sets the user some time before the   *)
(* completion reaches the main queue.  In between, only another sign-in can *)
(* set another one, and then its completion is behind in the main queue.   *)
(***************************************************************************)
Overtaken(k) == \E p, q \in 1..Len(finished) : p < q /\ finished[p] = k

FrontUser ==
    (OnLogin /\ signIn[screens].at = "done" /\ signIn[screens].account # NoAccount) =>
        \/ Overtaken(screens)
        \/ currentUser = signIn[screens].account /\ storedUser = signIn[screens].account

LEMMA FrontUserHolds == Spec => []FrontUser
<1>1. Init => FrontUser
  <2>1. ASSUME Init PROVE signIn[screens].at # "done"
    <3>1. 1 \in LoginScreens
      BY ScreensAssumption DEF LoginScreens
    <3> QED BY <2>1, <3>1 DEF Init, FirebaseInit, NoSignIn
  <2> QED BY <2>1 DEF FrontUser
<1>2. TypeOK /\ PlacesInv /\ FrontUser /\ [Next]_vars => FrontUser'
  <2> SUFFICES ASSUME TypeOK, PlacesInv, FrontUser, [Next]_vars, OnLogin',
                      signIn'[screens'].at = "done", signIn'[screens'].account # NoAccount
               PROVE  \/ Overtaken(screens)'
                      \/ /\ currentUser' = signIn'[screens'].account
                         /\ storedUser' = signIn'[screens'].account
    BY DEF FrontUser
  <2> DEFINE Kept == \/ Overtaken(screens)
                     \/ /\ currentUser = signIn[screens].account
                        /\ storedUser = signIn[screens].account
  <2>0. /\ AskedByPresent /\ QueueOK
        /\ screens \in 1..MaxScreens
        /\ signIn \in [LoginScreens -> SignIns]
        /\ finished \in Seq(LoginScreens)
    BY DEF PlacesInv, TypeOK, FirebaseTypeOK
  <2>a. UNCHANGED screens => screens \in LoginScreens
    BY FrontScreen DEF OnLogin
  <2>b. UNCHANGED <<screens, signIn>> => Kept
    BY DEF FrontUser, OnLogin
  <2>c. UNCHANGED firebaseVars /\ UNCHANGED screens => Kept'
    BY <2>b DEF firebaseVars, Overtaken
  <2>d. ASSUME NEW k \in LoginScreens, NEW how, PresentMain(k, how) PROVE UNCHANGED screens
    BY <2>d, Presented
  <2>1. CASE SheetOpened \/ SheetCancelled
    BY <2>1, <2>c DEF SheetOpened, SheetCancelled
  <2>2. ASSUME NEW a \in Accounts, KakaoAgreed(a) PROVE Kept'
    BY <2>2, <2>c DEF KakaoAgreed
  <2>3. ASSUME NEW a \in Accounts, GoogleAgreed(a) PROVE Kept'
    <3>1. /\ signIn' = [signIn EXCEPT ![sheet] = [at |-> "asked", account |-> a]]
          /\ UNCHANGED <<currentUser, storedUser, finished, screens>>
      BY <2>3 DEF GoogleAgreed, AskSignIn
    <3>2. sheet # screens
      BY <3>1, <2>a, <2>0
    <3>3. signIn'[screens] = signIn[screens]
      BY <3>1, <3>2, <2>a, <2>0
    <3>4. Kept
      BY <3>1, <3>3 DEF FrontUser, OnLogin
    <3> QED BY <3>1, <3>3, <3>4 DEF Overtaken
  <2>4. CASE AppleAgreed
    <3>1. sheet # 0 /\ PresentMain(sheet, NoEntry) /\ sheet \in LoginScreens
          /\ UNCHANGED firebaseVars
      BY <2>4, FrontScreen DEF AppleAgreed, PresentMain
    <3> QED BY <2>c, <2>d, <3>1
  <2>5. CASE SkipLogin
    <3>1. PresentMain(screens, NoEntry) /\ screens \in LoginScreens /\ UNCHANGED firebaseVars
      BY <2>5, FrontScreen DEF SkipLogin, PresentMain
    <3> QED BY <2>c, <2>d, <3>1
  <2>6. CASE FirebaseStep
    <3>1. UNCHANGED screens
      BY <2>6 DEF FirebaseStep
    <3>2. ASSUME NEW k \in LoginScreens, NEW registered \in BOOLEAN,
                 SignInFinished(k, registered)
          PROVE  Kept'
      <4>1. /\ signIn[k].at = "asked"
            /\ UpdateCurrentUser(signIn[k].account, registered)
            /\ signIn' = [signIn EXCEPT ![k] =
                    [at |-> "done",
                     account |-> IF registered THEN signIn[k].account ELSE NoAccount]]
            /\ finished' = Append(finished, k)
        BY <3>2, <2>0 DEF SignInFinished
      <4>2. CASE k = screens
        <5>1. registered
          BY <4>1, <4>2, <3>1, <2>0
        <5> QED BY <5>1, <4>1, <4>2, <3>1, <2>0 DEF UpdateCurrentUser
      <4>3. CASE k # screens
        <5>1. signIn'[screens] = signIn[screens]
          BY <4>1, <4>3, <2>a, <3>1, <2>0
        <5>2. PICK p \in 1..Len(finished) : finished[p] = screens
          BY <5>1, <3>1, <2>a, <2>0 DEF QueueOK
        <5>3. /\ Len(finished') = Len(finished) + 1
              /\ finished'[p] = screens
              /\ p < Len(finished) + 1
          BY <4>1, <5>2, <2>0
        <5>4. p \in 1..Len(finished') /\ Len(finished') \in 1..Len(finished')
          BY <5>3, <2>0
        <5> QED BY <5>3, <5>4, <3>1 DEF Overtaken
      <4> QED BY <4>2, <4>3
    <3>3. ASSUME NEW k \in LoginScreens, GiveUpSignIn(k) PROVE Kept'
      <4>1. /\ signIn[k].at = "asked"
            /\ signIn' = [signIn EXCEPT ![k] = NoSignIn]
            /\ UNCHANGED <<currentUser, storedUser, finished>>
        BY <3>3 DEF GiveUpSignIn
      <4>2. k # screens
        BY <4>1, <3>1, <2>a, <2>0 DEF NoSignIn
      <4>3. signIn'[screens] = signIn[screens]
        BY <4>1, <4>2, <2>a, <3>1, <2>0
      <4>4. Kept
        BY <3>1, <4>3 DEF FrontUser, OnLogin
      <4> QED BY <3>1, <4>1, <4>3, <4>4 DEF Overtaken
    <3>4. ASSUME NEW loaded \in BOOLEAN, Unlocked(loaded) PROVE Kept'
      BY <3>4, <3>1, <2>b DEF Unlocked, LoadUser, Overtaken
    <3> QED BY <2>6, <3>2, <3>3, <3>4 DEF FirebaseStep
  <2>7. ASSUME NEW k \in LoginScreens, SignedIn(k) PROVE Kept'
    <3>1. /\ finished # <<>> /\ k = Head(finished) /\ finished' = Tail(finished)
          /\ signIn' = [signIn EXCEPT ![k] = NoSignIn]
          /\ UNCHANGED <<currentUser, storedUser, screens>>
      BY <2>7, <2>d DEF SignedIn, TakeCompletion
    <3>2. k # screens
      BY <3>1, <2>a, <2>0 DEF NoSignIn
    <3>3. signIn'[screens] = signIn[screens]
      BY <3>1, <3>2, <2>a, <2>0
    <3>4. Kept
      BY <3>1, <3>3 DEF FrontUser, OnLogin
    <3>5. ASSUME NEW p \in 1..Len(finished), NEW q \in 1..Len(finished),
                 p < q, finished[p] = screens
          PROVE  Overtaken(screens)'
      <4>1. /\ Len(finished') = Len(finished) - 1
            /\ \A i \in 1..Len(finished') : finished'[i] = finished[i + 1]
            /\ finished[1] = k
        BY <3>1, <2>0
      <4>2. p # 1
        BY <4>1, <3>2, <3>5
      <4>3. p - 1 \in 1..Len(finished') /\ q - 1 \in 1..Len(finished') /\ p - 1 < q - 1
        BY <4>1, <4>2, <3>5, <2>0
      <4>4. finished'[p - 1] = screens'
        BY <4>1, <4>3, <3>1, <3>5
      <4> QED BY <4>3, <4>4 DEF Overtaken
    <3> QED BY <3>1, <3>3, <3>4, <3>5 DEF Overtaken
  <2>8. ASSUME NEW k \in LoginScreens, KakaoLoggedIn(k) PROVE Kept'
    BY <2>8, <2>c, <2>d DEF KakaoLoggedIn
  <2>9. ASSUME NEW k \in LoginScreens, KakaoRefused(k) PROVE Kept'
    BY <2>9, <2>c DEF KakaoRefused
  <2>10. ASSUME NEW saved \in BOOLEAN, LogOut(saved) PROVE FALSE
    <3>1. screens' = screens + 1 /\ UNCHANGED signIn
      BY <2>10 DEF LogOut, SignOut
    <3>2. screens' \in LoginScreens
      BY <2>10, <2>0, ScreensAssumption DEF LogOut, OnLogin, LoginScreens
    <3>3. screens' > screens
      BY <3>1, <2>0
    <3> QED BY <3>1, <3>2, <3>3, <2>0 DEF AskedByPresent
  <2>11. ASSUME NEW m \in MainScreens, KakaoLogoutStep(m) PROVE Kept'
    BY <2>11, <2>c DEF KakaoLogoutStep
  <2>12. ASSUME NEW loaded \in BOOLEAN, Relaunch(loaded) PROVE FALSE
    <3>1. signIn' = [k \in LoginScreens |-> NoSignIn] /\ screens' = 1
      BY <2>12 DEF Relaunch, RestartFirebase
    <3>2. 1 \in LoginScreens
      BY ScreensAssumption DEF LoginScreens
    <3> QED BY <3>1, <3>2 DEF NoSignIn
  <2>13. CASE UNCHANGED vars
    BY <2>13, <2>c DEF vars
  <2> QED
    BY <2>1, <2>2, <2>3, <2>4, <2>5, <2>6, <2>7, <2>8, <2>9, <2>10, <2>11, <2>12, <2>13
    DEF Next
<1> QED BY <1>1, <1>2, SessionsTypeCorrect, PlacesHold, PTL DEF Spec

\* During the stay no sign-in is under way, and no sheet is up to ask for one.
UserInv ==
    (OnMain /\ entry.with = "google") =>
        /\ SigningIn = {} /\ sheet = 0
        /\ currentUser = entry.account /\ storedUser = entry.account

LEMMA UserHolds == Spec => []UserInv
<1>1. Init => UserInv
  BY DEF Init, UserInv, OnMain, OnLogin
<1>2. TypeOK /\ PlacesInv /\ FrontUser /\ UserInv /\ [Next]_vars => UserInv'
  <2> SUFFICES ASSUME TypeOK, PlacesInv, FrontUser, UserInv, [Next]_vars,
                      OnMain', entry'.with = "google"
               PROVE  /\ SigningIn' = {} /\ sheet' = 0
                      /\ currentUser' = entry'.account /\ storedUser' = entry'.account
    BY DEF UserInv
  <2>0. /\ QueueOK
        /\ signIn \in [LoginScreens -> SignIns]
        /\ finished \in Seq(LoginScreens)
    BY DEF PlacesInv, TypeOK, FirebaseTypeOK
  \* It has just come up: k is the whole queue, so nobody has overtaken it.
  <2>1. ASSUME NEW k \in LoginScreens, SignedIn(k), MainAppears(k, GoogleEntry(k))
        PROVE  /\ SigningIn' = {} /\ sheet' = 0
               /\ currentUser' = entry'.account /\ storedUser' = entry'.account
    <3>1. /\ SigningIn = {k} /\ sheet = 0 /\ signIn[k].account # NoAccount
          /\ entry'.account = signIn[k].account
          /\ k = screens
      BY <2>1 DEF MainAppears, GoogleEntry, NoEntry
    <3>2. /\ finished # <<>> /\ k = Head(finished)
          /\ signIn' = [signIn EXCEPT ![k] = NoSignIn]
          /\ UNCHANGED <<currentUser, storedUser, sheet>>
      BY <2>1 DEF SignedIn, TakeCompletion
    <3>3. SigningIn' = {} /\ sheet' = 0
      BY <3>1, <3>2, <2>0 DEF SigningIn, NoSignIn
    <3>4. 1 \in 1..Len(finished) /\ finished[1] = k
      BY <3>2, <2>0
    <3>5. signIn[screens].at = "done" /\ OnLogin
      <4>1. signIn[k].at = "done"
        BY <3>4, <2>0 DEF QueueOK
      <4>2. k % 2 = 1
        BY LoginScreen
      <4> QED BY <3>1, <4>1, <4>2 DEF OnLogin
    <3>6. ~Overtaken(screens)
      <4>1. SUFFICES ASSUME NEW p \in 1..Len(finished), NEW q \in 1..Len(finished),
                            p < q, finished[p] = k
                     PROVE  FALSE
        BY <3>1 DEF Overtaken
      <4>2. signIn[finished[q]].at # "idle" /\ finished[q] \in LoginScreens
        BY <2>0 DEF QueueOK
      <4>3. finished[q] = k
        BY <4>2, <3>1 DEF SigningIn
      <4>4. p = q
        BY <4>1, <4>3, <2>0 DEF QueueOK
      <4> QED BY <4>1, <4>4
    <3> QED BY <3>1, <3>2, <3>3, <3>5, <3>6 DEF FrontUser
  <2>2. ASSUME NEW k \in LoginScreens PROVE ~MainAppears(k, KakaoEntry(k))
    BY DEF MainAppears, KakaoEntry, NoEntry
  \* It has been there before.
  <2>3. CASE UNCHANGED <<screens, entry>>
    <3>1. /\ OnMain /\ SigningIn = {} /\ sheet = 0
          /\ currentUser = entry.account /\ storedUser = entry.account
      BY <2>3 DEF UserInv, OnMain, OnLogin
    <3>2. UNCHANGED <<signIn, currentUser, storedUser, sheet>>
      <4>1. ~SheetOpened /\ ~SheetCancelled /\ ~AppleAgreed /\ ~SkipLogin
        BY <3>1 DEF SheetOpened, SheetCancelled, AppleAgreed, SkipLogin, OnMain
      <4>2. \A a \in Accounts : ~GoogleAgreed(a) /\ ~KakaoAgreed(a)
        BY <3>1 DEF GoogleAgreed, KakaoAgreed
      <4>3. CASE FirebaseStep
        <5>1. \A k \in LoginScreens, registered \in BOOLEAN :
                  ~SignInFinished(k, registered) /\ ~GiveUpSignIn(k)
          BY <3>1 DEF SignInFinished, GiveUpSignIn, SigningIn
        <5>2. ASSUME NEW loaded \in BOOLEAN, Unlocked(loaded)
              PROVE  UNCHANGED <<signIn, currentUser, storedUser>>
          BY <5>2, <3>1 DEF Unlocked, LoadUser
        <5> QED BY <4>3, <5>1, <5>2 DEF FirebaseStep
      <4>4. \A k \in LoginScreens :
                KakaoLoggedIn(k) \/ KakaoRefused(k) => UNCHANGED <<firebaseVars, sheet>>
        BY DEF KakaoLoggedIn, KakaoRefused
      <4>5. ASSUME NEW k \in LoginScreens PROVE ~SignedIn(k)
        <5>1. SUFFICES ASSUME SignedIn(k) PROVE FALSE
          OBVIOUS
        <5>2. 1 \in 1..Len(finished) /\ finished[1] = k
          BY <5>1, <2>0 DEF SignedIn, TakeCompletion
        <5>3. signIn[k].at = "done"
          BY <5>2, <2>0 DEF QueueOK
        <5> QED BY <5>3, <3>1 DEF SigningIn
      <4>6. \A saved \in BOOLEAN : ~LogOut(saved)
        BY DEF LogOut, NoEntry
      <4>7. \A m \in MainScreens : KakaoLogoutStep(m) => UNCHANGED <<firebaseVars, sheet>>
        BY DEF KakaoLogoutStep
      <4>8. \A loaded \in BOOLEAN : ~Relaunch(loaded)
        BY DEF Relaunch, NoEntry
      <4>9. CASE UNCHANGED vars
        BY <4>9 DEF vars, firebaseVars
      <4> QED BY <4>1, <4>2, <4>3, <4>4, <4>5, <4>6, <4>7, <4>8, <4>9
              DEF Next, firebaseVars
    <3> QED BY <2>3, <3>1, <3>2 DEF SigningIn
  <2> QED BY <2>1, <2>2, <2>3, MainStays
<1> QED BY <1>1, <1>2, SessionsTypeCorrect, PlacesHold, FrontUserHolds, PTL DEF Spec

\* Whoever came in with Google, with no other sign-in under way, is the user of
\* Firebase in memory and in the keychain until the next logout.
THEOREM UserSurvives == Spec => []UserKept
<1>1. UserInv => UserKept
  BY DEF UserInv, UserKept
<1> QED BY <1>1, UserHolds, PTL
=============================================================================
