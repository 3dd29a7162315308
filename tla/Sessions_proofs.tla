-------------------------- MODULE Sessions_proofs --------------------------
(* Proofs about the two sessions of MangoPlateCloneApp, each under any      *)
(* client: whichever screens ask for what, in whatever order.               *)
EXTENDS FirebaseAuth, KakaoSession, TLAPS, SequenceTheorems

(***************************************************************************)
(* Firebase.                                                               *)
(***************************************************************************)
LEMMA UsersTyped ==
    ASSUME FirebaseTypeOK, NEW user \in MaybeAccount, NEW ok \in BOOLEAN,
           UpdateCurrentUser(user, ok) \/ LoadUser(ok, user)
    PROVE  /\ currentUser' \in MaybeAccount
           /\ storedUser' \in MaybeAccount
           /\ unread' \in BOOLEAN
<1>1. unread' \in BOOLEAN
  BY Zenon DEF FirebaseTypeOK, UpdateCurrentUser, LoadUser
<1> QED BY <1>1 DEF FirebaseTypeOK, UpdateCurrentUser, LoadUser

LEMMA FirebaseInitType == FirebaseInit => FirebaseTypeOK
<1> SUFFICES ASSUME FirebaseInit PROVE FirebaseTypeOK
  OBVIOUS
<1>1. unread \in BOOLEAN
  BY Zenon DEF FirebaseInit
<1>2. NoSignIn \in SignIns
  BY DEF NoSignIn, SignIns, MaybeAccount
<1> QED BY <1>1, <1>2 DEF FirebaseInit, FirebaseTypeOK, MaybeAccount

LEMMA FirebaseTypeStep ==
    ASSUME FirebaseTypeOK, [FirebaseNext]_firebaseVars
    PROVE  FirebaseTypeOK'
<1> USE DEF MaybeAccount
<1>1. ASSUME NEW saved \in BOOLEAN, SignOut(saved) PROVE FirebaseTypeOK'
  <2>1. currentUser' \in MaybeAccount /\ storedUser' \in MaybeAccount /\ unread' \in BOOLEAN
    BY <1>1, UsersTyped DEF SignOut, FirebaseTypeOK
  <2> QED BY <1>1, <2>1 DEF SignOut, FirebaseTypeOK
<1>2. ASSUME NEW loaded \in BOOLEAN, Unlocked(loaded) PROVE FirebaseTypeOK'
  <2>1. currentUser' \in MaybeAccount /\ storedUser' \in MaybeAccount /\ unread' \in BOOLEAN
    BY <1>2, UsersTyped DEF Unlocked, FirebaseTypeOK
  <2> QED BY <1>2, <2>1 DEF Unlocked, FirebaseTypeOK
<1>3. ASSUME NEW loaded \in BOOLEAN, RestartFirebase(loaded) PROVE FirebaseTypeOK'
  <2>1. currentUser' \in MaybeAccount /\ storedUser' \in MaybeAccount /\ unread' \in BOOLEAN
    BY <1>3, UsersTyped DEF RestartFirebase
  <2> QED BY <1>3, <2>1 DEF RestartFirebase, FirebaseTypeOK, SignIns, NoSignIn
<1>4. ASSUME NEW k \in LoginScreens, NEW a \in Accounts, AskSignIn(k, a)
      PROVE  FirebaseTypeOK'
  BY <1>4 DEF AskSignIn, FirebaseTypeOK, SignIns
<1>5. ASSUME NEW k \in LoginScreens, NEW registered \in BOOLEAN,
             SignInFinished(k, registered)
      PROVE  FirebaseTypeOK'
  <2>1. signIn[k].account \in MaybeAccount /\ signIn[k].at \in {"idle", "asked", "done"}
    BY DEF FirebaseTypeOK, SignIns
  <2>2. currentUser' \in MaybeAccount /\ storedUser' \in MaybeAccount /\ unread' \in BOOLEAN
    BY <1>5, <2>1, UsersTyped DEF SignInFinished
  <2>3. signIn' \in [LoginScreens -> SignIns]
    BY <1>5, <2>1 DEF SignInFinished, FirebaseTypeOK, SignIns
  <2>4. finished' \in Seq(LoginScreens)
    BY <1>5 DEF SignInFinished, FirebaseTypeOK
  <2> QED BY <2>2, <2>3, <2>4 DEF FirebaseTypeOK
<1>6. ASSUME NEW k \in LoginScreens, TakeCompletion(k) PROVE FirebaseTypeOK'
  BY <1>6 DEF TakeCompletion, FirebaseTypeOK, SignIns, NoSignIn
<1>7. ASSUME NEW k \in LoginScreens, GiveUpSignIn(k) PROVE FirebaseTypeOK'
  BY <1>7 DEF GiveUpSignIn, FirebaseTypeOK, SignIns, NoSignIn
<1>8. CASE UNCHANGED firebaseVars
  BY <1>8 DEF firebaseVars, FirebaseTypeOK
<1> QED
  BY <1>1, <1>2, <1>3, <1>4, <1>5, <1>6, <1>7, <1>8 DEF FirebaseNext

\* The user in memory is the one in the keychain under any client, through
\* failing writes and reads, late answers and restarts.
THEOREM FirebaseFollowsKeychain == FirebaseSpec => []MemoryFollowsKeychain
<1>1. FirebaseInit => MemoryFollowsKeychain
  BY DEF FirebaseInit, MemoryFollowsKeychain
<1>2. ASSUME MemoryFollowsKeychain, [FirebaseNext]_firebaseVars
      PROVE  MemoryFollowsKeychain'
  <2> USE DEF MemoryFollowsKeychain
  <2>1. ASSUME NEW user, NEW saved \in BOOLEAN, UpdateCurrentUser(user, saved)
        PROVE  MemoryFollowsKeychain'
    BY <1>2, <2>1 DEF UpdateCurrentUser
  <2>2. ASSUME NEW loaded \in BOOLEAN,
               LoadUser(loaded, currentUser) \/ LoadUser(loaded, NoAccount)
        PROVE  MemoryFollowsKeychain'
    BY <1>2, <2>2 DEF LoadUser
  <2>3. UNCHANGED <<currentUser, storedUser, unread>> => MemoryFollowsKeychain'
    BY <1>2
  <2> HIDE DEF MemoryFollowsKeychain
  <2> QED
    BY <1>2, <2>1, <2>2, <2>3
    DEF FirebaseNext, SignOut, Unlocked, RestartFirebase, AskSignIn,
        SignInFinished, TakeCompletion, GiveUpSignIn, firebaseVars
<1> QED BY <1>1, <1>2, PTL DEF FirebaseSpec

(***************************************************************************)
(* Kakao.  A logout that is with the server has errors left.               *)
(***************************************************************************)
ErrorsLeft ==
    \A m \in MainScreens : kakaoLogout[m].at = "asked"
                               => kakaoLogout[m].errors < RetryCount

KakaoInv == KakaoTypeOK /\ ErrorsLeft

LEMMA LogoutsTyped ==
    /\ NoLogout \in Logouts
    /\ [NoLogout EXCEPT !.at = "asked"] \in Logouts
    /\ \A x \in Logouts, a \in MaybeAccount :
           x.errors < RetryCount =>
               [x EXCEPT !.at = "refreshing", !.errors = @ + 1, !.account = a] \in Logouts
    /\ \A x \in Logouts :
           [x EXCEPT !.at = "asked", !.account = NoAccount] \in Logouts
<1> USE RetryAssumption DEF MaybeAccount
<1>1. NoLogout \in Logouts
  BY DEF NoLogout, Logouts
<1>2. [NoLogout EXCEPT !.at = "asked"] \in Logouts
  BY DEF NoLogout, Logouts
<1>3. ASSUME NEW x \in Logouts, NEW a \in MaybeAccount, x.errors < RetryCount
      PROVE  [x EXCEPT !.at = "refreshing", !.errors = @ + 1, !.account = a] \in Logouts
  <2>1. x.errors + 1 \in 0..RetryCount
    BY <1>3 DEF Logouts
  <2> QED BY <1>3, <2>1 DEF Logouts
<1>4. ASSUME NEW x \in Logouts
      PROVE  [x EXCEPT !.at = "asked", !.account = NoAccount] \in Logouts
  BY DEF Logouts
<1> QED BY <1>1, <1>2, <1>3, <1>4

\* The state a logout is given is well typed and leaves errors, and the other
\* logouts keep theirs.
LEMMA LogoutSet ==
    ASSUME KakaoInv, NEW m \in MainScreens, NEW next \in Logouts,
           next.at = "asked" => next.errors < RetryCount,
           kakaoLogout' = [kakaoLogout EXCEPT ![m] = next],
           token' \in Tokens, UNCHANGED kakaoLogin
    PROVE  KakaoInv'
BY DEF KakaoInv, KakaoTypeOK, ErrorsLeft

LEMMA KakaoInitType == KakaoInit => KakaoInv
<1> SUFFICES ASSUME KakaoInit PROVE KakaoInv
  OBVIOUS
<1>1. KakaoTypeOK
  BY LogoutsTyped DEF KakaoInit, KakaoTypeOK, NoToken, Tokens, MaybeAccount
<1>2. ErrorsLeft
  BY DEF KakaoInit, ErrorsLeft, NoLogout
<1> QED BY <1>1, <1>2 DEF KakaoInv

LEMMA LogoutStepType ==
    ASSUME KakaoInv, NEW m \in MainScreens, LogoutStep(m)
    PROVE  KakaoInv'
<1>0. /\ kakaoLogout[m] \in Logouts /\ token \in Tokens
      /\ kakaoLogout[m].at = "asked" => kakaoLogout[m].errors < RetryCount
  BY DEF KakaoInv, KakaoTypeOK, ErrorsLeft
<1>1. CASE LogoutEnds(m)
  <2>1. NoToken \in Tokens /\ NoLogout.at = "idle"
    BY DEF NoToken, Tokens, NoLogout, MaybeAccount
  <2> QED BY <1>1, <2>1, LogoutsTyped, LogoutSet DEF LogoutEnds
<1>2. CASE TokenInvalid(m)
  <2> DEFINE next == [kakaoLogout[m] EXCEPT !.at = "refreshing", !.errors = @ + 1,
                                            !.account = token.refresh]
  <2>1. kakaoLogout' = [kakaoLogout EXCEPT ![m] = next] /\ UNCHANGED <<token, kakaoLogin>>
    BY <1>2 DEF TokenInvalid, KakaoInv, KakaoTypeOK
  <2>2. token.refresh \in MaybeAccount /\ kakaoLogout[m].errors < RetryCount
    BY <1>0, <1>2 DEF TokenInvalid, Tokens
  <2>3. next \in Logouts
    BY <1>0, <2>2, LogoutsTyped
  <2>4. next.at = "refreshing"
    BY <1>0 DEF Logouts
  <2> HIDE DEF next
  <2> QED BY <1>0, <2>1, <2>3, <2>4, LogoutSet
<1>3. CASE Refreshed(m)
  <2> DEFINE next == [kakaoLogout[m] EXCEPT !.at = "asked", !.account = NoAccount]
  <2>1. kakaoLogout' = [kakaoLogout EXCEPT ![m] = next] /\ UNCHANGED kakaoLogin
    BY <1>3 DEF Refreshed, KakaoInv, KakaoTypeOK
  <2>2. next \in Logouts
    BY <1>0, LogoutsTyped
  <2>3. next.errors < RetryCount
    BY <1>0, <1>3 DEF Refreshed, Logouts
  <2>4. token' \in Tokens
    BY <1>0, <1>3 DEF Refreshed, Tokens, Logouts
  <2> HIDE DEF next
  <2> QED BY <2>1, <2>2, <2>3, <2>4, LogoutSet
<1> QED
  BY <1>1, <1>2, <1>3 DEF LogoutStep, LogoutAnswered, RefreshEnds

LEMMA KakaoTypeStep ==
    ASSUME KakaoInv, [KakaoNext]_kakaoVars
    PROVE  KakaoInv'
<1> USE DEF KakaoInv
<1>1. ASSUME NEW k \in LoginScreens, NEW a \in Accounts, AskToken(k, a)
      PROVE  KakaoInv'
  BY <1>1 DEF AskToken, KakaoTypeOK, ErrorsLeft, MaybeAccount
<1>2. ASSUME NEW k \in LoginScreens, TokenReceived(k) \/ TokenRefused(k)
      PROVE  KakaoInv'
  BY <1>2 DEF TokenReceived, TokenRefused, KakaoTypeOK, Tokens, ErrorsLeft, MaybeAccount
<1>3. ASSUME NEW m \in MainScreens, AskLogout(m) PROVE KakaoInv'
  <2> DEFINE next == [NoLogout EXCEPT !.at = "asked"]
  <2>1. next \in Logouts
    BY LogoutsTyped
  <2>2. next.errors < RetryCount
    <3>1. next.errors = 0
      BY DEF NoLogout
    <3> QED BY <3>1, RetryAssumption
  <2>3. kakaoLogout' = [kakaoLogout EXCEPT ![m] = next]
        /\ UNCHANGED <<token, kakaoLogin>> /\ token \in Tokens
    BY <1>3 DEF AskLogout, KakaoTypeOK
  <2> HIDE DEF next, KakaoInv
  <2>4. KakaoInv
    OBVIOUS
  <2> QED BY <2>1, <2>2, <2>3, <2>4, LogoutSet
<1>4. CASE RestartKakao
  BY <1>4, LogoutsTyped DEF RestartKakao, KakaoTypeOK, ErrorsLeft, NoLogout, MaybeAccount
<1>5. CASE UNCHANGED kakaoVars
  BY <1>5 DEF kakaoVars, KakaoTypeOK, ErrorsLeft
<1> QED
  BY <1>1, <1>2, <1>3, <1>4, <1>5, LogoutStepType DEF KakaoNext

\* An answer brings the logout it is for closer to its end.
LEMMA AnswerCounts ==
    ASSUME KakaoInv, NEW m \in MainScreens, LogoutStep(m)
    PROVE  /\ AnswersLeft(kakaoLogout'[m]) < AnswersLeft(kakaoLogout[m])
           /\ kakaoLogout'[m].at = "idle" => token' = NoToken
<1> USE RetryAssumption
<1>0. /\ kakaoLogout[m] \in Logouts
      /\ kakaoLogout[m].at = "asked" => kakaoLogout[m].errors < RetryCount
  BY DEF KakaoInv, KakaoTypeOK, ErrorsLeft
<1>1. CASE LogoutEnds(m) /\ kakaoLogout[m].at \in {"asked", "refreshing"}
  <2>1. kakaoLogout'[m] = NoLogout /\ token' = NoToken
    BY <1>1 DEF LogoutEnds, KakaoInv, KakaoTypeOK
  <2>2. AnswersLeft(NoLogout) = 0
    BY DEF AnswersLeft, NoLogout
  <2>3. AnswersLeft(kakaoLogout[m]) > 0
    BY <1>0, <1>1 DEF AnswersLeft, Logouts
  <2> QED BY <2>1, <2>2, <2>3
<1>2. CASE TokenInvalid(m)
  <2>1. /\ kakaoLogout'[m].at = "refreshing"
        /\ kakaoLogout'[m].errors = kakaoLogout[m].errors + 1
    BY <1>0, <1>2 DEF TokenInvalid, KakaoInv, KakaoTypeOK, Logouts
  <2> QED BY <1>0, <1>2, <2>1 DEF TokenInvalid, AnswersLeft, Logouts
<1>3. CASE Refreshed(m)
  <2>1. /\ kakaoLogout'[m].at = "asked"
        /\ kakaoLogout'[m].errors = kakaoLogout[m].errors
    BY <1>0, <1>3 DEF Refreshed, KakaoInv, KakaoTypeOK, Logouts
  <2> QED BY <1>0, <1>3, <2>1 DEF Refreshed, AnswersLeft, Logouts
<1> QED
  BY <1>1, <1>2, <1>3 DEF LogoutStep, LogoutAnswered, RefreshEnds

\* Only its own answers and the end of the process change a logout under way.
LEMMA LogoutAdvances ==
    ASSUME KakaoInv, [KakaoNext]_kakaoVars, NEW m \in LoggingOut,
           kakaoLogout'[m] # kakaoLogout[m]
    PROVE  \/ /\ AnswersLeft(kakaoLogout'[m]) < AnswersLeft(kakaoLogout[m])
              /\ kakaoLogout'[m].at = "idle" => token' = NoToken
           \/ RestartKakao
<1>1. m \in MainScreens /\ kakaoLogout[m].at # "idle"
  BY DEF LoggingOut
<1>2. ASSUME NEW n \in MainScreens, n # m, AskLogout(n) \/ LogoutStep(n)
      PROVE  kakaoLogout'[m] = kakaoLogout[m]
  BY <1>1, <1>2
  DEF AskLogout, LogoutStep, LogoutAnswered, TokenInvalid, Refreshed, RefreshEnds,
      LogoutEnds, KakaoInv, KakaoTypeOK
<1>3. \/ LogoutStep(m)
      \/ \E n \in MainScreens : n # m /\ (AskLogout(n) \/ LogoutStep(n))
      \/ UNCHANGED kakaoLogout
      \/ RestartKakao
  BY <1>1 DEF KakaoNext, AskToken, TokenReceived, TokenRefused, kakaoVars
<1> QED BY <1>1, <1>2, <1>3, AnswerCounts

LEMMA KakaoInvHolds == KakaoSpec => []KakaoInv
BY KakaoInitType, KakaoTypeStep, PTL DEF KakaoSpec

\* Under any client a logout is answered at most 2 * RetryCount times before it
\* drops the token.
THEOREM KakaoLogoutProgresses == KakaoSpec => LogoutProgresses
<1>1. KakaoInv /\ [KakaoNext]_kakaoVars =>
        [\A m \in LoggingOut :
           kakaoLogout'[m] # kakaoLogout[m] =>
               \/ /\ AnswersLeft(kakaoLogout'[m]) < AnswersLeft(kakaoLogout[m])
                  /\ kakaoLogout'[m].at = "idle" => token' = NoToken
               \/ RestartKakao]_kakaoVars
  BY LogoutAdvances
<1> QED BY <1>1, KakaoInvHolds, PTL DEF KakaoSpec, LogoutProgresses

=============================================================================
