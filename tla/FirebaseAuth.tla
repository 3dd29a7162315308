---------------------------- MODULE FirebaseAuth ----------------------------
(***************************************************************************)
(* The part of the Firebase SDK that MangoPlateCloneApp uses: FIRAuth with *)
(* its user in memory and in the keychain, Auth.signIn and Auth.signOut.   *)
(* All of FIRAuth runs on one serial work queue, completions on the main   *)
(* queue.  The keychain outlives the process.                              *)
(***************************************************************************)
EXTENDS MangoScreens, Sequences

VARIABLES
    currentUser,  \* FIRAuth._currentUser
    storedUser,   \* the user archived in the keychain
    unread,       \* the keychain could not be read: an observer waits for
                  \* UIApplicationProtectedDataDidBecomeAvailable
    signIn,       \* the Auth.signIn of each login screen
    finished      \* completions waiting in the main queue, by login screen

firebaseVars == <<currentUser, storedUser, unread, signIn, finished>>

\* "asked" until the two requests (verifyAssertion, getAccountInfo) have been
\* answered, then "done", with the account that was registered, if any.
SignIns == [at : {"idle", "asked", "done"}, account : MaybeAccount]
NoSignIn == [at |-> "idle", account |-> NoAccount]

SigningIn == {k \in LoginScreens : signIn[k].at # "idle"}

FirebaseInit ==
    /\ currentUser = NoAccount
    /\ storedUser = NoAccount
    /\ unread = FALSE
    /\ signIn = [k \in LoginScreens |-> NoSignIn]
    /\ finished = <<>>

-----------------------------------------------------------------------------
(* The user.                                                               *)

\* Mutant: the observer of a failed read also forgets what is there.
LoadUserOrNone(loaded, user) ==
    /\ currentUser' = IF loaded THEN storedUser ELSE NoAccount
    /\ unread' = ~loaded
    /\ UNCHANGED storedUser

\* protectedDataInitialization: the user in the keychain becomes the current
\* one; when it cannot be read, the user so far stays.
LoadUser(loaded, user) ==
    /\ currentUser' = IF loaded THEN storedUser ELSE user
    /\ unread' = ~loaded
    /\ UNCHANGED storedUser

\* Mutant: the memory is changed first, whatever becomes of the keychain.
UpdateMemoryFirst(user, saved) ==
    /\ currentUser' = user
    /\ storedUser' = IF saved THEN user ELSE storedUser
    /\ UNCHANGED unread

\* updateCurrentUser:byForce:savingToDisk:error: with savingToDisk; the user
\* only becomes the current one when the keychain has taken it.
UpdateCurrentUser(user, saved) ==
    /\ currentUser' = IF saved THEN user ELSE currentUser
    /\ storedUser' = IF saved THEN user ELSE storedUser
    /\ UNCHANGED unread

\* signOut, which waits for the work queue.  Without a current user it
\* succeeds and leaves the keychain alone.
SignOut(saved) ==
    /\ \/ currentUser = NoAccount /\ UNCHANGED <<currentUser, storedUser, unread>>
       \/ currentUser # NoAccount /\ UpdateCurrentUser(NoAccount, saved)
    /\ UNCHANGED <<signIn, finished>>

\* The device is unlocked: the observer loads the user again.
Unlocked(loaded) ==
    /\ unread
    /\ LoadUser(loaded, currentUser)
    /\ UNCHANGED <<signIn, finished>>

-----------------------------------------------------------------------------
(* Auth.signIn(with:completion:).                                          *)

AskSignIn(k, a) ==
    /\ signIn' = [signIn EXCEPT ![k] = [at |-> "asked", account |-> a]]
    /\ UNCHANGED <<currentUser, storedUser, unread, finished>>

\* What the work queue does with the last answer before it sends the
\* completion to the main queue.  An error of the server or of the keychain
\* changes no user.
SignInFinished(k, registered) ==
    /\ signIn[k].at = "asked"
    /\ UpdateCurrentUser(signIn[k].account, registered)
    /\ signIn' = [signIn EXCEPT ![k] =
           [at |-> "done", account |-> IF registered THEN @.account ELSE NoAccount]]
    /\ finished' = Append(finished, k)

\* The main queue takes the completion of k.
TakeCompletion(k) ==
    /\ finished # <<>>
    /\ k = Head(finished)
    /\ finished' = Tail(finished)
    /\ signIn' = [signIn EXCEPT ![k] = NoSignIn]
    /\ UNCHANGED <<currentUser, storedUser, unread>>

\* GIDSignIn reports an error: Firebase is not asked, nobody completes.
GiveUpSignIn(k) ==
    /\ signIn[k].at = "asked"
    /\ signIn' = [signIn EXCEPT ![k] = NoSignIn]
    /\ UNCHANGED <<currentUser, storedUser, unread, finished>>

\* The process ends, and the next one loads the user.
RestartFirebase(loaded) ==
    /\ LoadUser(loaded, NoAccount)
    /\ signIn' = [k \in LoginScreens |-> NoSignIn]
    /\ finished' = <<>>

\* The session under any client that asks for one sign-in per screen at a time.
FirebaseNext ==
    \/ \E saved \in BOOLEAN : SignOut(saved)
    \/ \E loaded \in BOOLEAN : Unlocked(loaded) \/ RestartFirebase(loaded)
    \/ \E k \in LoginScreens :
           \/ \E a \in Accounts : signIn[k].at = "idle" /\ AskSignIn(k, a)
           \/ \E registered \in BOOLEAN : SignInFinished(k, registered)
           \/ TakeCompletion(k)
           \/ GiveUpSignIn(k)

FirebaseSpec == FirebaseInit /\ [][FirebaseNext]_firebaseVars

-----------------------------------------------------------------------------
(* Properties.                                                             *)

FirebaseTypeOK ==
    /\ currentUser \in MaybeAccount
    /\ storedUser \in MaybeAccount
    /\ unread \in BOOLEAN
    /\ signIn \in [LoginScreens -> SignIns]
    /\ finished \in Seq(LoginScreens)

\* The user the app is told of is the one a restart would bring back, through
\* failing writes, failing reads and late answers; and if the keychain could
\* be read, a restart brings back nobody else.
MemoryFollowsKeychain ==
    /\ currentUser # NoAccount => storedUser = currentUser
    /\ ~unread => storedUser = currentUser
=============================================================================
