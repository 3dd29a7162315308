# TLA+ models of the RisingCamp apps

The repository holds six iOS apps of a training camp. Five of them keep state
that can go wrong; this directory models these five in TLA+, checks the
models with TLC on small instances and proves the main invariants with TLAPS for
every value of the constants.

To check everything:

    tlc -workers 2 -config <file>.cfg <module>.tla      # one line per run below
    tlapm <module>_proofs.tla                           # eight modules

## 1. Inventory

### LaunchPadGame (`src/LaunchPadGame`)

*Parts.* The singleton `AudioPlayer` (`Model/AudioPlayer.swift`), the game screen
`MainViewController` and the song table `SongTableViewController`, pushed over it.

*State.* `currentItem` and `player` of the singleton; on the game screen
`isPlaying`, `buttonWorkItem`, `buttonEventTimer`, the heart timers nobody
keeps, `readiedButton`, the score, the gauge, `isFever` and the title.

*Operations.* Play, Stop, touching a pad, change of track, selecting a song,
going back; the work item after the intro, the button timer, the completion of
an animation, blocks of the main queue, closures on the global queue.

*Interaction.* Both screens call the singleton on the main thread and from
closures sent to `DispatchQueue.global(qos: .userInitiated)`, which is concurrent;
nothing locks the two fields.

*Hard.* Closures that interleave with each other and with the main thread, a
title drawn from a field a late closure will change, a work item and a timer that
outlive the handler that made them, four handlers that change three related fields.

*Correct when* song and player agree, the title says what plays, there is at
most one source of beats and none behind the song table, fever needs a full gauge.

### Tic-tac (`src/Tic-tac`)

One SwiftUI view with four `@State` fields (`moves`, `player`, `winnerAlert`,
`resettingGame`) and two buttons. There is no concurrency. It is correct when it
keeps the rules of the game, turns are fair and no game is left without an end.

### MangoPlateCloneApp (`src/MangoPlateCloneApp`)

*Song lists.* `MusicViewController` (a table) and `FindFoodVIewController` (a
collection) hold `musicArrays`, filled on a URLSession thread. Their cells are
reused and fetch pictures in closures that outlive the row. Correct when no row
is out of range, a visible cell shows its row, and pictures belong to the cell.

*Login.* `LoginViewController`, the logout of `FindFoodVIewController`, and two
sessions the app keeps through vendored SDKs: Firebase (`FIRAuth.m`, a user in
memory and in the keychain, changed on a serial work queue) and Kakao (a token in
`UserDefaults`, refreshed and tried again when the server calls it invalid). The
state of the app itself is the pile of presented screens.

*Hard.* Answers come late, to a screen that is covered by others; completions run on
another queue than the one that set the user; the keychain cannot be read before the
device is unlocked and refuses writes; a logout refreshes a token while a new login
stores another; the process ends at any time, and the next one shows a login screen
without asking who is signed in.

*Correct when* nobody is signed in on a quiet login screen, whoever came in stays, as one
account, until the logout, and every logout ends with the token deleted.

*Refresh of restaurants around* (`KakaoLocalDataManager`, `pullToRefreash`),
other network managers, map, banners: see section 7.

### Baemin clone (`src/배민 클론`)

`TableManger.tableData` and `menuData` are static arrays. Six `TableView` pages
draw the first, `DetailViewController` draws the second with the number of rows of
the first. Tables remember their counts, and UIKit ends the process when an edit does
not fit. Correct when pages show the array and edits fit.

### Starbucks clone (`src/StarBucks_CLone`)

*State.* The order page keeps an `OrderPageModel` (kind and size of the cup, number,
price of a cup, total) beside the values its controls show and the price in a label.
`SceneDelegate.imageView` refers to the last picture put over the window. Notifications
wait in the system, which outlives the process.

*Hard.* Three controls that each store a part of what the price is made from, four callbacks
of a scene around one optional field, an order announced by the completion of a dismissal.

*Correct when* the label is the price of what the controls show, an app that is left is
covered and an active one never, and an order is announced.

### Risingcamp_week1

Static screens without state. Not modelled.

## 2. Modules

| module | of | extends / instantiates |
|---|---|---|
| `AudioPlayer` | the singleton and its closures, under any client | |
| `Metronome` | abstract: what the Play button promises about the beats | |
| `LaunchPad` | the whole game; composes the two screens with `AudioPlayer`, shown to implement the metronome | `AudioPlayer`; `Metronome` by refinement mapping |
| `NoughtsAndCrosses` | abstract: the rules of the game over whole boards | |
| `TicTacToe` | the app, shown to implement the rules | `NoughtsAndCrosses` by refinement mapping |
| `MusicList` | both song lists of Mango | |
| `MangoScreens` | the pile of screens, by which requests are named | |
| `FirebaseAuth` | the session with Firebase, for any client | `MangoScreens` |
| `KakaoSession` | the session with Kakao, for any client | `MangoScreens` |
| `Login` | login and logout of Mango; composes the screens with both sessions | `FirebaseAuth`, `KakaoSession` |
| `Restaurants` | pages, detail page and arrays of Baemin | |
| `Starbucks` | order page, notification and privacy picture of Starbucks | |
| `Sessions_proofs` | the theorems about both sessions under any client | `FirebaseAuth`, `KakaoSession`, `TLAPS` |
| `X_proofs` | the theorems about `X` | `X`, `TLAPS`, the proofs of what `X` composes |
| `MCX` | instances of `X` for TLC that need definitions | `X` |

### How state and actions correspond to the code

**AudioPlayer.** A closure is a record of where it is (`at`), its `kind`, and the
song it holds. Every access to a shared field is a step: `ReadArgument`
(`currentItem?.name ?? "ily"`), `StoreItem`, `ReadName` (the guard reads the field a
second time), `StorePlayer`, `StartPlayback`. The store of a class reference
without a lock can race: the outcomes are one of the two values (other orders of
the same steps) or a use of a released reference, the crash `AudioCrash`.
A song without a file, or one that does not decode, leaves the old player.

**LaunchPad.** Main-thread handlers are atomic; the blocks they send to the main
queue are not, and run from `mainQueue` in order. A work item is numbered by the Play
that made it, a timer by its work item. `ViewDidDisappear` is written once
and used by the push of the song table and by a swipe back that is let go.
`animating` holds the pads whose grow animation is under way; its completion may
report that it was interrupted (`done = FALSE`). `MapIndex` is the permutation
from `visibleCells` to rows. `tempo` holds the song whose `start` Play has read and the one
whose `bpm` the work item has read (history but for that: the code keeps the numbers). The gauge is counted in steps of 0.05, which
`Float` additions of the code meet exactly at both ends.

**Metronome.** `Phase` maps the work items that wait and the timers that tick to
`silent`, `intro` or `beating`; two of them at once would be none of the three. `button`
is `isPlaying`. `Leave` is the screen that goes away, `Restart` a crash and the next launch.

**TicTacToe.** One action per button; `disabled` is a guard. `CheckGame` is
the three loops, index arithmetic included.

**MusicList.** The answer is stored (`StoreMusic`) by another thread than the one
that draws, before the reload is sent (`SendReload`). `rows` is what the list has
counted, which is not what `musicArrays` holds by now. `ShowRow` is `cellForRowAt`
with the `didSet` of `imageUrl` and the beginning of `loadImage`; a fetch is counted in
`fetching[c][u]`, and its end either fails or sends a block that sets the picture.

**Login.** `screens` counts the presented controllers: odd ones are login
screens, even ones main screens, for nothing is dismissed. `present` by a
controller that presents something already, a screen or the browser of a consent
sheet, is ignored by UIKit (`PresentMain`). `sheet` is the login screen with a sheet up.
`LogOut` is the whole handler: the login screen, the request of `logOutKakao`, and
`logOutGoogle`. `Relaunch` is the end of the process and the next launch. Two
variables are history: `entry`, the login that brought up the main screen in front, when
no other request was beside it; `unsettled`, whether the last logout or launch left
something it could not settle.

**FirebaseAuth.** Each action is one block of FIRAuth's work queue or one completion on
the main queue. `SignInFinished` is the decorated callback: it sets the user (memory only
after the keychain has taken it, `UpdateCurrentUser`) and queues the completion in `finished`,
which `TakeCompletion` runs later. `LoadUser` is `protectedDataInitialization`; a read that
fails leaves the user alone and sets `unread`, the observer that `Unlocked` fires.
`SignOut` leaves the keychain alone when there is no user in memory.

**KakaoSession.** `token` holds the accounts of its two halves, for a refresh may answer with a
new access token only and takes the refresh token from whatever is stored by then.
`TokenInvalid`, `Refreshed` and `RefreshEnds` are one round of
`retry(when:)`: `take(RetryCount)` counts the errors, and its last one completes the
sequence once the refresh is answered. `LogoutEnds` deletes the token whether the
logout succeeded or failed.

**Restaurants.** `drawn[p]` is what page `p` shows, row by row, which is also what
its table remembers of the count. An edit that does not fit ends in `Die`, with the
reason in `died`; `Relaunch` starts from the arrays of the source again.

**Starbucks.** `sizeSegment`, `typeSegment` and `stepper` are what the controls show, which
the code never reads back. `UpdatePriceLabel` takes the model as the handler has left it.
`covers` counts the pictures over the window, `lastOn` says whether the one `imageView`
refers to is among them. `unvisited` is history: the scene has entered the foreground and
was not active since. `Dismissed` is the completion of `dismiss`, a step after `ButtonTapped`;
`Triggered` runs in the system, with or without the process.

### Assumptions about the platform

- Main-thread handlers, blocks and timer events run one at a time; UIKit takes
  no touch during a push or pop.
- An index out of range, `fatalError` and an `NSInternalInconsistencyException` end
  the process. `deleteRows`/`insertRows` raise the latter when the count after the
  edit is not the one before it minus/plus the rows edited.
- A drag within the detail table ends in `moveRowAt`, a drag from
  elsewhere in `performDropWith`. The detail table does not scroll (its height is
  that of its content), so all its rows are drawn.
- The keychain fails or succeeds as a whole; `UserDefaults` keeps what it was told, and the
  encryption of the token in it does not fail.
- Apple's sheet of consent is no view controller of the app; Google's and Kakao's browser is.
- A screen that waits for an answer of one session asks it nothing more: a second request
  is modelled from another screen.
- A presented sheet of Baemin or Starbucks can be swiped away and presented anew.
- A scene goes from active to background and back only through inactive. A process is
  ended only when its scene is not active. A notification with the identifier of one
  that waits replaces it.

## 3. Runs

| run | module, cfg | shows |
|---|---|---|
| `audio_player` | `AudioPlayer`, `AudioPlayer.cfg` | `AudioTypeOK`, `SettledConsistent`, `LoneTasks`, `SelectionKept`, `SelectionPlays`: three closures at once over three songs, one without a file. 115,324 states |
| `launchpad_game` | `MCLaunchPad`, `MCLaunchPadGame.cfg` | `TypeOK`, `OneBeat`, `GameOverOffScreen`, `FeverFull`, `OnlyViewStopsBeats`, `KeepsTheBeat`, `BeatsBegin`: two plays, two pads, a gauge of two hits. 265,373 states |
| `launchpad_audio` | `MCLaunchPad`, `MCLaunchPadAudio.cfg` | `TitleTruthful`, `InTempo`, `NoMusicUnasked`: two songs and two closures beside the game. 2,069,136 states |
| `heart_timer` | `MCLaunchPad`, `MCLaunchPadAllWorkStopped.cfg` | `AllWorkStopped` is violated |
| `reset_reverts` | `MCLaunchPad`, `MCLaunchPadResetKeepsSong.cfg` | `ResetKeepsSong` is violated |
| `tic_tac_toe` | `TicTacToe`, `TicTacToe.cfg` | `TypeOK`, `FairTurns`, `NeverStuck`, `KeepsTheRules`: the whole game |
| `music_list` | `MCMusicList`, `MCMusicList.cfg` | `TypeOK`, `CellsShowTheirRow`, `CleanCellsShowTheirImage`, `ListCatchesUp`, `ListArrives`. 570,184 states |
| `stale_picture` | `MCMusicList`, `MCMusicListImage.cfg` | `ImageOfCurrentUrl` is violated |
| `login` | `Login`, `Login.cfg` | `TypeOK`, `SignedOutOnLogin`, `TokenKept`, `UserKept`, `MemoryFollowsKeychain`, `LogoutProgresses`, `LogoutDropsToken`. 193,544 states |
| `login_unregistered` | `Login`, `LoginRegistration.cfg` | `MainAfterRegistration` is violated |
| `restaurants` | `MCRestaurants`, `MCRestaurants.cfg` | `TypeOK`, `SyncedPagesTruthful`, `DeathsExplained`, `MenusInStep`, `MenusKept`. 310,740 states |
| `starbucks` | `Starbucks`, `Starbucks.cfg` | `TypeOK`, `PriceOfControls`, `CoverFollowsScene`, `OrderAnnounced`. 11,556 states |

Every property of a passing run has a mutant of the code beside the definition it
replaces (marked "Mutant"), under which TLC finds the property violated.

### Bounds, and why they are enough

- *Closures* (`Tasks`): three, so that two can overlap while a third follows; two
  beside the game, which is enough for every pair of a late and a new one.
- *Songs*: the default, one more with a file, one without: all cases of the two branches.
- *Plays* (`MaxPlays`): two, so that the remains of one play meet the next.
- *Gauge* (`Full`): two hits, so that there is a level that is neither end. `MaxLoss`
  and `MaxCount` cut the score, which nothing but the score depends on.
- *Main queue* (`MaxQueue`): one block for the game, two for the lists. A handler that
  would send another waits, which only delays the handler.
- *Cells and rows*: two cells over at most three rows, so that a cell must be reused.
  The lists have a song without a picture and two songs with one picture.
  `MaxLoads = 1` bounds the fetches of one picture for one cell; more of the
  same could only deliver the same picture again.
- *Screens* (`MaxScreens = 5`): three login screens and two main screens, so that a request
  of the first login screen, or of the first logout, can be answered on the third, with a
  stay in between. *Accounts*: two, so that a late answer can bring another's.
- *Requests* (`MaxUnderWay = 3`): a login with each session and a logout, or two logouts and a
  login. *Retries* (`RetryCount = 2` of three): one error after which the logout is
  tried again and the last one, after which it is not; a third would repeat the first.
- *Restaurants and menus*: two and three at first, four at most: one pull
  is still safe for the detail page, two are not. Two pages: a page is out of date
  because of the other one, in either direction.
- *Cups* (`MaxCups`): three of the stepper's fifty, and two prices; the price is a product,
  so two different numbers already tell a stale one. The theorem has no bound.
- The game of noughts and crosses is unbounded.

`CHECK_DEADLOCK FALSE` is said only for the song lists, which stop when the request has
failed or everything is shown.

### Fairness

- `AudioSpec`: a closure on a global queue runs to its end. `FairSpec` of `LaunchPad`:
  the same, expired work items run, the main queue runs its blocks, a push ends. The code
  leaves all of these to iOS and never cancels the first. Users owe
  nothing, songs need not end, timers are not needed.
- `FairSpec` of `MusicList`: a completion handler that has begun goes on, and the main
  queue runs. Answers of servers and layouts are not assumed to come.
- `Spec` of `Login`: a logout under way goes on, because URLSession answers every request, with
  a timeout if need be. It says nothing of which answer comes: the server may call
  every token invalid. Logins need not be answered, users and the device owe nothing, and
  the process may end at any time.
- `FairSpec` of `Starbucks`: a dismissal that has begun ends, and the system fires a trigger.
  Nobody has to use, leave or launch the app.

## 4. What the properties say

*LaunchPad.* `SettledConsistent`: once the queue is empty `currentItem` and
`player` name one song, unless closures overlapped. `LoneTasks` is the
strengthening: a closure that runs alone performs `setCurrentItem` as if it were
atomic. The exception is needed: two overlapping closures do
separate the fields. `SelectionKept`: a selection that is alone on the queue
stays one, whatever the main thread does between its four steps, until its song is the current one and plays;
without a file the old player plays under its name. A selection another closure joins may be lost
(`reset_reverts`). `OneBeat`: however Play, Stop, changes of track and cancelled
swipes follow one another, at most one work item waits or one timer ticks, and it is one the
next `stopButtonEvent` reaches. `TitleTruthful` and `NoMusicUnasked`: a title drawn
while no closure ran stays right for the visit, and no closure starts music then. A title
drawn while one ran may be wrong for good. `InTempo`: on such a visit `start` and `bpm`, read from
`currentItem` in two handlers with an intro in between, are of one song.
`OnlyViewStopsBeats`: while the button offers Stop, the last beat goes away only with the view.
`KeepsTheBeat` is refinement: a game is one intro, one series of beats and silence, and Play is
never offered before the silence.

*Tic-tac.* `KeepsTheRules` is refinement: every step of the app is a move or a
new game under the rules, and what it announces is how the whole board stands, although
`checkGame` looks only at the player who has moved.

*MusicList.* `CellsShowTheirRow` relates the remembered count, the array another thread
stores and the visible cells. `CleanCellsShowTheirImage` says exactly how far the pictures
can be trusted: a cell with no foreign picture under way when it got its address is
never given one. Without that condition the code fails (`stale_picture`).
`ListCatchesUp`: whenever the list does not show the array, it shows nothing yet and a reload is
still to come.

*Login.* `SignedOutOnLogin`: on a login screen with nothing under way nobody is signed in, in
memory, in the keychain or with Kakao. What it excepts are the cases the code does not handle: a
login still under way at the logout, a keychain that refuses or was never read, a launch that
finds somebody signed in, an answer to a covered screen. `TokenKept` and `UserKept`: whoever came
in with no other request under way at that session stays, as one account, through a keychain
read late and late answers of the other session. With a logout or another login still under
way the code gives no such promise: a late logout deletes the new token, a late refresh
mixes two accounts. `MemoryFollowsKeychain`: Firebase never tells the app of a user a
restart would not bring back. `LogoutDropsToken`: a logout ends with the token
deleted, even when every refreshed token is invalid again, unless the process ends. `LogoutProgresses`
is why: every answer leaves the logout fewer answers to come, whatever other requests do to the token.

*Restaurants.* `SyncedPagesTruthful`: a page which no other page has put out of date shows the
array. `DeathsExplained`: the list dies only over a page that is out of date, or
because there are more restaurants than menus; the detail page only by a drop. `MenusInStep`:
after every drag the table shows the front of `menuData` in its order. `MenusKept`: as a bag, `menuData`
only ever grows, by new menus, although `moveItem` removes a menu before it inserts it again.

*Starbucks.* `PriceOfControls` relates the label and the model to the controls, after any
order of changes on any page that is opened. `CoverFollowsScene` depends on `imageView` never
forgetting a picture that is still there, since only the last one is remembered. An app that
goes back to the background without having been active is not covered, and the property
says so. `OrderAnnounced` has two parts, one for each side of the completion of `dismiss`: a dismissal that has
begun leads to a waiting notification, unless the process ends before; a notification that waits is shown,
even when the process ends, unless the app may not notify.

### Disagreements with comments

- `heart_timer`: "stop all work" when the view disappears, yet the heart timer goes on.
- `reset_reverts`: "reset the player's position", yet the closure can put the
  previous song back over a new selection.
- `stale_picture`: "rule out that the url changes meanwhile", yet the guard compares the
  address with itself.
- `login_unregistered`: "once the user is registered", yet the error is ignored.

## 5. Proofs

All theorems hold for every value of the constants that satisfies the named
assumptions; tlapm checks them without exceptions.

| module | theorem | argument |
|---|---|---|
| `AudioPlayer_proofs` | `AudioTypeCorrect` | inductive as it stands, with the shape of closures (`ClosureOK`) |
| | `AudioLoneTasks`, `AudioSettledConsistent` | together: between its two stores a lone closure knows the song |
| | `AudioSelectionKept` | from `LoneTasks`: while the closure is alone nobody else writes `currentItem` or replaces `player`, so its last step starts its own song, or the old player when there is no file (`KeptBy...`, one lemma per group of steps) |
| `LaunchPad_proofs` | `TypeCorrect`, `FeverNeedsFullGauge`, `MapIndexPermutes` | inductive with types |
| | `BeatsUnderControl`, `NoGameBehindSongs` | `BeatInv`: the references reach the only item or timer, also off screen |
| | `GameEndsWithView` | step by step from `OneBeat` |
| | `GameKeepsTheBeat` | step by step from `BeatInv`, under which `Phase` is never `several`: each action of the game is one of the metronome or leaves phase and button alone (`BeatRefines`) |
| | `BeatsInTempo` | `TempoInv`: on the visit in which the game began the song read by Play is the title's, which by `VisitInv` is still `currentItem`; when the visit ends no work item is left |
| | `TitleTellsTheTruth`, `MusicStartsWithPlay` | `VisitInv`: on a settled visit the only closures are resets, and they hold the title's song |
| | `GameIsAClient` | every step of the game is a step of `AudioSafety` or leaves the player alone |
| | `SongsAgree`, `LoneSelectionsKept` | from `GameIsAClient` and the theorems about the player |
| `TicTacToe_proofs` | `TypeCorrect`, `NeverLeftStuck` | types and `Inv` |
| | `TurnsAreFair` | a move adds one square to one player's set and none to the other's |
| | `AppKeepsTheRules`, `WinnerIsAnnounced` | the loops are the eight lines (`LoopsAreLines`); while a game is open nobody owns a line, and a mark completes no line of the other player (`OthersLines`), so looking at one player is enough |
| `MusicList_proofs` | `ListTypeCorrect`, `VisibleCellsAreRight` | `RowsInv`: until an answer is stored nothing is counted and no cell visible |
| | `CleanCellsStayRight` | `CleanInv`: for a clean cell everything under way is its own picture |
| | `ListIsNeverLeftBehind` | a reload that was sent stays in the queue until it is run (`ReloadWaits`, `ReloadStays`), whatever pictures are delivered before it (`PictureTaken`) |
| `Sessions_proofs` | `FirebaseFollowsKeychain` | inductive under any client: memory is written only after the keychain |
| | `KakaoLogoutProgresses` | from the type of a logout: an error raises the count that bounds the answers to come |
| `Login_proofs` | `SessionsTypeCorrect` | inductive with the height of the pile (`PileOK`) and the place of each logout in it (`LogoutsBehind`) |
| | `AppIsAClient` | every step of the app is a step of each session or leaves it alone; by `LogoutsBehind` a screen asks for one logout at a time |
| | `MemoryIsStored`, `LogoutsProgress` | from `AppIsAClient` and the theorems about the sessions |
| | `SignedOut` | `SettleInv` and `PlacesInv`: on a settled login screen what is left has a request under way that drops it, or belongs to the screen in front |
| | `TokenSurvives`, `UserSurvives` | `TokenInv`, `UserInv`: nothing is under way at that session when the main screen comes and nothing can be asked of it before the next logout; for Google `FrontUser`: a completion in the main queue finds its account set, unless a later one is queued behind it (`Overtaken`) |
| `Restaurants_proofs` | `PagesTypeCorrect`, `SyncedPages`, `WhyItDies` | `EnoughMenus`: the detail page is open only while there is a menu for every row |
| | `MenusStayInStep` | `RowFrom`: where a row of the moved table comes from; `MoveItem` changes the front of `menuData` in the same way |
| | `NoMenuIsLost` | a drag permutes the places of the array: `PlaceFrom` is a bijection between the places of a menu after the drag and before it (`DragPermutes`), so their number is the same; new menus are appended (`AppendedPlaces`) |
| `Starbucks_proofs` | `OrderTypeCorrect`, `LabelIsThePrice` | `PerCup`: the price of a cup is that of the size shown, whatever the number |
| | `CoveredWhenLeft` | `OnlyTheLast`: a picture is there iff the one remembered is |

*Composition.* `AudioPlayer`, `FirebaseAuth` and `KakaoSession` are specifications of their own,
under any client that calls them as the code may. What is proved of them there holds in the
app because the app is such a client: `GameIsAClient` and `AppIsAClient`.

Only model-checked: the liveness properties `SelectionPlays`, `BeatsBegin`, `ListArrives`,
`OrderAnnounced` and `LogoutDropsToken` (they rest on fairness, and what is enabled is beyond the
prover), and the four violations. What can be proved of four of them is their safety half:
`SelectionKept`, `OnlyViewStopsBeats`, `ListCatchesUp` and `LogoutProgresses` say that what is
promised is not lost on the way; that it is reached by the fairness of section 3 is what TLC
adds. Every other property of the passing runs is a theorem.

## 6. Left out of the modelled parts

Colours, layout, animations without a completion, wording of labels, formatting,
logging. Durations: a work item or timer may fire at any time, and `AVAudioPlayer`
may end at any time. The labels of a song cell are set in the same call as its
address and are right when the address is. The texts of a new menu are one model
value. E-mail login only pushes an empty screen.

## 7. Not modelled

- *Refresh of the restaurants around.* `pullToRefreash` calls `requestLocation` on a manager without a
  delegate, which Core Location answers with an exception, so no gesture reaches
  the requests behind it. What they would change (`restInfos`, `page`, `isAvailable`) is never read
  to decide or to show anything. A model would have no behaviour to check.
- *Firebase and Kakao beyond the app.* The refresh of Firebase's ID token, access groups, other ways to
  sign in, the other requests of the Kakao SDK, GIDSignIn's own session, which the app
  never signs out. No code of the app reaches them.
- *Apple ID.* Its credential is read and printed; its revocation is printed. No state depends on it.
- *An abstract player* with an atomic `setCurrentItem` for `AudioPlayer`: the two fields are read one by one
  by the game, so the intermediate states are visible and there is no mapping onto
  an atomic one; `LoneTasks` and `SettledConsistent` say how far atomicity goes.
- *Other vendored code* (`Pods`). Firestore, gRPC, BoringSSL, leveldb and abseil make up nearly all C, C++ and
  Objective-C in the repository; they are linked with Firebase and the apps call none of them.
  RxSwift, Alamofire, layout and page libraries are called, and modelled only by what the
  calls do. Except for the files of the two sessions none of it is modelled from its source,
  so the share of the repository's lines the models cover is small by nature.
- *Risingcamp_week1*, cells, layout, constant data, life-cycle templates: no state that can go wrong.
