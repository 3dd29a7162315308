----------------------------- MODULE Starbucks -----------------------------
(***************************************************************************)
(* StarBucks_CLone: the order page (OrderPageViewController with its       *)
(* OrderPageModel), the notification an order sends (CartModel), and the   *)
(* picture SceneDelegate puts over the window when the app is left.  The   *)
(* controls of the page keep values of their own, a notification waits in  *)
(* the system and outlives the process.                                    *)
(***************************************************************************)
EXTENDS Integers

CONSTANTS
    Prices,   \* the prices of the coffees
    MaxCups   \* maximumValue of the stepper: 50

ASSUME PricesAssumption == Prices \subseteq Nat /\ Prices # {}
ASSUME MaxCupsAssumption == MaxCups \in Nat \ {0}

VARIABLES
    scene,       \* the state of the scene; "killed" when there is no process
    unvisited,   \* history: it has entered the foreground and not yet, or not
                 \* since, become active
    covers,      \* how many pictures lie over the window
    lastOn,      \* is the one that SceneDelegate.imageView refers to there?
    page,        \* the order page: "closed", "open" or "dismissing"
    coffee,      \* the price of OrderPageViewController.coffee
    orderModel,  \* OrderPageModel
    price,       \* the number in the price label
    sizeSegment, typeSegment, stepper,  \* what the controls show
    allowed,     \* may the app notify? "undecided", "yes" or "no"
    pending,     \* the request "orderDone" waits for its trigger
    delivered    \* the notification "orderDone" has been shown

coverVars == <<covers, lastOn>>
sceneVars == <<scene, unvisited, coverVars>>
orderVars == <<coffee, orderModel, price, sizeSegment, typeSegment, stepper>>
noteVars == <<allowed, pending, delivered>>
vars == <<sceneVars, page, orderVars, noteVars>>

Segments == 0..2
CupSizes == {"Tall", "Grande", "Venti"}
CupTypes == {"store", "own", "disposable", "misspelt"}

NewOrder == [pricePerCup |-> 0, totalPrice |-> 0, cupType |-> "store",
             cupSize |-> "Tall", numOfCup |-> 1]

\* willConnectTo has run; requestAuthorization asks the user.
Init ==
    /\ scene = "inactive"
    /\ unvisited = TRUE
    /\ covers = 0
    /\ lastOn = FALSE
    /\ page = "closed"
    /\ coffee \in Prices
    /\ orderModel = NewOrder
    /\ price = 0
    /\ sizeSegment = 0 /\ typeSegment = 0 /\ stepper = 1
    /\ allowed = "undecided"
    /\ pending = FALSE
    /\ delivered = FALSE

-----------------------------------------------------------------------------
(* The scene.                                                              *)

\* Mutant: takes a picture off that is off already.
RemoveCoverAgain ==
    /\ covers' = covers - 1
    /\ lastOn' = FALSE

\* imageView?.removeFromSuperview(), nothing for one that is off already.
RemoveCover ==
    /\ covers' = IF lastOn THEN covers - 1 ELSE covers
    /\ lastOn' = FALSE

\* Mutant: leaves the picture on.
DidBecomeActiveCovered ==
    /\ scene = "inactive"
    /\ scene' = "active"
    /\ unvisited' = FALSE
    /\ UNCHANGED <<coverVars, page, orderVars, noteVars>>

DidBecomeActive ==
    /\ scene = "inactive"
    /\ scene' = "active"
    /\ unvisited' = FALSE
    /\ RemoveCover
    /\ UNCHANGED <<page, orderVars, noteVars>>

\* A new picture each time; imageView forgets the one before.
WillResignActive ==
    /\ scene = "active"
    /\ scene' = "inactive"
    /\ covers' = covers + 1
    /\ lastOn' = TRUE
    /\ UNCHANGED <<unvisited, page, orderVars, noteVars>>

DidEnterBackground ==
    /\ scene = "inactive"
    /\ scene' = "background"
    /\ UNCHANGED <<unvisited, coverVars, page, orderVars, noteVars>>

WillEnterForeground ==
    /\ scene = "background"
    /\ scene' = "inactive"
    /\ unvisited' = TRUE
    /\ RemoveCover
    /\ UNCHANGED <<page, orderVars, noteVars>>

\* Mutant: the announcement is a timer of the process.
KillWithAnnouncement ==
    /\ scene \in {"inactive", "background"}
    /\ scene' = "killed"
    /\ unvisited' = TRUE
    /\ covers' = 0
    /\ lastOn' = FALSE
    /\ page' = "closed"
    /\ pending' = FALSE
    /\ UNCHANGED <<orderVars, allowed, delivered>>

\* The user swipes the app away, or the system takes its memory.
Kill ==
    /\ scene \in {"inactive", "background"}
    /\ scene' = "killed"
    /\ unvisited' = TRUE
    /\ covers' = 0
    /\ lastOn' = FALSE
    /\ page' = "closed"
    /\ UNCHANGED <<orderVars, noteVars>>

Launch ==
    /\ scene = "killed"
    /\ scene' = "inactive"
    /\ UNCHANGED <<unvisited, coverVars, page, orderVars, noteVars>>

-----------------------------------------------------------------------------
(* The order page.                                                         *)

\* The segue makes a new controller: viewDidLoad, updateCoffe.
OpenPage(c) ==
    /\ scene = "active"
    /\ page = "closed"
    /\ page' = "open"
    /\ coffee' = c
    /\ orderModel' = [NewOrder EXCEPT !.pricePerCup = c, !.totalPrice = c]
    /\ price' = c
    /\ sizeSegment' = 0 /\ typeSegment' = 0 /\ stepper' = 1
    /\ UNCHANGED <<sceneVars, noteVars>>

OnPage == scene = "active" /\ page = "open"

\* updatePriceLabel, for what the model holds after the change of a control.
UpdatePriceLabel(model) ==
    LET total == model.pricePerCup * model.numOfCup IN
    /\ orderModel' = [model EXCEPT !.totalPrice = total]
    /\ price' = total

\* Mutant: the label is updated before the number is stored.
StepperLate(n) ==
    /\ OnPage
    /\ stepper' = n
    /\ UpdatePriceLabel(orderModel)
    /\ UNCHANGED <<sceneVars, page, coffee, sizeSegment, typeSegment, noteVars>>

\* The stepper wraps, repeats while it is held and is not continuous, so it may
\* come from any value to any other.
StepperValueChanged(n) ==
    /\ OnPage
    /\ stepper' = n
    /\ UpdatePriceLabel([orderModel EXCEPT !.numOfCup = n])
    /\ UNCHANGED <<sceneVars, page, coffee, sizeSegment, typeSegment, noteVars>>

CupSize(index) ==
    CASE index = 0 -> "Tall" [] index = 1 -> "Grande" [] OTHER -> "Venti"
Extra(index) == CASE index = 0 -> 0 [] index = 1 -> 600 [] OTHER -> 1200

CupSizeChanged(index) ==
    /\ OnPage
    /\ sizeSegment' = index
    /\ UpdatePriceLabel([orderModel EXCEPT !.cupSize = CupSize(index),
                                           !.pricePerCup = coffee + Extra(index)])
    /\ UNCHANGED <<sceneVars, page, coffee, stepper, typeSegment, noteVars>>

\* The name stored for the first segment is not the one OrderPageModel begins
\* with: its last letter differs.
CupType(index) ==
    CASE index = 0 -> "misspelt" [] index = 1 -> "own" [] OTHER -> "disposable"

CupTypeChanged(index) ==
    /\ OnPage
    /\ typeSegment' = index
    /\ orderModel' = [orderModel EXCEPT !.cupType = CupType(index)]
    /\ UNCHANGED <<sceneVars, page, coffee, price, stepper, sizeSegment, noteVars>>

\* Both buttons, order and put into the cart: dismiss.
ButtonTapped ==
    /\ OnPage
    /\ page' = "dismissing"
    /\ UNCHANGED <<sceneVars, orderVars, noteVars>>

\* A sheet may also be swiped away.
SwipedAway ==
    /\ OnPage
    /\ page' = "closed"
    /\ UNCHANGED <<sceneVars, orderVars, noteVars>>

-----------------------------------------------------------------------------
(* The notification.                                                       *)

\* Mutant: the request is made and not added.
DismissedOnly ==
    /\ page = "dismissing"
    /\ page' = "closed"
    /\ UNCHANGED <<sceneVars, orderVars, noteVars>>

\* The completion of dismiss, orderPushNotification: one identifier, so a
\* request that still waits is replaced.
Dismissed ==
    /\ page = "dismissing"
    /\ page' = "closed"
    /\ pending' = TRUE
    /\ UNCHANGED <<sceneVars, orderVars, allowed, delivered>>

\* The trigger fires, whether the process is there or not.  In the foreground
\* willPresent asks for a banner too.
Triggered ==
    /\ pending
    /\ pending' = FALSE
    /\ delivered' = (delivered \/ allowed = "yes")
    /\ UNCHANGED <<sceneVars, page, orderVars, allowed>>

\* The user reads or clears it; didReceive does nothing.
Cleared ==
    /\ delivered
    /\ delivered' = FALSE
    /\ UNCHANGED <<sceneVars, page, orderVars, allowed, pending>>

\* The question of the first launch, and the switch in Settings after it.
Answered(answer) ==
    /\ scene # "active"
    /\ allowed' = answer
    /\ UNCHANGED <<sceneVars, page, orderVars, pending, delivered>>

-----------------------------------------------------------------------------
SceneNext ==
    \/ DidBecomeActive
    \/ WillResignActive
    \/ DidEnterBackground
    \/ WillEnterForeground
    \/ Kill
    \/ Launch

PageNext ==
    \/ \E c \in Prices : OpenPage(c)
    \/ \E n \in 1..MaxCups : StepperValueChanged(n)
    \/ \E index \in Segments : CupSizeChanged(index) \/ CupTypeChanged(index)
    \/ ButtonTapped
    \/ SwipedAway

NoteNext ==
    \/ Dismissed
    \/ Triggered
    \/ Cleared
    \/ \E answer \in {"yes", "no"} : Answered(answer)

Next == SceneNext \/ PageNext \/ NoteNext

Spec == Init /\ [][Next]_vars

\* UIKit ends a dismissal, in the background at once; the system fires a
\* trigger.  Nobody has to use, leave or launch the app.
FairSpec == Spec /\ WF_vars(Dismissed) /\ WF_vars(Triggered)

-----------------------------------------------------------------------------
(* Properties.                                                             *)

\* Type invariant.
TypeOK ==
    /\ scene \in {"active", "inactive", "background", "killed"}
    /\ unvisited \in BOOLEAN
    /\ covers \in Nat
    /\ lastOn \in BOOLEAN
    /\ page \in {"closed", "open", "dismissing"}
    /\ coffee \in Prices
    /\ orderModel \in [pricePerCup : Nat, totalPrice : Nat, cupType : CupTypes,
                       cupSize : CupSizes, numOfCup : 1..MaxCups]
    /\ price \in Nat
    /\ sizeSegment \in Segments
    /\ typeSegment \in Segments
    /\ stepper \in 1..MaxCups
    /\ allowed \in {"undecided", "yes", "no"}
    /\ pending \in BOOLEAN
    /\ delivered \in BOOLEAN

\* The label and the model give the price of what the three controls show, in
\* whatever order they were moved, on every page that is opened.
PriceOfControls ==
    page # "closed" =>
        /\ price = (coffee + Extra(sizeSegment)) * stepper
        /\ orderModel.totalPrice = price
        /\ orderModel.numOfCup = stepper
        /\ orderModel.cupSize = CupSize(sizeSegment)

\* Pictures are added and removed by four callbacks of the scene, and only the
\* last one is remembered: none is left over an active app, there is never more
\* than one, and the app is covered whenever it is left, as long as it had
\* become active since it entered the foreground.
CoverFollowsScene ==
    /\ scene = "active" => covers = 0
    /\ covers <= 1
    /\ scene \in {"inactive", "background"} /\ ~unvisited => covers = 1

\* An order is announced.  Only a process that ends before its dismissal is
\* complete takes the order with it; from then on the announcement comes
\* whatever becomes of the process, unless the app may not notify.
OrderAnnounced ==
    /\ page = "dismissing" ~> (pending \/ scene = "killed")
    /\ (pending /\ allowed = "yes") ~> (delivered \/ allowed # "yes")
=============================================================================
