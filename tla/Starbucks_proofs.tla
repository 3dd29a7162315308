-------------------------- MODULE Starbucks_proofs --------------------------
(* Proofs about the order page and the privacy picture, for any prices and  *)
(* any number of cups.                                                      *)
EXTENDS Starbucks, TLAPS

USE DEF sceneVars, coverVars, orderVars, noteVars

(* What SceneDelegate.imageView refers to is all there is: a picture lies   *)
(* over the window iff that one does, and an active app has none.           *)
OnlyTheLast ==
    /\ covers = IF lastOn THEN 1 ELSE 0
    /\ scene = "active" => ~lastOn /\ ~unvisited
    /\ scene \in {"inactive", "background"} /\ ~unvisited => lastOn
    /\ scene = "killed" => unvisited

(* The price of a cup is that of the size shown, whatever the number.       *)
PerCup == page # "closed" => orderModel.pricePerCup = coffee + Extra(sizeSegment)

Inv == TypeOK /\ OnlyTheLast /\ PerCup /\ PriceOfControls

(* A total is a number.                                                     *)
LEMMA ProductNat == ASSUME NEW a \in Nat, NEW b \in Nat PROVE a * b \in Nat
OBVIOUS

(* What the three segments of the size stand for.                           *)
LEMMA SizeTypes ==
    ASSUME NEW index \in Segments
    PROVE  /\ CupSize(index) \in CupSizes
           /\ Extra(index) \in Nat
           /\ CupType(index) \in CupTypes
BY DEF Segments, CupSize, CupSizes, Extra, CupType, CupTypes

LEMMA InitInv == Init => Inv
<1> SUFFICES ASSUME Init PROVE Inv
  OBVIOUS
<1> USE MaxCupsAssumption, PricesAssumption DEF Init
<1>1. orderModel \in [pricePerCup : Nat, totalPrice : Nat, cupType : CupTypes,
                      cupSize : CupSizes, numOfCup : 1..MaxCups]
  BY DEF NewOrder, CupTypes, CupSizes
<1>2. /\ unvisited \in BOOLEAN /\ lastOn \in BOOLEAN
      /\ pending \in BOOLEAN /\ delivered \in BOOLEAN
  BY Zenon
<1>3. TypeOK
  BY <1>1, <1>2 DEF TypeOK, Segments
<1> QED BY <1>3 DEF Inv, OnlyTheLast, PerCup, PriceOfControls

(* The callbacks of the scene leave an open page alone; only the end of the *)
(* process closes it.                                                       *)
LEMMA SceneInv == ASSUME Inv, SceneNext PROVE Inv'
<1> USE DEF Inv, TypeOK, OnlyTheLast, PerCup, PriceOfControls
<1>1. CASE DidBecomeActive
  <2>1. /\ lastOn' = FALSE /\ unvisited' = FALSE
        /\ lastOn' \in BOOLEAN /\ unvisited' \in BOOLEAN
    BY <1>1, Zenon DEF DidBecomeActive, RemoveCover
  <2>2. covers' = 0
    BY <1>1 DEF DidBecomeActive, RemoveCover
  <2> QED BY <1>1, <2>1, <2>2 DEF DidBecomeActive, RemoveCover
<1>2. CASE WillResignActive
  BY <1>2 DEF WillResignActive
<1>3. CASE DidEnterBackground
  BY <1>3 DEF DidEnterBackground
<1>4. CASE WillEnterForeground
  <2>1. /\ lastOn' = FALSE /\ unvisited' = TRUE
        /\ lastOn' \in BOOLEAN /\ unvisited' \in BOOLEAN
    BY <1>4, Zenon DEF WillEnterForeground, RemoveCover
  <2>2. covers' = 0
    BY <1>4 DEF WillEnterForeground, RemoveCover
  <2> QED BY <1>4, <2>1, <2>2 DEF WillEnterForeground, RemoveCover
<1>5. CASE Kill
  BY <1>5 DEF Kill
<1>6. CASE Launch
  BY <1>6 DEF Launch
<1> QED BY <1>1, <1>2, <1>3, <1>4, <1>5, <1>6 DEF SceneNext

(* The controls of the order page: each stores its own part before the      *)
(* price is made from all parts.                                            *)
LEMMA PageInv == ASSUME Inv, PageNext PROVE Inv'
<1> USE DEF Inv, TypeOK, OnlyTheLast, PerCup, PriceOfControls, Segments
<1>1. ASSUME NEW c \in Prices, OpenPage(c) PROVE Inv'
  <2>1. c \in Nat
    BY PricesAssumption
  <2>2. orderModel' = [pricePerCup |-> c, totalPrice |-> c, cupType |-> "store",
                       cupSize |-> "Tall", numOfCup |-> 1]
    BY <1>1 DEF OpenPage, NewOrder
  <2>3. orderModel' \in [pricePerCup : Nat, totalPrice : Nat, cupType : CupTypes,
                         cupSize : CupSizes, numOfCup : 1..MaxCups]
    BY <2>1, <2>2, MaxCupsAssumption DEF CupTypes, CupSizes
  <2>4. c = (c + Extra(0)) * 1 /\ CupSize(0) = "Tall" /\ c = c + Extra(0)
    BY <2>1 DEF Extra, CupSize
  <2>5. /\ coffee' = c /\ price' = c /\ page' = "open"
        /\ sizeSegment' = 0 /\ typeSegment' = 0 /\ stepper' = 1
        /\ UNCHANGED <<sceneVars, noteVars>>
    BY <1>1 DEF OpenPage
  <2>6. TypeOK' /\ OnlyTheLast'
    BY <2>1, <2>3, <2>5, MaxCupsAssumption
  <2>7. PerCup' /\ PriceOfControls'
    BY <2>2, <2>4, <2>5
  <2> QED BY <2>6, <2>7
<1>2. ASSUME NEW n \in 1..MaxCups, StepperValueChanged(n) PROVE Inv'
  <2>1. n \in Nat /\ orderModel.pricePerCup * n \in Nat
    BY ProductNat
  <2>2. orderModel' = [orderModel EXCEPT !.numOfCup = n,
                                         !.totalPrice = orderModel.pricePerCup * n]
    BY <1>2 DEF StepperValueChanged, UpdatePriceLabel
  <2> QED BY <1>2, <2>1, <2>2 DEF StepperValueChanged, UpdatePriceLabel, OnPage
<1>3. ASSUME NEW index \in Segments, CupSizeChanged(index) PROVE Inv'
  <2> DEFINE perCup == coffee + Extra(index)
             total == perCup * orderModel.numOfCup
  <2>1. perCup \in Nat
    BY SizeTypes, PricesAssumption
  <2>2. total \in Nat
    BY <2>1, ProductNat
  <2>3. orderModel' = [orderModel EXCEPT !.cupSize = CupSize(index),
                                         !.pricePerCup = perCup,
                                         !.totalPrice = total]
    BY <1>3 DEF CupSizeChanged, UpdatePriceLabel
  <2>4. price' = total
    BY <1>3 DEF CupSizeChanged, UpdatePriceLabel
  <2>5. CupSize(index) \in CupSizes
    BY SizeTypes
  <2> HIDE DEF perCup, total
  <2>6. orderModel' \in [pricePerCup : Nat, totalPrice : Nat, cupType : CupTypes,
                         cupSize : CupSizes, numOfCup : 1..MaxCups]
    BY <2>1, <2>2, <2>3, <2>5
  <2>7. sizeSegment' = index
        /\ UNCHANGED <<sceneVars, page, coffee, stepper, typeSegment, noteVars>>
    BY <1>3 DEF CupSizeChanged
  <2>8. TypeOK' /\ OnlyTheLast'
    BY <2>2, <2>4, <2>6, <2>7
  <2>9. PerCup' /\ PriceOfControls'
    <3>1. page # "closed" /\ orderModel.numOfCup = stepper
      BY <1>3 DEF CupSizeChanged, OnPage
    <3>2. orderModel'.pricePerCup = perCup /\ orderModel'.totalPrice = total
          /\ orderModel'.numOfCup = stepper /\ orderModel'.cupSize = CupSize(index)
      BY <2>3, <3>1
    <3> QED BY <2>4, <2>7, <3>1, <3>2 DEF perCup, total
  <2> QED BY <2>8, <2>9
<1>4. ASSUME NEW index \in Segments, CupTypeChanged(index) PROVE Inv'
  BY <1>4, SizeTypes DEF CupTypeChanged
<1>5. CASE ButtonTapped
  BY <1>5 DEF ButtonTapped, OnPage
<1>6. CASE SwipedAway
  BY <1>6 DEF SwipedAway
<1> QED BY <1>1, <1>2, <1>3, <1>4, <1>5, <1>6 DEF PageNext

(* Notifications touch neither the picture nor an open page.                *)
LEMMA NoteInv == ASSUME Inv, NoteNext PROVE Inv'
<1> USE DEF Inv, TypeOK, OnlyTheLast, PerCup, PriceOfControls
<1>1. CASE Dismissed
  BY <1>1 DEF Dismissed
<1>2. CASE Triggered
  <2>1. delivered' \in BOOLEAN
    BY <1>2 DEF Triggered
  <2> QED BY <1>2, <2>1 DEF Triggered
<1>3. CASE Cleared
  BY <1>3 DEF Cleared
<1>4. ASSUME NEW answer \in {"yes", "no"}, Answered(answer) PROVE Inv'
  BY <1>4 DEF Answered
<1> QED BY <1>1, <1>2, <1>3, <1>4 DEF NoteNext

LEMMA InvHolds == Spec => []Inv
<1>1. Inv /\ [Next]_vars => Inv'
  <2>1. ASSUME Inv, UNCHANGED vars PROVE Inv'
    BY <2>1 DEF vars, Inv, TypeOK, OnlyTheLast, PerCup, PriceOfControls
  <2> QED BY <2>1, SceneInv, PageInv, NoteInv DEF Next
<1> QED BY InitInv, <1>1, PTL DEF Spec

(* Type correctness, for any prices and number of cups.                     *)
THEOREM OrderTypeCorrect == Spec => []TypeOK
BY InvHolds, PTL DEF Inv

(* The label shows the price of what the controls show, after any order of  *)
(* changes.                                                                 *)
THEOREM LabelIsThePrice == Spec => []PriceOfControls
BY InvHolds, PTL DEF Inv

(* No picture over an active app, never two, one over an app that was left. *)
THEOREM CoveredWhenLeft == Spec => []CoverFollowsScene
<1>1. Inv => CoverFollowsScene
  BY DEF Inv, OnlyTheLast, CoverFollowsScene
<1> QED BY <1>1, InvHolds, PTL
=============================================================================
