------------------------- MODULE Restaurants_proofs -------------------------
(* Proofs about the restaurant pages: type correctness, the pages no other  *)
(* page has put out of date, and why the process can die, for any number of *)
(* pages and any restaurants and menus.                                     *)
EXTENDS Restaurants, SequenceTheorems, FunctionTheorems, FiniteSetTheorems, TLAPS

USE DEF dataVars, detailVars, pageVars

LEMMA Removed ==
    ASSUME NEW S, NEW s \in Seq(S), NEW i \in 1..Len(s)
    PROVE  RemoveAt(s, i) \in Seq(S) /\ Len(RemoveAt(s, i)) = Len(s) - 1
<1> DEFINE front == SubSeq(s, 1, i - 1)
           back == SubSeq(s, i + 1, Len(s))
<1>1. front \in Seq(S) /\ Len(front) = i - 1
  BY SubSeqProperties
<1>2. back \in Seq(S) /\ Len(back) = Len(s) - i
  BY SubSeqProperties
<1> HIDE DEF front, back
<1>3. front \o back \in Seq(S) /\ Len(front \o back) = Len(front) + Len(back)
  BY <1>1, <1>2, ConcatProperties
<1>4. Len(front) + Len(back) = Len(s) - 1
  BY <1>1, <1>2
<1>5. RemoveAt(s, i) = front \o back
  BY DEF RemoveAt, front, back
<1> QED BY <1>3, <1>4, <1>5

LEMMA InsertedLength ==
    ASSUME NEW S, NEW s \in Seq(S), NEW i \in 1..(Len(s) + 1), NEW e \in S
    PROVE  InsertAt(s, i, e) \in Seq(S) /\ Len(InsertAt(s, i, e)) = Len(s) + 1
<1> DEFINE front == SubSeq(s, 1, i - 1)
           back == SubSeq(s, i, Len(s))
<1>1. front \in Seq(S) /\ Len(front) = i - 1
  BY SubSeqProperties
<1>2. back \in Seq(S) /\ Len(back) = Len(s) + 1 - i
  BY SubSeqProperties
<1>3. <<e>> \in Seq(S) /\ Len(<<e>>) = 1
  OBVIOUS
<1> HIDE DEF front, back
<1> DEFINE middle == front \o <<e>>
<1>4. middle \in Seq(S) /\ Len(middle) = i
  BY <1>1, <1>3, ConcatProperties
<1> HIDE DEF middle
<1>5. middle \o back \in Seq(S) /\ Len(middle \o back) = Len(middle) + Len(back)
  BY <1>2, <1>4, ConcatProperties
<1>6. Len(middle) + Len(back) = Len(s) + 1
  BY <1>2, <1>4
<1>7. InsertAt(s, i, e) = middle \o back
  BY DEF InsertAt, front, back, middle
<1> QED BY <1>5, <1>6, <1>7

LEMMA MenuRowsType ==
    ASSUME tableData \in Seq(Places), NEW m \in Seq(Menus),
           Len(tableData) <= Len(m)
    PROVE  MenuRows(m) \in Seq(Menus) /\ Len(MenuRows(m)) = Len(tableData)
BY SubSeqProperties DEF MenuRows

-----------------------------------------------------------------------------
(* The detail page is only open while there is a menu for every row.        *)
EnoughMenus ==
    screen = "detail" =>
        /\ Len(tableData) <= Len(menuData)
        /\ Len(drawnMenus) <= Len(menuData)

TypeInv == TypeOK /\ EnoughMenus

LEMMA TypeInvHolds == Spec => []TypeInv
<1> USE DEF TypeInv, TypeOK, EnoughMenus
<1>1. Init => TypeInv
  BY DataAssumption, PagesAssumption DEF Init, Places
<1>2. TypeInv /\ [Next]_vars => TypeInv'
  <2> SUFFICES ASSUME TypeInv, [Next]_vars PROVE TypeInv'
    OBVIOUS
  <2>1. ASSUME NEW why \in {"index", "rows", "menus"}, Die(why) PROVE TypeInv'
    BY <2>1 DEF Die
  <2>2. ChangedHere => foreign' \in [Pages -> BOOLEAN]
    BY DEF ChangedHere
  <2>3. ASSUME NEW p \in Pages, ShowPage(p) PROVE TypeInv'
    BY <2>3 DEF ShowPage, OnList
  <2>4. CASE PullToRefreash
    <3>1. tableData' \in Seq(Places)
      BY <2>4 DEF PullToRefreash, Places
    <3>2. foreign' \in [Pages -> BOOLEAN]
      BY <2>4 DEF PullToRefreash
    <3> QED BY <2>4, <3>1, <3>2 DEF PullToRefreash, OnList
  <2>5. ASSUME NEW r \in 1..Len(drawn[page]), DrawRow(r) PROVE TypeInv'
    <3>1. CASE Die("index")
      BY <2>1, <3>1
    <3>2. CASE r <= Len(tableData) /\ drawn' = [drawn EXCEPT ![page][r] = tableData[r]]
      <4>1. tableData[r] \in Places
        BY <3>2
      <4>2. drawn' \in [Pages -> Seq(Places)]
        BY <3>2, <4>1
      <4> QED BY <2>5, <4>2 DEF DrawRow, OnList, Die
    <3> QED BY <2>5, <3>1, <3>2 DEF DrawRow
  <2>6. ASSUME NEW r \in 1..Len(drawn[page]), DeleteRow(r) PROVE TypeInv'
    <3>1. CASE Die("index") \/ Die("rows")
      BY <2>1, <3>1
    <3>2. CASE Len(tableData) = Len(drawn[page]) /\ tableData' = RemoveAt(tableData, r)
      <4>1. RemoveAt(tableData, r) \in Seq(Places)
            /\ RemoveAt(drawn[page], r) \in Seq(Places)
        BY <3>2, Removed
      <4> QED BY <2>2, <2>6, <3>2, <4>1 DEF DeleteRow, OnList, Die
    <3> QED BY <2>6, <3>1, <3>2 DEF DeleteRow
  <2>7. ASSUME NEW r \in 1..Len(drawn[page]), SelectRow(r) PROVE TypeInv'
    <3>1. CASE Die("index") \/ Die("menus")
      BY <2>1, <3>1
    <3>2. CASE r <= Len(tableData) /\ Len(tableData) <= Len(menuData)
               /\ data' = tableData[r] /\ screen' = "detail"
               /\ drawnMenus' = MenuRows(menuData)
               /\ UNCHANGED <<dataVars, pageVars, died>>
      BY <3>2, MenuRowsType
    <3> QED BY <2>7, <3>1, <3>2 DEF SelectRow
  <2>8. CASE Reopen
    <3>1. foreign' \in [Pages -> BOOLEAN]
      BY <2>8 DEF Reopen, PagesOpened
    <3> QED BY <2>8, <3>1, PagesAssumption DEF Reopen, PagesOpened, OnList
  <2>9. CASE AddMenu
    <3>1. menuData' \in Seq(Menus) /\ Len(menuData') = Len(menuData) + 1
      BY <2>9 DEF AddMenu, Menus
    <3>2. MenuRows(menuData') \in Seq(Menus) /\ Len(MenuRows(menuData')) = Len(tableData)
      <4>1. Len(tableData) <= Len(menuData')
        BY <2>9, <3>1 DEF AddMenu, OnDetail
      <4> QED BY <3>1, <4>1, MenuRowsType
    <3> QED BY <2>9, <3>1, <3>2 DEF AddMenu, OnDetail
  <2>10. ASSUME NEW i \in 1..Len(drawnMenus), NEW j \in 1..Len(drawnMenus),
                MoveMenu(i, j)
         PROVE  TypeInv'
    <3>1. i \in 1..Len(menuData) /\ j \in 1..Len(menuData)
      BY <2>10 DEF MoveMenu, OnDetail
    <3>2. menuData' \in Seq(Menus) /\ Len(menuData') = Len(menuData)
      <4>1. RemoveAt(menuData, i) \in Seq(Menus)
            /\ Len(RemoveAt(menuData, i)) = Len(menuData) - 1
        BY <3>1, Removed
      <4>2. menuData[i] \in Menus
        BY <3>1
      <4>3. InsertAt(RemoveAt(menuData, i), j, menuData[i]) \in Seq(Menus)
            /\ Len(InsertAt(RemoveAt(menuData, i), j, menuData[i])) = Len(menuData)
        BY <3>1, <4>1, <4>2, InsertedLength
      <4> QED BY <2>10, <4>3 DEF MoveMenu, MoveItem
    <3>3. drawnMenus' \in Seq(Menus) /\ Len(drawnMenus') = Len(drawnMenus)
      <4>1. RemoveAt(drawnMenus, i) \in Seq(Menus)
            /\ Len(RemoveAt(drawnMenus, i)) = Len(drawnMenus) - 1
        BY Removed
      <4> QED BY <2>10, <4>1, InsertedLength DEF MoveMenu, Dragged
    <3> QED BY <2>10, <3>2, <3>3 DEF MoveMenu, OnDetail
  <2>11. CASE DropMenu
    BY <2>1, <2>11 DEF DropMenu
  <2>12. CASE CloseDetail
    BY <2>12 DEF CloseDetail, OnDetail
  <2>13. CASE Relaunch
    <3>1. foreign' \in [Pages -> BOOLEAN]
      BY <2>13 DEF Relaunch, PagesOpened
    <3> QED
      BY <2>13, <3>1, PagesAssumption, DataAssumption DEF Relaunch, PagesOpened, Places
  <2>14. CASE UNCHANGED vars
    BY <2>14 DEF vars
  <2> QED
    BY <2>3, <2>4, <2>5, <2>6, <2>7, <2>8, <2>9, <2>10, <2>11, <2>12, <2>13,
       <2>14 DEF Next
<1> QED BY <1>1, <1>2, PTL DEF Spec

\* The type of every variable is kept by every step.
THEOREM PagesTypeCorrect == Spec => []TypeOK
BY TypeInvHolds, PTL DEF TypeInv

-----------------------------------------------------------------------------
\* A page whose rows no other page has changed shows the array exactly.
THEOREM SyncedPages == Spec => []SyncedPagesTruthful
<1>1. Init => SyncedPagesTruthful
  BY PagesAssumption DEF Init, SyncedPagesTruthful
<1>2. TypeOK /\ SyncedPagesTruthful /\ [Next]_vars => SyncedPagesTruthful'
  <2> SUFFICES ASSUME TypeOK, SyncedPagesTruthful, [Next]_vars,
                      NEW q \in loaded', ~foreign'[q]
               PROVE  drawn'[q] = tableData'
    BY DEF SyncedPagesTruthful
  <2> USE DEF TypeOK, SyncedPagesTruthful
  <2>1. CASE UNCHANGED <<tableData, loaded, drawn, foreign>>
    BY <2>1
  <2>2. ASSUME NEW p \in Pages, ShowPage(p) PROVE drawn'[q] = tableData'
    BY <2>2 DEF ShowPage
  <2>3. CASE PullToRefreash
    BY <2>3 DEF PullToRefreash
  <2>4. ASSUME NEW r \in 1..Len(drawn[page]), DrawRow(r) PROVE drawn'[q] = tableData'
    <3>1. CASE Die("index")
      BY <2>1, <3>1 DEF Die
    <3>2. CASE drawn' = [drawn EXCEPT ![page][r] = tableData[r]]
               /\ UNCHANGED <<tableData, loaded, foreign>>
      <4>1. CASE q = page
        <5>1. drawn[page] = tableData
          BY <3>2, <4>1
        <5> QED BY <3>2, <4>1, <5>1
      <4>2. CASE q # page
        BY <3>2, <4>2
      <4> QED BY <4>1, <4>2
    <3> QED BY <2>4, <3>1, <3>2 DEF DrawRow
  <2>5. ASSUME NEW r \in 1..Len(drawn[page]), DeleteRow(r) PROVE drawn'[q] = tableData'
    <3>1. CASE Die("index") \/ Die("rows")
      BY <2>1, <3>1 DEF Die
    <3>2. CASE /\ tableData' = RemoveAt(tableData, r)
               /\ drawn' = [drawn EXCEPT ![page] = RemoveAt(@, r)]
               /\ ChangedHere /\ UNCHANGED loaded
      <4>1. q = page /\ ~foreign[page]
        BY <3>2 DEF ChangedHere
      <4> QED BY <3>2, <4>1
    <3> QED BY <2>5, <3>1, <3>2 DEF DeleteRow
  <2>6. ASSUME NEW r \in 1..Len(drawn[page]), SelectRow(r) PROVE drawn'[q] = tableData'
    BY <2>1, <2>6 DEF SelectRow, Die
  <2>7. CASE Reopen
    BY <2>7, PagesAssumption DEF Reopen, PagesOpened
  <2>8. CASE AddMenu \/ DropMenu \/ CloseDetail
    BY <2>1, <2>8 DEF AddMenu, DropMenu, CloseDetail, Die
  <2>9. ASSUME NEW i \in 1..Len(drawnMenus), NEW j \in 1..Len(drawnMenus),
               MoveMenu(i, j)
        PROVE  drawn'[q] = tableData'
    BY <2>1, <2>9 DEF MoveMenu
  <2>10. CASE Relaunch
    BY <2>10, PagesAssumption DEF Relaunch, PagesOpened
  <2>11. CASE UNCHANGED vars
    BY <2>1, <2>11 DEF vars
  <2> QED
    BY <2>2, <2>3, <2>4, <2>5, <2>6, <2>7, <2>8, <2>9, <2>10, <2>11 DEF Next
<1> QED BY <1>1, <1>2, PagesTypeCorrect, PTL DEF Spec

\* The process dies only for the three reasons named.
THEOREM WhyItDies == Spec => []DeathsExplained
<1>1. Init => DeathsExplained
  BY DEF Init, DeathsExplained
<1>2. /\ TypeOK /\ SyncedPagesTruthful /\ DeathsExplained
      /\ [Next]_vars
      => DeathsExplained'
  <2> SUFFICES ASSUME TypeOK, SyncedPagesTruthful, DeathsExplained, [Next]_vars
               PROVE  DeathsExplained'
    OBVIOUS
  <2> USE DEF DeathsExplained
  <2>1. foreign[page] \/ drawn[page] = tableData
    BY DEF SyncedPagesTruthful, TypeOK
  <2>2. ASSUME NEW p \in Pages, ShowPage(p) PROVE DeathsExplained'
    BY <2>2 DEF ShowPage, OnList
  <2>3. CASE PullToRefreash
    BY <2>3 DEF PullToRefreash, OnList
  <2>4. ASSUME NEW r \in 1..Len(drawn[page]), DrawRow(r) PROVE DeathsExplained'
    BY <2>1, <2>4 DEF DrawRow, OnList, Die, TypeOK
  <2>5. ASSUME NEW r \in 1..Len(drawn[page]), DeleteRow(r) PROVE DeathsExplained'
    BY <2>1, <2>5 DEF DeleteRow, OnList, Die, TypeOK
  <2>6. ASSUME NEW r \in 1..Len(drawn[page]), SelectRow(r) PROVE DeathsExplained'
    BY <2>1, <2>6 DEF SelectRow, OnList, Die, TypeOK
  <2>7. CASE Reopen \/ AddMenu \/ CloseDetail
    BY <2>7 DEF Reopen, AddMenu, CloseDetail, OnList, OnDetail
  <2>8. ASSUME NEW i \in 1..Len(drawnMenus), NEW j \in 1..Len(drawnMenus),
               MoveMenu(i, j)
        PROVE  DeathsExplained'
    BY <2>8 DEF MoveMenu, OnDetail
  <2>9. CASE DropMenu
    BY <2>9 DEF DropMenu, OnDetail, Die
  <2>10. CASE Relaunch
    BY <2>10 DEF Relaunch
  <2>11. CASE UNCHANGED vars
    BY <2>11 DEF vars
  <2> QED
    BY <2>2, <2>3, <2>4, <2>5, <2>6, <2>7, <2>8, <2>9, <2>10, <2>11 DEF Next
<1> QED BY <1>1, <1>2, PagesTypeCorrect, SyncedPages, PTL DEF Spec

-----------------------------------------------------------------------------
(* A drag.  MoveItem moves a menu in the array, Dragged a row on the screen. *)

LEMMA RemovedRows ==
    ASSUME NEW S, NEW s \in Seq(S), NEW i \in 1..Len(s), NEW k \in 1..(Len(s) - 1)
    PROVE  RemoveAt(s, i)[k] = IF k < i THEN s[k] ELSE s[k + 1]
<1> DEFINE front == SubSeq(s, 1, i - 1)
           back == SubSeq(s, i + 1, Len(s))
<1>1. front \in Seq(S) /\ Len(front) = i - 1 /\ \A l \in 1..(i - 1) : front[l] = s[l]
  BY SubSeqProperties
<1>2. /\ back \in Seq(S) /\ Len(back) = Len(s) - i
      /\ \A l \in 1..(Len(s) - i) : back[l] = s[i + l]
  BY SubSeqProperties
<1> HIDE DEF front, back
<1>3. /\ k < i => (front \o back)[k] = front[k]
      /\ k >= i => (front \o back)[k] = back[k - (i - 1)]
  BY <1>1, <1>2, ConcatProperties
<1>4. k < i => front[k] = s[k]
  BY <1>1
<1>5. k >= i => back[k - (i - 1)] = s[k + 1]
  BY <1>2
<1>6. RemoveAt(s, i) = front \o back
  BY DEF RemoveAt, front, back
<1>7. k < i \/ k >= i
  OBVIOUS
<1>8. CASE k < i
  BY <1>3, <1>4, <1>6, <1>8
<1>9. CASE k >= i
  <2>1. RemoveAt(s, i)[k] = s[k + 1]
    BY <1>3, <1>5, <1>6, <1>9, Zenon
  <2>2. ~(k < i)
    BY <1>9
  <2> QED BY <2>1, <2>2, Zenon
<1> QED BY <1>7, <1>8, <1>9

LEMMA InsertedRows ==
    ASSUME NEW S, NEW s \in Seq(S), NEW i \in 1..(Len(s) + 1), NEW e \in S,
           NEW k \in 1..(Len(s) + 1)
    PROVE  InsertAt(s, i, e)[k] = CASE k < i -> s[k]
                                    [] k = i -> e
                                    [] OTHER -> s[k - 1]
<1> DEFINE front == SubSeq(s, 1, i - 1)
           back == SubSeq(s, i, Len(s))
<1>1. front \in Seq(S) /\ Len(front) = i - 1 /\ \A l \in 1..(i - 1) : front[l] = s[l]
  BY SubSeqProperties
<1>2. /\ back \in Seq(S) /\ Len(back) = Len(s) + 1 - i
      /\ \A l \in 1..(Len(s) + 1 - i) : back[l] = s[i - 1 + l]
  BY SubSeqProperties
<1> HIDE DEF front, back
<1> DEFINE middle == front \o <<e>>
<1>3. /\ middle \in Seq(S) /\ Len(middle) = i
      /\ \A l \in 1..(i - 1) : middle[l] = front[l]
      /\ middle[i] = e
  BY <1>1
<1> HIDE DEF middle
<1>4. /\ k <= i => (middle \o back)[k] = middle[k]
      /\ k > i => (middle \o back)[k] = back[k - i]
  BY <1>2, <1>3, ConcatProperties
<1>5. k < i => middle[k] = s[k]
  BY <1>1, <1>3
<1>6. k > i => back[k - i] = s[k - 1]
  BY <1>2
<1>7. InsertAt(s, i, e) = middle \o back
  BY DEF InsertAt, front, back, middle
<1>8. CASE k < i
  <2>1. k <= i
    BY <1>8
  <2>2. InsertAt(s, i, e)[k] = s[k]
    BY <1>4, <1>5, <1>7, <1>8, <2>1, Zenon
  <2> QED BY <1>8, <2>2
<1>9. CASE k = i
  <2>1. InsertAt(s, i, e)[k] = e
    BY <1>3, <1>4, <1>7, <1>9
  <2> QED BY <1>9, <2>1
<1>10. CASE k > i
  <2>1. InsertAt(s, i, e)[k] = s[k - 1]
    BY <1>4, <1>6, <1>7, <1>10
  <2> QED BY <1>10, <2>1
<1> QED BY <1>8, <1>9, <1>10

\* Where row k comes from when row i of s is dragged to row j.
RowFrom(s, i, j, k) == CASE k = j -> s[i]
                         [] k < j -> (IF k < i THEN s[k] ELSE s[k + 1])
                         [] OTHER -> (IF k - 1 < i THEN s[k - 1] ELSE s[k])

LEMMA DraggedRows ==
    ASSUME NEW S, NEW s \in Seq(S), NEW i \in 1..Len(s), NEW j \in 1..Len(s)
    PROVE  /\ Dragged(s, i, j) \in Seq(S)
           /\ Len(Dragged(s, i, j)) = Len(s)
           /\ \A k \in 1..Len(s) : Dragged(s, i, j)[k] = RowFrom(s, i, j, k)
<1> DEFINE r == RemoveAt(s, i)
<1>1. r \in Seq(S) /\ Len(r) = Len(s) - 1
  BY Removed
<1>2. \A l \in 1..(Len(s) - 1) : r[l] = IF l < i THEN s[l] ELSE s[l + 1]
  BY RemovedRows
<1>3. s[i] \in S /\ Dragged(s, i, j) = InsertAt(r, j, s[i])
  BY DEF Dragged
<1> HIDE DEF r
<1>4. InsertAt(r, j, s[i]) \in Seq(S) /\ Len(InsertAt(r, j, s[i])) = Len(s)
  BY <1>1, <1>3, InsertedLength
<1>5. ASSUME NEW k \in 1..Len(s)
      PROVE  Dragged(s, i, j)[k] = RowFrom(s, i, j, k)
  <2>1. InsertAt(r, j, s[i])[k] = CASE k < j -> r[k]
                                    [] k = j -> s[i]
                                    [] OTHER -> r[k - 1]
    BY <1>1, <1>3, InsertedRows
  <2>2. CASE k = j
    BY <1>3, <2>1, <2>2 DEF RowFrom
  <2>3. CASE k < j
    BY <1>2, <1>3, <2>1, <2>3 DEF RowFrom
  <2>4. CASE k > j
    <3>1. k - 1 \in 1..(Len(s) - 1)
      BY <2>4
    <3>2. Dragged(s, i, j)[k] = r[k - 1]
      BY <1>3, <2>1, <2>4
    <3> QED BY <1>2, <2>4, <3>1, <3>2 DEF RowFrom
  <2> QED BY <2>2, <2>3, <2>4
<1> QED BY <1>3, <1>4, <1>5

\* Dragging within the front of a sequence drags the sequence.
LEMMA DraggedFront ==
    ASSUME NEW S, NEW s \in Seq(S), NEW n \in 0..Len(s), NEW i \in 1..n, NEW j \in 1..n
    PROVE  Dragged(SubSeq(s, 1, n), i, j) = SubSeq(Dragged(s, i, j), 1, n)
<1> DEFINE front == SubSeq(s, 1, n)
           whole == Dragged(s, i, j)
<1>0. i \in 1..Len(s) /\ j \in 1..Len(s) /\ 1..n \subseteq 1..Len(s)
  OBVIOUS
<1>1. front \in Seq(S) /\ Len(front) = n /\ \A k \in 1..n : front[k] = s[k]
  BY SubSeqProperties
<1> HIDE DEF front
<1>2. /\ whole \in Seq(S) /\ Len(whole) = Len(s)
      /\ \A k \in 1..Len(s) : whole[k] = RowFrom(s, i, j, k)
  BY <1>0, DraggedRows
<1> HIDE DEF whole
<1>3. /\ Dragged(front, i, j) \in Seq(S) /\ Len(Dragged(front, i, j)) = n
      /\ \A k \in 1..n : Dragged(front, i, j)[k] = RowFrom(front, i, j, k)
  BY <1>1, DraggedRows
<1>4. /\ SubSeq(whole, 1, n) \in Seq(S) /\ Len(SubSeq(whole, 1, n)) = n
      /\ \A k \in 1..n : SubSeq(whole, 1, n)[k] = whole[k]
  BY <1>2, SubSeqProperties
<1>5. \A k \in 1..n : RowFrom(front, i, j, k) = RowFrom(s, i, j, k)
  BY <1>1 DEF RowFrom
<1>6. Dragged(front, i, j) = SubSeq(whole, 1, n)
  BY <1>0, <1>2, <1>3, <1>4, <1>5, SeqEqual
<1> QED BY <1>6 DEF front, whole

\* A row dragged to its own place changes nothing, so that the early return of
\* moveItem leaves out nothing.
LEMMA DraggedNowhere ==
    ASSUME NEW S, NEW s \in Seq(S), NEW i \in 1..Len(s)
    PROVE  Dragged(s, i, i) = s
<1>1. /\ Dragged(s, i, i) \in Seq(S) /\ Len(Dragged(s, i, i)) = Len(s)
      /\ \A k \in 1..Len(s) : Dragged(s, i, i)[k] = RowFrom(s, i, i, k)
  BY DraggedRows
<1>2. \A k \in 1..Len(s) : RowFrom(s, i, i, k) = s[k]
  BY DEF RowFrom
<1> QED BY <1>1, <1>2, SeqEqual

\* moveItem, early return included, is the drag of the whole array.
LEMMA MoveItemDrags ==
    ASSUME menuData \in Seq(Menus), NEW i \in 1..Len(menuData), NEW j \in 1..Len(menuData)
    PROVE  MoveItem(i, j) = Dragged(menuData, i, j)
<1>1. CASE i = j
  BY <1>1, DraggedNowhere DEF MoveItem
<1>2. CASE i # j
  BY <1>2 DEF MoveItem, Dragged
<1> QED BY <1>1, <1>2

\* While the detail page is open its table is the front of menuData, however
\* menus are added and dragged.
THEOREM MenusStayInStep == Spec => []MenusInStep
<1>1. Init => MenusInStep
  BY DEF Init, MenusInStep, OnDetail
<1>2. TypeOK /\ MenusInStep /\ [Next]_vars => MenusInStep'
  <2> SUFFICES ASSUME TypeOK, MenusInStep, [Next]_vars, OnDetail'
               PROVE  Len(tableData') <= Len(menuData') /\ drawnMenus' = MenuRows(menuData)'
    BY DEF MenusInStep
  <2>0. tableData \in Seq(Places) /\ menuData \in Seq(Menus)
    BY DEF TypeOK
  <2> DEFINE InStep == Len(tableData) <= Len(menuData) /\ drawnMenus = MenuRows(menuData)
  <2>1. ASSUME NEW r \in 1..Len(drawn[page]), SelectRow(r) PROVE InStep'
    BY <2>1 DEF SelectRow, Die, OnDetail, MenuRows
  <2>2. CASE AddMenu
    <3>1. Len(menuData') = Len(menuData) + 1 /\ Len(tableData) <= Len(menuData)
      BY <2>0, <2>2 DEF AddMenu, MenusInStep
    <3>2. Len(tableData') <= Len(menuData')
      BY <2>0, <2>2, <3>1 DEF AddMenu
    <3> QED BY <2>2, <3>2 DEF AddMenu, MenuRows
  <2>3. ASSUME NEW i \in 1..Len(drawnMenus), NEW j \in 1..Len(drawnMenus),
               MoveMenu(i, j)
        PROVE  InStep'
    <3>1. /\ Len(tableData) <= Len(menuData) /\ drawnMenus = MenuRows(menuData)
          /\ menuData' = MoveItem(i, j) /\ drawnMenus' = Dragged(drawnMenus, i, j)
          /\ UNCHANGED tableData
      BY <2>3 DEF MoveMenu, MenusInStep
    <3>2. Len(drawnMenus) = Len(tableData) /\ Len(tableData) \in 0..Len(menuData)
      BY <2>0, <3>1, MenuRowsType
    <3>3. i \in 1..Len(menuData) /\ j \in 1..Len(menuData)
      BY <2>0, <3>2
    <3>4. MoveItem(i, j) = Dragged(menuData, i, j)
      BY <2>0, <3>3, MoveItemDrags
    <3>5. Len(menuData') = Len(menuData)
      BY <2>0, <3>1, <3>3, <3>4, DraggedRows
    <3>6. drawnMenus' = SubSeq(menuData', 1, Len(tableData))
      BY <2>0, <3>1, <3>2, <3>4, DraggedFront DEF MenuRows
    <3> QED BY <3>1, <3>5, <3>6 DEF MenuRows
  <2>5. CASE DropMenu \/ CloseDetail \/ Relaunch \/ Reopen \/ PullToRefreash
    BY <2>5 DEF DropMenu, CloseDetail, Relaunch, Reopen, PullToRefreash, Die, OnDetail, OnList
  <2>6. ASSUME NEW p \in Pages, ShowPage(p) PROVE FALSE
    BY <2>6 DEF ShowPage, OnList, OnDetail
  <2>7. ASSUME NEW r \in 1..Len(drawn[page]), DrawRow(r) \/ DeleteRow(r) PROVE InStep'
    BY <2>7 DEF DrawRow, DeleteRow, OnList, OnDetail, Die
  <2>8. CASE UNCHANGED vars
    BY <2>8 DEF vars, MenusInStep, OnDetail, MenuRows
  <2> QED
    BY <2>1, <2>2, <2>3, <2>5, <2>6, <2>7, <2>8 DEF Next
<1> QED BY <1>1, <1>2, PagesTypeCorrect, PTL DEF Spec

-----------------------------------------------------------------------------
(* A drag is a permutation.                                                *)

\* The place from which row k comes.
PlaceFrom(i, j, k) == CASE k = j -> i
                        [] k < j -> (IF k < i THEN k ELSE k + 1)
                        [] OTHER -> (IF k - 1 < i THEN k - 1 ELSE k)

LEMMA RowOfPlace ==
    ASSUME NEW S, NEW s \in Seq(S), NEW i \in 1..Len(s), NEW j \in 1..Len(s),
           NEW k \in 1..Len(s)
    PROVE  /\ PlaceFrom(i, j, k) \in 1..Len(s)
           /\ RowFrom(s, i, j, k) = s[PlaceFrom(i, j, k)]
<1>1. CASE k = j
  BY <1>1 DEF RowFrom, PlaceFrom
<1>2. CASE k < j
  BY <1>2 DEF RowFrom, PlaceFrom
<1>3. CASE k > j
  BY <1>3 DEF RowFrom, PlaceFrom
<1> QED BY <1>1, <1>2, <1>3

\* Dragging row j back to i undoes it, so no place is taken from twice and none
\* is left out.
LEMMA DragBack ==
    ASSUME NEW n \in Nat, NEW i \in 1..n, NEW j \in 1..n, NEW k \in 1..n
    PROVE  /\ PlaceFrom(j, i, k) \in 1..n
           /\ PlaceFrom(i, j, PlaceFrom(j, i, k)) = k
<1>1. CASE k = i
  BY <1>1 DEF PlaceFrom
<1>2. CASE k < i
  BY <1>2 DEF PlaceFrom
<1>3. CASE k > i
  BY <1>3 DEF PlaceFrom
<1> QED BY <1>1, <1>2, <1>3

LEMMA PlacesFinite ==
    ASSUME NEW S, NEW s \in Seq(S), NEW e
    PROVE  IsFiniteSet(PlacesOf(e, s)) /\ Cardinality(PlacesOf(e, s)) \in Nat
<1>1. IsFiniteSet(1..Len(s))
  <2>1. 1 \in Int /\ Len(s) \in Int
    OBVIOUS
  <2> QED BY <2>1, FS_Interval
<1>2. PlacesOf(e, s) \subseteq 1..Len(s)
  BY DEF PlacesOf
<1> QED BY <1>1, <1>2, FS_Subset, FS_CardinalityType

\* A drag gives every element as many places as it had.
LEMMA DragPermutes ==
    ASSUME NEW S, NEW s \in Seq(S), NEW i \in 1..Len(s), NEW j \in 1..Len(s), NEW e
    PROVE  Cardinality(PlacesOf(e, Dragged(s, i, j))) = Cardinality(PlacesOf(e, s))
<1> DEFINE t == Dragged(s, i, j)
           from == [k \in PlacesOf(e, t) |-> PlaceFrom(i, j, k)]
<1>1. /\ t \in Seq(S) /\ Len(t) = Len(s)
      /\ \A k \in 1..Len(s) : /\ PlaceFrom(i, j, k) \in 1..Len(s)
                              /\ t[k] = s[PlaceFrom(i, j, k)]
  <2>1. /\ t \in Seq(S) /\ Len(t) = Len(s)
        /\ \A k \in 1..Len(s) : t[k] = RowFrom(s, i, j, k)
    BY DraggedRows
  <2>2. \A k \in 1..Len(s) : /\ PlaceFrom(i, j, k) \in 1..Len(s)
                             /\ RowFrom(s, i, j, k) = s[PlaceFrom(i, j, k)]
    BY RowOfPlace
  <2> HIDE DEF t
  <2> QED BY <2>1, <2>2
<1>2. \A k \in 1..Len(s) : /\ PlaceFrom(j, i, k) \in 1..Len(s)
                           /\ PlaceFrom(i, j, PlaceFrom(j, i, k)) = k
                           /\ PlaceFrom(j, i, PlaceFrom(i, j, k)) = k
  BY DragBack, <1>1
<1> HIDE DEF t
<1>3. from \in [PlacesOf(e, t) -> PlacesOf(e, s)]
  BY <1>1 DEF PlacesOf
<1>4. ASSUME NEW k \in PlacesOf(e, t), NEW l \in PlacesOf(e, t), from[k] = from[l]
      PROVE  k = l
  BY <1>1, <1>2, <1>4 DEF PlacesOf
<1>5. ASSUME NEW p \in PlacesOf(e, s)
      PROVE  \E k \in PlacesOf(e, t) : from[k] = p
  <2>1. /\ PlaceFrom(j, i, p) \in 1..Len(t)
        /\ PlaceFrom(i, j, PlaceFrom(j, i, p)) = p
    BY <1>1, <1>2 DEF PlacesOf
  <2>2. PlaceFrom(j, i, p) \in PlacesOf(e, t)
    BY <1>1, <2>1 DEF PlacesOf
  <2> QED BY <2>1, <2>2
<1> HIDE DEF from
<1>6. from \in Bijection(PlacesOf(e, t), PlacesOf(e, s))
  BY <1>3, <1>4, <1>5, Fun_IsBij
<1>7. ExistsBijection(PlacesOf(e, t), PlacesOf(e, s))
  BY <1>6, Zenon DEF ExistsBijection
<1>8. IsFiniteSet(PlacesOf(e, t))
  BY <1>1, PlacesFinite
<1>9. Cardinality(PlacesOf(e, s)) = Cardinality(PlacesOf(e, t))
  BY <1>7, <1>8, FS_Bijection
<1> QED BY <1>9 DEF t

\* An element that is appended gets one place more, the others keep theirs.
LEMMA AppendedPlaces ==
    ASSUME NEW S, NEW s \in Seq(S), NEW x \in S, NEW e
    PROVE  /\ Cardinality(PlacesOf(e, Append(s, x))) >= Cardinality(PlacesOf(e, s))
           /\ e # x => Cardinality(PlacesOf(e, Append(s, x))) = Cardinality(PlacesOf(e, s))
<1>1. /\ Len(Append(s, x)) = Len(s) + 1 /\ Append(s, x)[Len(s) + 1] = x
      /\ \A k \in 1..Len(s) : Append(s, x)[k] = s[k]
  BY AppendProperties
<1>2. Cardinality(PlacesOf(e, s)) \in Nat /\ IsFiniteSet(PlacesOf(e, s))
  BY PlacesFinite
<1>3. CASE e = x
  <2>1. PlacesOf(e, Append(s, x)) = PlacesOf(e, s) \cup {Len(s) + 1}
        /\ Len(s) + 1 \notin PlacesOf(e, s)
    BY <1>1, <1>3 DEF PlacesOf
  <2>2. Cardinality(PlacesOf(e, s) \cup {Len(s) + 1}) = Cardinality(PlacesOf(e, s)) + 1
    BY <1>2, <2>1, FS_AddElement
  <2> QED BY <1>2, <1>3, <2>1, <2>2
<1>4. CASE e # x
  <2>1. PlacesOf(e, Append(s, x)) = PlacesOf(e, s)
    BY <1>1, <1>4 DEF PlacesOf
  <2> QED BY <1>2, <2>1
<1> QED BY <1>3, <1>4

\* However menus are dragged and added, every menu keeps its places but for the
\* new ones that AddMenu appends.
THEOREM NoMenuIsLost == Spec => MenusKept
<1> USE DEF KeepsItsPlaces
<1>1. ASSUME TypeInv, [Next]_vars, died = "no", NEW menu \in Menus
      PROVE  KeepsItsPlaces(menu)
  <2>0. menuData \in Seq(Menus) /\ Cardinality(PlacesOf(menu, menuData)) \in Nat
    BY <1>1, PlacesFinite DEF TypeInv, TypeOK
  <2>1. CASE UNCHANGED menuData
    BY <2>0, <2>1
  <2>2. CASE AddMenu
    <3>1. NewMenu \in Menus /\ menuData' = Append(menuData, NewMenu)
      BY <2>2 DEF AddMenu, Menus
    <3> QED BY <2>0, <3>1, AppendedPlaces
  <2>3. ASSUME NEW i \in 1..Len(drawnMenus), NEW j \in 1..Len(drawnMenus),
               MoveMenu(i, j)
        PROVE  KeepsItsPlaces(menu)
    <3>1. i \in 1..Len(menuData) /\ j \in 1..Len(menuData)
      BY <1>1, <2>3 DEF MoveMenu, OnDetail, TypeInv, TypeOK, EnoughMenus
    <3>2. menuData' = Dragged(menuData, i, j)
      BY <2>0, <2>3, <3>1, MoveItemDrags DEF MoveMenu
    <3>3. Cardinality(PlacesOf(menu, menuData')) = Cardinality(PlacesOf(menu, menuData))
      BY <2>0, <3>1, <3>2, DragPermutes
    <3> QED BY <2>0, <3>3
  <2>4. \/ AddMenu
        \/ \E i, j \in 1..Len(drawnMenus) : MoveMenu(i, j)
        \/ UNCHANGED menuData
    BY <1>1 DEF Next, ShowPage, PullToRefreash, DrawRow, DeleteRow, SelectRow,
                Reopen, DropMenu, CloseDetail, Relaunch, Die, vars
  <2> QED BY <2>1, <2>2, <2>3, <2>4
<1>2. TypeInv /\ [Next]_vars =>
          [died = "no" => \A menu \in Menus : KeepsItsPlaces(menu)]_vars
  <2> HIDE DEF KeepsItsPlaces
  <2> QED BY <1>1
<1> QED BY <1>2, TypeInvHolds, PTL DEF Spec, MenusKept
=============================================================================
