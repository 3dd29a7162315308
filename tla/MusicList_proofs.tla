-------------------------- MODULE MusicList_proofs --------------------------
(* Proofs about the song lists: type correctness, what the visible cells    *)
(* show, and the pictures of clean cells, for any answers, any number of    *)
(* cells and queues of any length.                                          *)
EXTENDS MusicList, SequenceTheorems, TLAPS

USE DEF listVars, cellVars

\* The type of every variable is kept by every step.
THEOREM ListTypeCorrect == Spec => []TypeOK
<1>1. Init => TypeOK
  <2> SUFFICES ASSUME Init PROVE TypeOK
    OBVIOUS
  <2>1. musicArrays \in Seq(Urls \cup {NoUrl}) /\ mainQueue \in Seq(Blocks)
    BY DEF Init
  <2>2. clean \in [Cells -> BOOLEAN] /\ laidOut \in BOOLEAN
    BY Zenon DEF Init
  <2>3. fetching \in [Cells -> [Urls -> Nat]]
    BY DEF Init
  <2> QED BY <2>1, <2>2, <2>3 DEF Init, TypeOK
<1>2. TypeOK /\ [Next]_vars => TypeOK'
  <2> SUFFICES ASSUME TypeOK, [Next]_vars PROVE TypeOK'
    OBVIOUS
  <2> USE DEF TypeOK
  <2>1. CASE RequestFails
    BY <2>1 DEF RequestFails
  <2>2. ASSUME NEW songs \in Answers, StoreMusic(songs) PROVE TypeOK'
    <3>1. musicArrays' \in Seq(Urls \cup {NoUrl})
      BY <2>2, AnswersAssumption DEF StoreMusic
    <3> QED BY <2>2, <3>1 DEF StoreMusic
  <2>3. CASE SendReload
    <3>1. Reload \in Blocks
      BY DEF Reload, Blocks
    <3>2. mainQueue' \in Seq(Blocks)
      BY <2>3, <3>1 DEF SendReload
    <3> QED BY <2>3, <3>2 DEF SendReload
  <2>4. CASE FirstLayout
    <3>1. rows' \in Nat /\ row' \in [Cells -> Nat]
      BY <2>4 DEF FirstLayout, CountRows
    <3> QED BY <2>4, <3>1 DEF FirstLayout
  <2>5. CASE RaceCrash
    <3>1. musicArrays' \in Seq(Urls \cup {NoUrl}) /\ mainQueue' \in Seq(Blocks)
      BY <2>5 DEF RaceCrash
    <3>2. clean' \in [Cells -> BOOLEAN] /\ laidOut' \in BOOLEAN
      BY <2>5, Zenon DEF RaceCrash
    <3>3. fetching' \in [Cells -> [Urls -> Nat]]
      BY <2>5 DEF RaceCrash
    <3> QED BY <2>5, <3>1, <3>2, <3>3 DEF RaceCrash
  <2>6. ASSUME NEW c \in Cells, HideRow(c) PROVE TypeOK'
    BY <2>6 DEF HideRow
  <2>7. ASSUME NEW c \in Cells, NEW r \in 1..rows, ShowRow(c, r) PROVE TypeOK'
    <3> DEFINE url == musicArrays[r]
    <3>1. url \in Urls \cup {NoUrl}
      BY <2>7 DEF ShowRow
    <3>2. row' \in [Cells -> Nat]
      BY <2>7 DEF ShowRow
    <3>3. imageUrl' \in [Cells -> Urls \cup {NoUrl}]
      BY <2>7, <3>1 DEF ShowRow
    <3>4. clean' \in [Cells -> BOOLEAN]
      <4> DEFINE alone == \A u \in Urls \ {url} : ~UnderWay(c, u)
      <4>1. clean' = [clean EXCEPT ![c] = alone]
        BY <2>7 DEF ShowRow
      <4>2. alone \in BOOLEAN
        OBVIOUS
      <4> HIDE DEF alone
      <4> QED BY <4>1, <4>2
    <3>5. fetching' \in [Cells -> [Urls -> Nat]]
      <4>1. CASE UNCHANGED fetching
        BY <4>1
      <4>2. ASSUME url \in Urls, fetching' = [fetching EXCEPT ![c][url] = @ + 1]
            PROVE  fetching' \in [Cells -> [Urls -> Nat]]
        BY <4>2
      <4> QED BY <2>7, <4>1, <4>2 DEF ShowRow
    <3> QED BY <2>7, <3>2, <3>3, <3>4, <3>5 DEF ShowRow
  <2>8. ASSUME NEW c \in Cells, NEW u \in Urls, FetchDone(c, u)
        PROVE fetching' \in [Cells -> [Urls -> Nat]]
    BY <2>8 DEF FetchDone
  <2>9. ASSUME NEW c \in Cells, NEW u \in Urls, FetchFails(c, u) PROVE TypeOK'
    BY <2>8, <2>9 DEF FetchFails, FetchDone
  <2>10. ASSUME NEW c \in Cells, NEW u \in Urls, FetchSucceeds(c, u) PROVE TypeOK'
    <3>1. \A picture \in {u, NoImage} : Delivery(c, picture) \in Blocks
      BY DEF Delivery, Blocks
    <3>2. mainQueue' \in Seq(Blocks)
      BY <2>10, <3>1 DEF FetchSucceeds
    <3> QED BY <2>8, <2>10, <3>2 DEF FetchSucceeds, FetchDone
  <2>11. CASE RunMainBlock
    <3>1. Head(mainQueue) \in Blocks /\ mainQueue' \in Seq(Blocks)
      BY <2>11 DEF RunMainBlock
    <3>2. CASE ReloadList
      BY <2>11, <3>1, <3>2 DEF RunMainBlock, ReloadList, CountRows
    <3>3. CASE ShowPicture
      <4>1. image' \in [Cells -> Urls \cup {NoImage}]
        BY <3>1, <3>3 DEF ShowPicture, Blocks
      <4> QED BY <2>11, <3>1, <3>3, <4>1 DEF RunMainBlock, ShowPicture
    <3> QED BY <2>11, <3>2, <3>3 DEF RunMainBlock
  <2>12. CASE UNCHANGED vars
    BY <2>12 DEF vars
  <2> QED
    BY <2>1, <2>2, <2>3, <2>4, <2>5, <2>6, <2>7, <2>9, <2>10, <2>11, <2>12
       DEF Next
<1> QED BY <1>1, <1>2, PTL DEF Spec

-----------------------------------------------------------------------------
(* musicArrays changes only while the answer is awaited, and until then no  *)
(* row has been counted: that is why the visible cells stay right.          *)

NothingYet == answer = "asked" => musicArrays = <<>> /\ rows = 0

RowsInv == NothingYet /\ CellsShowTheirRow

LEMMA RowsInvHolds == Spec => []RowsInv
<1> USE DEF RowsInv, NothingYet, CellsShowTheirRow
<1>1. Init => RowsInv
  BY DEF Init
<1>2. TypeOK /\ RowsInv /\ [Next]_vars => RowsInv'
  <2> SUFFICES ASSUME TypeOK, RowsInv, [Next]_vars PROVE RowsInv'
    OBVIOUS
  <2> USE DEF TypeOK
  <2>1. CASE RequestFails
    BY <2>1 DEF RequestFails
  <2>2. ASSUME NEW songs \in Answers, StoreMusic(songs) PROVE RowsInv'
    <3>1. rows = 0 /\ \A c \in Cells : row[c] = 0
      BY <2>2 DEF StoreMusic
    <3>2. Len(musicArrays') \in Nat
      BY <2>2, AnswersAssumption DEF StoreMusic
    <3> QED BY <2>2, <3>1, <3>2 DEF StoreMusic
  <2>3. CASE SendReload
    BY <2>3 DEF SendReload
  <2>4. CASE FirstLayout
    BY <2>4 DEF FirstLayout, CountRows
  <2>5. CASE RaceCrash
    BY <2>5 DEF RaceCrash
  <2>6. ASSUME NEW c \in Cells, HideRow(c) PROVE RowsInv'
    BY <2>6 DEF HideRow
  <2>7. ASSUME NEW c \in Cells, NEW r \in 1..rows, ShowRow(c, r) PROVE RowsInv'
    BY <2>7 DEF ShowRow
  <2>8. ASSUME NEW c \in Cells, NEW u \in Urls,
               FetchFails(c, u) \/ FetchSucceeds(c, u)
        PROVE RowsInv'
    BY <2>8 DEF FetchFails, FetchSucceeds, FetchDone
  <2>9. CASE RunMainBlock
    <3>1. CASE ReloadList
      BY <2>9, <3>1 DEF RunMainBlock, ReloadList, CountRows
    <3>2. CASE ShowPicture
      BY <2>9, <3>2 DEF RunMainBlock, ShowPicture
    <3> QED BY <2>9, <3>1, <3>2 DEF RunMainBlock
  <2>10. CASE UNCHANGED vars
    BY <2>10 DEF vars
  <2> QED
    BY <2>1, <2>2, <2>3, <2>4, <2>5, <2>6, <2>7, <2>8, <2>9, <2>10 DEF Next
<1> QED BY <1>1, <1>2, ListTypeCorrect, PTL DEF Spec

\* No row is asked for that the array does not have, and every visible cell has
\* the address of its own row.
THEOREM VisibleCellsAreRight == Spec => []CellsShowTheirRow
BY RowsInvHolds, PTL DEF RowsInv

-----------------------------------------------------------------------------
(* A list that shows too few rows has a reload to come.                    *)

\* What a queue holds after a block was appended.
LEMMA Appended ==
    ASSUME NEW S, NEW s \in Seq(S), NEW e \in S
    PROVE  \A i \in 1..Len(Append(s, e)) :
               \/ i \in 1..Len(s) /\ Append(s, e)[i] = s[i]
               \/ Append(s, e)[i] = e
<1>1. Len(Append(s, e)) = Len(s) + 1 /\ Append(s, e)[Len(s) + 1] = e
      /\ \A i \in 1..Len(s) : Append(s, e)[i] = s[i]
  BY AppendProperties
<1> QED BY <1>1

ReloadWaits == \E i \in 1..Len(mainQueue) : mainQueue[i] = Reload

\* A block that is appended leaves a waiting reload where it is.
LEMMA ReloadStays ==
    ASSUME TypeOK, NEW block \in Blocks, mainQueue' = Append(mainQueue, block)
    PROVE  /\ ReloadWaits => ReloadWaits'
           /\ block = Reload => ReloadWaits'
<1>1. /\ Len(mainQueue') = Len(mainQueue) + 1
      /\ mainQueue'[Len(mainQueue) + 1] = block
      /\ \A i \in 1..Len(mainQueue) : mainQueue'[i] = mainQueue[i]
      /\ Len(mainQueue) \in Nat
  BY AppendProperties DEF TypeOK
<1>2. ASSUME NEW i \in 1..Len(mainQueue), mainQueue[i] = Reload PROVE ReloadWaits'
  BY <1>1, <1>2 DEF ReloadWaits
<1>3. ASSUME block = Reload PROVE ReloadWaits'
  <2>1. Len(mainQueue) + 1 \in 1..Len(mainQueue')
    BY <1>1
  <2> QED BY <1>1, <1>3, <2>1 DEF ReloadWaits
<1> QED BY <1>2, <1>3 DEF ReloadWaits

\* A picture that is shown was not the reload.
LEMMA PictureTaken ==
    ASSUME TypeOK, mainQueue # <<>>, mainQueue' = Tail(mainQueue), ShowPicture
    PROVE  ReloadWaits => ReloadWaits'
<1>1. /\ Head(mainQueue) = mainQueue[1]
      /\ \A i \in 1..Len(mainQueue) : i # 1 =>
             i - 1 \in 1..Len(mainQueue') /\ mainQueue'[i - 1] = mainQueue[i]
  BY DEF TypeOK
<1>2. mainQueue[1] # Reload
  BY <1>1, NamesAssumption DEF ShowPicture, Reload
<1> QED BY <1>1, <1>2 DEF ReloadWaits

\* The list is never left behind the array without a reload to come, for any
\* answer and any order of store, reload, first layout and pictures.
THEOREM ListIsNeverLeftBehind == Spec => []ListCatchesUp
<1> DEFINE CatchesUp == \/ rows = Len(musicArrays)
                        \/ rows = 0 /\ (answer = "stored" \/ ReloadWaits)
<1>0. ListCatchesUp <=> CatchesUp
  BY DEF ListCatchesUp, ReloadWaits
<1>1. Init => ListCatchesUp
  BY DEF Init, ListCatchesUp
<1>2. TypeOK /\ RowsInv /\ ListCatchesUp /\ [Next]_vars => ListCatchesUp'
  <2> SUFFICES ASSUME TypeOK, RowsInv, ListCatchesUp, [Next]_vars
               PROVE  CatchesUp'
    BY DEF ListCatchesUp, ReloadWaits
  <2>1. CASE RequestFails
    BY <2>1 DEF RequestFails, RowsInv, NothingYet
  <2>2. ASSUME NEW songs \in Answers, StoreMusic(songs)
        PROVE  rows' = 0 /\ answer' = "stored"
    BY <2>2 DEF StoreMusic, RowsInv, NothingYet
  <2>3. CASE SendReload
    <3>1. Reload \in Blocks
      BY DEF Reload, Blocks
    <3> QED BY <1>0, <2>3, <3>1, ReloadStays DEF SendReload
  <2>4. CASE FirstLayout
    BY <2>4 DEF FirstLayout, CountRows
  <2>5. CASE RaceCrash
    BY <2>5 DEF RaceCrash
  <2>6. ASSUME NEW c \in Cells, NEW u \in Urls, FetchSucceeds(c, u)
        PROVE  UNCHANGED listVars /\ (ReloadWaits => ReloadWaits')
    <3>1. \A picture \in {u, NoImage} : Delivery(c, picture) \in Blocks
      BY DEF Delivery, Blocks
    <3> QED BY <2>6, <3>1, ReloadStays DEF FetchSucceeds, FetchDone
  <2>7. CASE RunMainBlock
    <3>1. CASE ReloadList
      BY <2>7, <3>1 DEF RunMainBlock, ReloadList, CountRows
    <3>2. CASE ShowPicture
      BY <1>0, <2>7, <3>2, PictureTaken DEF RunMainBlock, ShowPicture
    <3> QED BY <2>7, <3>1, <3>2 DEF RunMainBlock
  <2>8. CASE UNCHANGED <<listVars, mainQueue>>
    BY <1>0, <2>8 DEF ReloadWaits
  <2>9. \/ RequestFails \/ SendReload \/ FirstLayout \/ RaceCrash \/ RunMainBlock
        \/ \E songs \in Answers : StoreMusic(songs)
        \/ \E c \in Cells, u \in Urls : FetchSucceeds(c, u)
        \/ UNCHANGED <<listVars, mainQueue>>
    BY DEF Next, HideRow, ShowRow, FetchFails, FetchDone, vars
  <2> QED BY <1>0, <2>1, <2>2, <2>3, <2>4, <2>5, <2>6, <2>7, <2>8, <2>9
<1> QED BY <1>1, <1>2, ListTypeCorrect, RowsInvHolds, PTL DEF Spec

-----------------------------------------------------------------------------
(* The pictures.  All that is under way to a clean cell is its own picture. *)

CleanInv ==
    \A c \in Cells : clean[c] =>
        /\ \A u \in Urls : fetching[c][u] > 0 => u = imageUrl[c]
        /\ \A i \in 1..Len(mainQueue) :
               mainQueue[i].cell = c => mainQueue[i].image \in {imageUrl[c], NoImage}

LEMMA CleanInvHolds == Spec => []CleanInv
<1>1. Init => CleanInv
  BY DEF Init, CleanInv
<1>2. TypeOK /\ CleanInv /\ [Next]_vars => CleanInv'
  <2> SUFFICES ASSUME TypeOK, CleanInv, [Next]_vars,
                      NEW d \in Cells, clean'[d]
               PROVE  /\ \A u \in Urls : fetching'[d][u] > 0 => u = imageUrl'[d]
                      /\ \A i \in 1..Len(mainQueue') :
                             mainQueue'[i].cell = d
                                 => mainQueue'[i].image \in {imageUrl'[d], NoImage}
    BY DEF CleanInv
  <2> USE DEF TypeOK
  <2> DEFINE Goal == /\ \A u \in Urls : fetching'[d][u] > 0 => u = imageUrl'[d]
                     /\ \A i \in 1..Len(mainQueue') :
                            mainQueue'[i].cell = d
                                => mainQueue'[i].image \in {imageUrl'[d], NoImage}
  <2>1. CASE UNCHANGED <<cellVars, fetching, mainQueue>>
    BY <2>1 DEF CleanInv
  <2>2. CASE RequestFails
    BY <2>1, <2>2 DEF RequestFails
  <2>3. ASSUME NEW songs \in Answers, StoreMusic(songs) PROVE Goal
    BY <2>1, <2>3 DEF StoreMusic
  <2>4. ASSUME UNCHANGED <<imageUrl, clean, fetching, mainQueue>> PROVE Goal
    BY <2>4 DEF CleanInv
  <2>5. CASE SendReload
    <3>1. \A i \in 1..Len(mainQueue') :
              \/ i \in 1..Len(mainQueue) /\ mainQueue'[i] = mainQueue[i]
              \/ mainQueue'[i] = Reload
      <4>1. Reload \in Blocks
        BY DEF Reload, Blocks
      <4>2. mainQueue' = Append(mainQueue, Reload)
        BY <2>5 DEF SendReload
      <4> QED BY <4>1, <4>2, Appended
    <3>2. Reload.cell # d
      BY NamesAssumption DEF Reload
    <3> QED BY <2>5, <3>1, <3>2 DEF SendReload, CleanInv
  <2>6. CASE FirstLayout
    BY <2>4, <2>6 DEF FirstLayout
  <2>7. CASE RaceCrash
    BY <2>7 DEF RaceCrash
  <2>8. ASSUME NEW c \in Cells, HideRow(c) PROVE Goal
    BY <2>4, <2>8 DEF HideRow
  <2>9. ASSUME NEW c \in Cells, NEW r \in 1..rows, ShowRow(c, r) PROVE Goal
    <3> DEFINE url == musicArrays[r]
    <3>1. CASE c # d
      BY <2>9, <3>1 DEF ShowRow, CleanInv
    <3>2. CASE c = d
      <4>1. \A u \in Urls \ {url} : ~UnderWay(d, u)
        BY <2>9, <3>2 DEF ShowRow
      <4>2. imageUrl'[d] = url /\ mainQueue' = mainQueue
        BY <2>9, <3>2 DEF ShowRow
      <4>3. \A u \in Urls : fetching'[d][u] > 0 => u = url
        <5>1. \A u \in Urls \ {url} : ~(fetching[d][u] > 0)
          BY <4>1 DEF UnderWay
        <5>2. \A u \in Urls \ {url} : fetching'[d][u] = fetching[d][u]
          BY <2>9, <3>2 DEF ShowRow
        <5> QED BY <5>1, <5>2
      <4>4. ASSUME NEW i \in 1..Len(mainQueue), mainQueue[i].cell = d
            PROVE  mainQueue[i].image \in {url, NoImage}
        <5>1. mainQueue[i] \in Blocks
          OBVIOUS
        <5>2. mainQueue[i] = Delivery(d, mainQueue[i].image)
          BY <4>4, <5>1 DEF Blocks, Delivery
        <5>3. mainQueue[i].image \in Urls => mainQueue[i].image = url
          BY <4>1, <5>2 DEF UnderWay
        <5> QED BY <5>1, <5>3 DEF Blocks
      <4> QED BY <4>2, <4>3, <4>4
    <3> QED BY <3>1, <3>2
  <2>10. ASSUME NEW c \in Cells, NEW u \in Urls, FetchDone(c, u)
         PROVE  /\ fetching[c][u] > 0
                /\ \A v \in Urls : fetching'[d][v] > 0 => fetching[d][v] > 0
                /\ UNCHANGED <<imageUrl, clean>>
    BY <2>10 DEF FetchDone
  <2>11. ASSUME NEW c \in Cells, NEW u \in Urls, FetchFails(c, u) PROVE Goal
    BY <2>10, <2>11 DEF FetchFails, CleanInv
  <2>12. ASSUME NEW c \in Cells, NEW u \in Urls, FetchSucceeds(c, u) PROVE Goal
    <3>1. PICK picture \in {u, NoImage} :
              mainQueue' = Append(mainQueue, Delivery(c, picture))
      BY <2>12 DEF FetchSucceeds
    <3>2. \A i \in 1..Len(mainQueue') :
              \/ i \in 1..Len(mainQueue) /\ mainQueue'[i] = mainQueue[i]
              \/ mainQueue'[i] = Delivery(c, picture)
      <4>1. Delivery(c, picture) \in Blocks
        BY DEF Delivery, Blocks
      <4> QED BY <3>1, <4>1, Appended
    <3>3. c = d => picture \in {imageUrl[d], NoImage}
      BY <2>10, <2>12 DEF FetchSucceeds, CleanInv
    <3>4. Delivery(c, picture).cell = c /\ Delivery(c, picture).image = picture
      BY DEF Delivery
    <3> QED BY <2>10, <2>12, <3>2, <3>3, <3>4 DEF FetchSucceeds, CleanInv
  <2>13. CASE RunMainBlock
    <3>1. UNCHANGED <<imageUrl, clean, fetching>>
      BY <2>13 DEF RunMainBlock, ReloadList, ShowPicture
    <3>2. \A i \in 1..Len(mainQueue') :
              i + 1 \in 1..Len(mainQueue) /\ mainQueue'[i] = mainQueue[i + 1]
      BY <2>13 DEF RunMainBlock
    <3> QED BY <3>1, <3>2 DEF CleanInv
  <2>14. CASE UNCHANGED vars
    BY <2>1, <2>14 DEF vars
  <2> QED
    BY <2>2, <2>3, <2>5, <2>6, <2>7, <2>8, <2>9, <2>11, <2>12, <2>13, <2>14
       DEF Next
<1> QED BY <1>1, <1>2, ListTypeCorrect, PTL DEF Spec

\* A cell that nothing else was under way to is never given a foreign picture,
\* for any number of cells, fetches and blocks in the queue.
THEOREM CleanCellsStayRight == Spec => CleanCellsShowTheirImage
<1>1. TypeOK /\ CleanInv /\ [Next]_vars =>
          [\A c \in Cells : (clean[c] /\ image'[c] # image[c])
               => image'[c] \in {imageUrl[c], NoImage}]_vars
  <2> SUFFICES ASSUME TypeOK, CleanInv, [Next]_vars,
                      NEW c \in Cells, clean[c], image'[c] # image[c]
               PROVE  image'[c] \in {imageUrl[c], NoImage}
    OBVIOUS
  <2>1. CASE RunMainBlock
    <3>1. ShowPicture
      BY <2>1 DEF RunMainBlock, ReloadList
    <3>2. Head(mainQueue) = mainQueue[1] /\ 1 \in 1..Len(mainQueue)
      BY <2>1 DEF RunMainBlock, TypeOK
    <3>3. mainQueue[1].cell = c /\ image'[c] = mainQueue[1].image
      BY <3>1, <3>2 DEF ShowPicture, TypeOK
    <3> QED BY <3>2, <3>3 DEF CleanInv
  <2>2. CASE RaceCrash
    BY <2>2 DEF RaceCrash
  <2>3. CASE UNCHANGED image
    BY <2>3
  <2> QED
    BY <2>1, <2>2, <2>3 DEF Next, vars, RequestFails, StoreMusic, SendReload,
       FirstLayout, HideRow, ShowRow, FetchFails, FetchSucceeds, FetchDone
<1> QED BY <1>1, ListTypeCorrect, CleanInvHolds, PTL DEF Spec, CleanCellsShowTheirImage
=============================================================================
