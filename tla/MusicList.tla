----------------------------- MODULE MusicList -----------------------------
(***************************************************************************)
(* MangoPlateCloneApp: a list of songs with pictures.  MusicViewController *)
(* shows it as a table of MusicCell; FindFoodVIewController, with the same *)
(* code, as a collection of FindFoodCollectionViewCell.  The answer of the *)
(* server is stored on a URLSession thread and shown by the main thread;   *)
(* cells are reused as the list scrolls, and every picture is fetched by a *)
(* closure on DispatchQueue.global() that outlives the cell's row.         *)
(***************************************************************************)
EXTENDS Naturals, Sequences

CONSTANTS
    Cells, NoCell,  \* the reusable cells
    Urls, NoUrl,    \* picture addresses; NoUrl for nil or not an address
    NoImage,        \* UIImageView.image = nil
    Answers,        \* the lists of songs the server may send, by picture
    MaxLoads,       \* bound: fetches of one picture for one cell at a time
    MaxQueue        \* bound: blocks in the main queue

ASSUME NamesAssumption ==
    NoCell \notin Cells /\ NoUrl \notin Urls /\ NoImage \notin Urls
ASSUME AnswersAssumption == Answers \subseteq Seq(Urls \cup {NoUrl})

VARIABLES
    answer,      \* setupAPI: "asked", "stored", "sent" (reload), "failed"
    musicArrays, \* the songs, by the address of their picture
    laidOut,     \* has the list counted its rows once?
    rows,        \* the number of rows the list has counted
    row,         \* the row a cell shows, 0 for none
    imageUrl,    \* MusicCell.imageUrl
    image,       \* the picture a cell shows
    fetching,    \* closures fetching picture u for cell c
    mainQueue,   \* blocks sent with DispatchQueue.main.async
    clean        \* history: when the cell got its address, no picture of
                 \* another address was under way to it

listVars == <<answer, musicArrays, laidOut, rows>>
cellVars == <<row, imageUrl, image, clean>>
vars == <<listVars, cellVars, fetching, mainQueue>>

Reload == [cell |-> NoCell, image |-> NoImage]
Delivery(c, u) == [cell |-> c, image |-> u]
Blocks == [cell : Cells \cup {NoCell}, image : Urls \cup {NoImage}]

\* Is picture u on its way to cell c?
UnderWay(c, u) ==
    \/ fetching[c][u] > 0
    \/ \E i \in 1..Len(mainQueue) : mainQueue[i] = Delivery(c, u)

-----------------------------------------------------------------------------
\* viewDidLoad: the data source is set and the request is sent.
Init ==
    /\ answer = "asked"
    /\ musicArrays = <<>>
    /\ laidOut = FALSE
    /\ rows = 0
    /\ row = [c \in Cells |-> 0]
    /\ imageUrl = [c \in Cells |-> NoUrl]
    /\ image = [c \in Cells |-> NoImage]
    /\ fetching = [c \in Cells |-> [u \in Urls |-> 0]]
    /\ mainQueue = <<>>
    /\ clean = [c \in Cells |-> TRUE]

(* The request (MusicNetworkManger.performRequest, setupAPI).              *)

\* Any of the three errors: the list stays as it is.
RequestFails ==
    /\ answer = "asked"
    /\ answer' = "failed"
    /\ UNCHANGED <<musicArrays, laidOut, rows, cellVars, fetching, mainQueue>>

\* On the URLSession thread: self.musicArrays = musicDatas ...
StoreMusic(songs) ==
    /\ answer = "asked"
    /\ answer' = "stored"
    /\ musicArrays' = songs
    /\ UNCHANGED <<laidOut, rows, cellVars, fetching, mainQueue>>

\* ... and only then is the block that reloads the list sent.
SendReload ==
    /\ answer = "stored"
    /\ Len(mainQueue) < MaxQueue
    /\ answer' = "sent"
    /\ mainQueue' = Append(mainQueue, Reload)
    /\ UNCHANGED <<musicArrays, laidOut, rows, cellVars, fetching>>

-----------------------------------------------------------------------------
(* The list on the main thread.                                            *)

\* Mutant: one row too many, as with `<=` for `<`.
CountRowsAndOne ==
    /\ rows' = Len(musicArrays) + 1
    /\ row' = [c \in Cells |-> 0]

\* Mutant: one row too few.
CountRowsButOne ==
    /\ rows' = Len(musicArrays) - 1
    /\ row' = [c \in Cells |-> 0]

\* Mutant: restInfos.count, of the array that is never filled.
CountRestaurants ==
    /\ rows' = 0
    /\ row' = [c \in Cells |-> 0]

\* numberOfRowsInSection; the visible cells go back to the pool.
CountRows ==
    /\ rows' = Len(musicArrays)
    /\ row' = [c \in Cells |-> 0]

\* The first layout counts the rows by itself, before, after or while the
\* answer is stored.
FirstLayout ==
    /\ ~laidOut
    /\ laidOut' = TRUE
    /\ CountRows
    /\ UNCHANGED <<answer, musicArrays, imageUrl, image, clean, fetching,
                   mainQueue>>

\* numberOfRowsInSection reads musicArrays while the other thread stores it:
\* besides the old and the new value (FirstLayout before or after StoreMusic)
\* the read can use a released array.  The process dies and starts again.
RaceCrash ==
    /\ ~laidOut
    /\ answer = "asked"
    /\ answer' = "asked"
    /\ musicArrays' = <<>>
    /\ laidOut' = FALSE
    /\ rows' = 0
    /\ row' = [c \in Cells |-> 0]
    /\ imageUrl' = [c \in Cells |-> NoUrl]
    /\ image' = [c \in Cells |-> NoImage]
    /\ fetching' = [c \in Cells |-> [u \in Urls |-> 0]]
    /\ mainQueue' = <<>>
    /\ clean' = [c \in Cells |-> TRUE]

\* A cell that scrolls out of sight keeps its address, picture and fetches:
\* there is no prepareForReuse.
HideRow(c) ==
    /\ row[c] # 0
    /\ row' = [row EXCEPT ![c] = 0]
    /\ UNCHANGED <<listVars, imageUrl, image, clean, fetching, mainQueue>>

\* cellForRowAt, with imageUrl's didSet and loadImage.
ShowRow(c, r) ==
    LET url == musicArrays[r] IN
    /\ row[c] = 0
    /\ r \in 1..rows
    /\ \A d \in Cells : row[d] # r
    /\ row' = [row EXCEPT ![c] = r]
    /\ imageUrl' = [imageUrl EXCEPT ![c] = url]
    /\ clean' = [clean EXCEPT ![c] = \A u \in Urls \ {url} : ~UnderWay(c, u)]
    /\ \/ url = NoUrl /\ UNCHANGED fetching
       \/ /\ url \in Urls
          /\ fetching[c][url] < MaxLoads
          /\ fetching' = [fetching EXCEPT ![c][url] = @ + 1]
    /\ UNCHANGED <<listVars, image, mainQueue>>

-----------------------------------------------------------------------------
(* The closure of loadImage.                                               *)

FetchDone(c, u) ==
    /\ fetching[c][u] > 0
    /\ fetching' = [fetching EXCEPT ![c][u] = @ - 1]
    /\ UNCHANGED <<listVars, cellVars>>

\* try? Data(contentsOf: url) fails.
FetchFails(c, u) ==
    /\ FetchDone(c, u)
    /\ UNCHANGED mainQueue

\* Mutant: the block looks for the cell that shows the picture's row by now.
FetchSucceedsForRow(c, u) ==
    /\ FetchDone(c, u)
    /\ Len(mainQueue) < MaxQueue
    /\ \E d \in Cells :
           row[d] = row[c] /\ mainQueue' = Append(mainQueue, Delivery(d, u))

\* The data is there: `guard urlString == url.absoluteString` compares the
\* address with itself, so the block that shows the picture is always sent.
\* UIImage(data:) is nil for data that is no picture.
FetchSucceeds(c, u) ==
    /\ FetchDone(c, u)
    /\ Len(mainQueue) < MaxQueue
    /\ \E picture \in {u, NoImage} :
           mainQueue' = Append(mainQueue, Delivery(c, picture))

-----------------------------------------------------------------------------
(* The main queue.                                                         *)

\* tableView.reloadData()
ReloadList ==
    /\ Head(mainQueue) = Reload
    /\ CountRows
    /\ UNCHANGED <<imageUrl, image, clean>>

\* self.mainImageView.image = UIImage(data: data)
ShowPicture ==
    LET block == Head(mainQueue) IN
    /\ block.cell \in Cells
    /\ image' = [image EXCEPT ![block.cell] = block.image]
    /\ UNCHANGED <<rows, row, imageUrl, clean>>

RunMainBlock ==
    /\ mainQueue # <<>>
    /\ mainQueue' = Tail(mainQueue)
    /\ ReloadList \/ ShowPicture
    /\ UNCHANGED <<answer, musicArrays, laidOut, fetching>>

-----------------------------------------------------------------------------
Next ==
    \/ RequestFails
    \/ \E songs \in Answers : StoreMusic(songs)
    \/ SendReload
    \/ FirstLayout
    \/ RaceCrash
    \/ \E c \in Cells : HideRow(c)
    \/ \E c \in Cells, r \in 1..rows : ShowRow(c, r)
    \/ \E c \in Cells, u \in Urls : FetchFails(c, u) \/ FetchSucceeds(c, u)
    \/ RunMainBlock

\* The completion handler goes on once it has begun, and the main queue runs.
Fairness == WF_vars(SendReload) /\ WF_vars(RunMainBlock)

Spec == Init /\ [][Next]_vars
FairSpec == Spec /\ Fairness

-----------------------------------------------------------------------------
(* Properties.                                                             *)

\* Type invariant.
TypeOK ==
    /\ answer \in {"asked", "stored", "sent", "failed"}
    /\ musicArrays \in Seq(Urls \cup {NoUrl})
    /\ laidOut \in BOOLEAN
    /\ rows \in Nat
    /\ row \in [Cells -> Nat]
    /\ imageUrl \in [Cells -> Urls \cup {NoUrl}]
    /\ image \in [Cells -> Urls \cup {NoImage}]
    /\ fetching \in [Cells -> [Urls -> Nat]]
    /\ mainQueue \in Seq(Blocks)
    /\ clean \in [Cells -> BOOLEAN]

\* Although musicArrays is stored by another thread and the list remembers how
\* many rows it counted, no row is asked for that musicArrays does not have (an
\* index out of range), a visible cell has the address of the song of its row,
\* and two cells never show one row.
CellsShowTheirRow ==
    /\ rows <= Len(musicArrays)
    /\ \A c \in Cells : row[c] # 0 =>
           /\ row[c] \in 1..rows
           /\ imageUrl[c] = musicArrays[row[c]]
           /\ \A d \in Cells \ {c} : row[d] # row[c]

\* A cell that had no picture of another address under way when it got its
\* address is only ever given the picture of that address, in whatever order
\* the fetches end and however often it is reused.
CleanCellsShowTheirImage ==
    [][\A c \in Cells : (clean[c] /\ image'[c] # image[c])
            => image'[c] \in {imageUrl[c], NoImage}]_vars

\* The list is never left behind the array: when it shows another number of
\* rows than there are songs, it shows none yet and a reload is still to come,
\* although store and reload are two steps of one thread and the first layout
\* and the deliveries of pictures come in between.
ListCatchesUp ==
    \/ rows = Len(musicArrays)
    \/ /\ rows = 0
       /\ \/ answer = "stored"
          \/ \E i \in 1..Len(mainQueue) : mainQueue[i] = Reload

\* An answer of the server reaches the screen, whether the first layout comes
\* before it, after it, or between the store and the reload.
ListArrives == answer = "stored" ~> rows = Len(musicArrays)

\* The comment in loadImage: that the address changes while the long work runs
\* is ruled out, so a cell is never given the picture of an address it has no
\* longer.
ImageOfCurrentUrl ==
    [][\A c \in Cells : image'[c] # image[c]
            => image'[c] \in {imageUrl[c], NoImage}]_vars
=============================================================================
