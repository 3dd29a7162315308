---------------------------- MODULE Restaurants ----------------------------
(***************************************************************************)
(* The Baemin clone: six TableView pages over one static array of          *)
(* restaurants (TableManger.tableData), and DetailViewController over a    *)
(* static array of menus (TableManger.menuData).  A UITableView remembers  *)
(* how many rows it counted and what it drew until it is told otherwise,   *)
(* and kills the process when an edit does not fit what it remembers.      *)
(***************************************************************************)
EXTENDS SequencesExt

CONSTANTS
    Pages, FirstPage,  \* the pages of TableViewController
    InitialPlaces,     \* tableData at launch
    NewPlace,          \* the restaurant each pull adds
    InitialMenus,      \* menuData at launch
    NewMenu,           \* the menu entered in the alert
    MaxPlaces, MaxMenus \* bounds on the two arrays

Places == ToSet(InitialPlaces) \cup {NewPlace}
Menus == ToSet(InitialMenus) \cup {NewMenu}

ASSUME PagesAssumption == FirstPage \in Pages
ASSUME DataAssumption ==
    InitialPlaces \in Seq(Places) /\ InitialMenus \in Seq(Menus)

VARIABLES
    tableData, menuData,  \* TableManger's arrays
    screen,     \* "list", or "detail" shown over it
    page,       \* the page in front
    loaded,     \* the pages whose view is loaded
    drawn,      \* what each page's table shows, row by row
    drawnMenus, \* what the table of the detail page shows
    data,       \* DetailViewController.data
    died,       \* why the process died, "no" while it runs
    foreign     \* history: has another page changed tableData since this one
                \* counted its rows?

dataVars == <<tableData, menuData>>
detailVars == <<screen, data, drawnMenus>>
pageVars == <<page, loaded, drawn, foreign>>
vars == <<dataVars, detailVars, pageVars, died>>

-----------------------------------------------------------------------------
(* numberOfRowsInSection and cellForRowAt.                                 *)

\* The detail page draws as many menus as there are restaurants.
MenuRows(menus) == SubSeq(menus, 1, Len(tableData))

\* The pages opened anew over what the arrays hold by now.
PagesOpened(places) ==
    /\ page' = FirstPage
    /\ loaded' = {FirstPage}
    /\ drawn' = [p \in Pages |-> IF p = FirstPage THEN places ELSE <<>>]
    /\ foreign' = [p \in Pages |-> FALSE]

Init ==
    /\ tableData = InitialPlaces
    /\ menuData = InitialMenus
    /\ screen = "list"
    /\ page = FirstPage
    /\ loaded = {FirstPage}
    /\ drawn = [p \in Pages |-> IF p = FirstPage THEN InitialPlaces ELSE <<>>]
    /\ drawnMenus = <<>>
    /\ data = NewPlace
    /\ died = "no"
    /\ foreign = [p \in Pages |-> FALSE]

OnList == died = "no" /\ screen = "list"
OnDetail == died = "no" /\ screen = "detail"

Die(why) == died' = why /\ UNCHANGED <<dataVars, detailVars, pageVars>>

\* Every other loaded page is out of date from now on.
ChangedHere ==
    foreign' = [p \in Pages |-> IF p = page THEN foreign[p]
                                ELSE foreign[p] \/ p \in loaded]

-----------------------------------------------------------------------------
(* The pages.                                                              *)

\* Mutant: the page is shown before its table has a data source.
ShowPageUnloaded(p) ==
    /\ OnList
    /\ p # page
    /\ page' = p
    /\ UNCHANGED <<dataVars, detailVars, loaded, drawn, foreign, died>>

\* Tabman brings a page to the front; viewDidLoad and the first layout run
\* once, a page that comes back is not reloaded.
ShowPage(p) ==
    /\ OnList
    /\ p # page
    /\ page' = p
    /\ loaded' = loaded \cup {p}
    /\ drawn' = IF p \in loaded THEN drawn ELSE [drawn EXCEPT ![p] = tableData]
    /\ UNCHANGED <<dataVars, detailVars, foreign, died>>

\* Mutant: the reload is forgotten.
PullToRefreashUnseen ==
    /\ OnList
    /\ Len(tableData) < MaxPlaces
    /\ tableData' = Append(tableData, NewPlace)
    /\ ChangedHere
    /\ UNCHANGED <<menuData, detailVars, page, loaded, drawn, died>>

PullToRefreash ==
    /\ OnList
    /\ Len(tableData) < MaxPlaces
    /\ tableData' = Append(tableData, NewPlace)
    /\ drawn' = [drawn EXCEPT ![page] = tableData']
    /\ foreign' = [p \in Pages |-> p # page /\ (foreign[p] \/ p \in loaded)]
    /\ UNCHANGED <<menuData, detailVars, page, loaded, died>>

\* cellForRowAt for a row that scrolls into sight.
DrawRow(r) ==
    /\ OnList
    /\ r \in 1..Len(drawn[page])
    /\ \/ /\ r > Len(tableData)
          /\ Die("index")
       \/ /\ r <= Len(tableData)
          /\ drawn' = [drawn EXCEPT ![page][r] = tableData[r]]
          /\ UNCHANGED <<dataVars, detailVars, page, loaded, foreign, died>>

\* Mutant: deleteRows without the change of the array.
DeleteRowOnly(r) ==
    /\ OnList
    /\ r \in 1..Len(drawn[page])
    /\ \/ /\ Len(drawn[page]) - 1 # Len(tableData)
          /\ Die("rows")
       \/ /\ Len(drawn[page]) - 1 = Len(tableData)
          /\ drawn' = [drawn EXCEPT ![page] = RemoveAt(@, r)]
          /\ UNCHANGED <<dataVars, detailVars, page, loaded, foreign, died>>

\* commit .delete: the array and then the table lose the row.  remove(at:)
\* needs the index, deleteRows a count that has gone down by one.
DeleteRow(r) ==
    /\ OnList
    /\ r \in 1..Len(drawn[page])
    /\ \/ /\ r > Len(tableData)
          /\ Die("index")
       \/ /\ r <= Len(tableData)
          /\ Len(tableData) # Len(drawn[page])
          /\ Die("rows")
       \/ /\ Len(tableData) = Len(drawn[page])
          /\ tableData' = RemoveAt(tableData, r)
          /\ drawn' = [drawn EXCEPT ![page] = RemoveAt(@, r)]
          /\ ChangedHere
          /\ UNCHANGED <<menuData, detailVars, page, loaded, died>>

\* prepare(for: "detailSegue") takes the restaurant of the row's number; the
\* detail page then draws all its rows, for its table does not scroll.
SelectRow(r) ==
    /\ OnList
    /\ r \in 1..Len(drawn[page])
    /\ \/ /\ r > Len(tableData)
          /\ Die("index")
       \/ /\ r <= Len(tableData)
          /\ Len(tableData) > Len(menuData)
          /\ Die("menus")
       \/ /\ r <= Len(tableData)
          /\ Len(tableData) <= Len(menuData)
          /\ data' = tableData[r]
          /\ screen' = "detail"
          /\ drawnMenus' = MenuRows(menuData)
          /\ UNCHANGED <<dataVars, pageVars, died>>

\* The pages are a sheet: it is swiped away, and presented anew by the button
\* of FrameViewController.  The arrays are static and stay.
Reopen ==
    /\ OnList
    /\ PagesOpened(tableData)
    /\ UNCHANGED <<dataVars, detailVars, died>>

-----------------------------------------------------------------------------
(* The detail page.                                                        *)

\* ADD in the alert: append, then reloadData.
AddMenu ==
    /\ OnDetail
    /\ Len(menuData) < MaxMenus
    /\ menuData' = Append(menuData, NewMenu)
    /\ drawnMenus' = MenuRows(menuData')
    /\ UNCHANGED <<tableData, screen, data, pageVars, died>>

\* What the user sees after dragging row i to row j.
Dragged(rows, i, j) == InsertAt(RemoveAt(rows, i), j, rows[i])

\* Mutant: the place is inserted before it is removed.
MoveItemInsertingFirst(i, j) == RemoveAt(InsertAt(menuData, j, menuData[i]), i)

\* Mutant: the place is not removed.
MoveItemCopying(i, j) ==
    IF i = j THEN menuData ELSE InsertAt(menuData, j, menuData[i])

\* TableManger.moveItem
MoveItem(i, j) ==
    IF i = j THEN menuData
             ELSE InsertAt(RemoveAt(menuData, i), j, menuData[i])

\* A drag within the table: moveRowAt.
MoveMenu(i, j) ==
    /\ OnDetail
    /\ {i, j} \subseteq 1..Len(drawnMenus)
    /\ menuData' = MoveItem(i, j)
    /\ drawnMenus' = Dragged(drawnMenus, i, j)
    /\ UNCHANGED <<tableData, screen, data, pageVars, died>>

\* An item dropped from outside the app.  What is no Menu ends in fatalError;
\* a Menu is added to menuData, but insertRows finds the number of rows, which
\* is that of the restaurants, unchanged.
DropMenu ==
    /\ OnDetail
    /\ Die("rows")

CloseDetail ==
    /\ OnDetail
    /\ screen' = "list"
    /\ drawnMenus' = <<>>
    /\ UNCHANGED <<dataVars, data, pageVars, died>>

\* Nothing is persisted.
Relaunch ==
    /\ died # "no"
    /\ tableData' = InitialPlaces
    /\ menuData' = InitialMenus
    /\ screen' = "list"
    /\ PagesOpened(InitialPlaces)
    /\ drawnMenus' = <<>>
    /\ data' = NewPlace
    /\ died' = "no"

Next ==
    \/ \E p \in Pages : ShowPage(p)
    \/ PullToRefreash
    \/ \E r \in 1..Len(drawn[page]) : DrawRow(r) \/ DeleteRow(r) \/ SelectRow(r)
    \/ Reopen
    \/ AddMenu
    \/ \E i, j \in 1..Len(drawnMenus) : MoveMenu(i, j)
    \/ DropMenu
    \/ CloseDetail
    \/ Relaunch

Spec == Init /\ [][Next]_vars

-----------------------------------------------------------------------------
(* Properties.                                                             *)

\* Type invariant.
TypeOK ==
    /\ tableData \in Seq(Places)
    /\ menuData \in Seq(Menus)
    /\ screen \in {"list", "detail"}
    /\ page \in loaded
    /\ loaded \subseteq Pages
    /\ drawn \in [Pages -> Seq(Places)]
    /\ drawnMenus \in Seq(Menus)
    /\ data \in Places
    /\ died \in {"no", "index", "rows", "menus"}
    /\ foreign \in [Pages -> BOOLEAN]

\* A page shows tableData row by row, so that a tap opens and a swipe deletes
\* the restaurant the user sees, whatever pulls, deletions and scrolling came
\* before on this page, as long as no other page changed the array.
SyncedPagesTruthful ==
    \A p \in loaded : ~foreign[p] => drawn[p] = tableData

\* The process dies in the list only over a page that another page has put out
\* of date, or because there are more restaurants than menus; in the detail
\* page only by a drop from outside.
DeathsExplained ==
    /\ died = "index" => screen = "list" /\ foreign[page]
    /\ died = "rows" => screen = "detail" \/ foreign[page]
    /\ died = "menus" => screen = "list" /\ Len(tableData) > Len(menuData)

\* While the detail page is open its table shows the front of menuData, in the
\* order of menuData after every drag.
MenusInStep ==
    OnDetail =>
        /\ Len(tableData) <= Len(menuData)
        /\ drawnMenus = MenuRows(menuData)

PlacesOf(menu, menus) == {k \in 1..Len(menus) : menus[k] = menu}

KeepsItsPlaces(menu) ==
    LET before == Cardinality(PlacesOf(menu, menuData))
        after == Cardinality(PlacesOf(menu, menuData'))
    IN  /\ after >= before
        /\ menu # NewMenu => after = before

\* A drag only changes the order: however menus are dragged and added, also
\* past the rows the table draws, none is lost or doubled but by the end of
\* the process, although moveItem takes a menu out of the array before it puts
\* it back by an index that the removal may have shifted.
MenusKept ==
    [][died = "no" => \A menu \in Menus : KeepsItsPlaces(menu)]_vars
=============================================================================
