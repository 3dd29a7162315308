CONSTANTS
    Pages = {p1, p2}
    FirstPage = p1
    r1 = r1
    r2 = r2
    InitialPlaces <- MCPlaces
    NewPlace = NewPlace
    m1 = m1
    m2 = m2
    m3 = m3
    InitialMenus <- MCMenus
    NewMenu = NewMenu
    MaxPlaces = 4
    MaxMenus = 4
SPECIFICATION Spec
INVARIANTS
    TypeOK
    SyncedPagesTruthful
    DeathsExplained
    MenusInStep
PROPERTIES
    MenusKept
