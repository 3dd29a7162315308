CONSTANTS
    Prices = {5800, 6100}
    MaxCups = 3
SPECIFICATION FairSpec
INVARIANTS
    TypeOK
    PriceOfControls
    CoverFollowsScene
PROPERTIES
    OrderAnnounced
