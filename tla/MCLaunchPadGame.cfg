\* The game: two plays, a gauge of two hits, one closure at a time.
SPECIFICATION FairSpec
CONSTANTS
    Songs = {ily}
    Default = ily
    Playable = {ily}
    NoSong = NoSong
    Tasks = {t1}
    Pads = {3, 8}
    Full = 2
    MaxPlays = 2
    MaxLoss = 10
    MaxCount = 130
    MaxQueue = 1
INVARIANTS
    TypeOK
    OneBeat
    GameOverOffScreen
    FeverFull
PROPERTIES
    OnlyViewStopsBeats
    KeepsTheBeat
    BeatsBegin
