\* The shared player: two songs, two closures that interleave.
SPECIFICATION Spec
CONSTANTS
    Songs = {ily, tears}
    Default = ily
    Playable = {ily, tears}
    NoSong = NoSong
    Tasks = {t1, t2}
    Pads = {13}
    Full = 1
    MaxPlays = 2
    MaxLoss = 0
    MaxCount = 10
    MaxQueue = 1
SYMMETRY TaskSymmetry
INVARIANTS
    TitleTruthful
    InTempo
PROPERTIES
    NoMusicUnasked
