\* Three closures that interleave; no symmetry, for liveness.
SPECIFICATION AudioSpec
CONSTANTS
    Songs = {ily, tears, missing}
    Default = ily
    Playable = {ily, tears}
    NoSong = NoSong
    Tasks = {t1, t2, t3}
INVARIANTS
    AudioTypeOK
    SettledConsistent
    LoneTasks
PROPERTIES
    SelectionKept
    SelectionPlays
