\* What the comment at the call site says, and the code does not do.
SPECIFICATION Spec
CONSTANTS
    Songs = {ily, tears}
    Default = ily
    Playable = {ily, tears}
    NoSong = NoSong
    Tasks = {t1, t2}
    Pads = {13}
    Full = 1
    MaxPlays = 1
    MaxLoss = 0
    MaxCount = 10
    MaxQueue = 1
PROPERTY
    ResetKeepsSong
