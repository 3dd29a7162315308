CONSTANTS
    Cells = {c1, c2}
    NoCell = NoCell
    u1 = u1
    u2 = u2
    Urls = {u1, u2}
    NoUrl = NoUrl
    NoImage = NoImage
    Answers <- MCAnswers
    MaxLoads = 1
    MaxQueue = 2
SPECIFICATION Spec
PROPERTIES
    ImageOfCurrentUrl
CHECK_DEADLOCK FALSE
