SPECIFICATION Spec
CONSTANTS
    talk = talk
    two = two
    three = three
    four = four
    item = item
    xarun = xarun
    size = size
    laptop = laptop
    Latin <- LatinWords
    Item <- item
    Numeral <- Numerals
    Names <- SomeNames
    Top = top
    Kept = kept
    Times = {1, 2}
    Keys = {size, laptop}
    Actors <- Planners
    MaxCategories = 3
    MaxEvents = 2
    MaxTracks = 1
    Slots = {s1, s2}
    Requests <- Workload
    MaxRequests = 3
SYMMETRY Peers
INVARIANTS
    TypeOK
    ConflictNeedsRace
    TreeComplete
    KeysApart
    DatesInOrder
CHECK_DEADLOCK FALSE
