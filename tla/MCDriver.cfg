SPECIFICATION MCSpec
CONSTANTS
    file = file
    a = a
    b = b
    c = c
    d = d
    NoItem = NoItem
    Files = {file, a, b, c, d}
    Main = file
    NoFile = NoFile
    Namings <- OwnNames
    Items <- MCItems
    Width = 2
    Modes <- AllModes
    Programs <- MCEvery
    Documents <- MCDocuments
    Requests = 1
    DriverCareless = {}
INVARIANTS
    StagesAreSound
    SessionsAreSound
    StatusTellsTheTruth
    OrderIsSound
PROPERTY
    EverythingEnds
