SPECIFICATION Spec
CONSTANTS
    Vars = {x}
    Shapes <- SomeShapes
    Ranges <- SomeRanges
    Elements = {e1, e2}
    Junk = junk
    MaxIndex = 3
    MaxValues = 2
    Modes = {"PRINT", "CRASH"}
    Kinds = {"small", "cloned"}
    Careless = {}
PROPERTIES
    ArraysAreTables
    SlicesKeepPositions
SYMMETRY ElementSymmetry
CHECK_DEADLOCK FALSE
