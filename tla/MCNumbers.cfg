SPECIFICATION NumbersSpec
CONSTANTS
    Half = 8
    Lanes = 2
    OtherLanes <- Ends
    Forms <- ButVectorProducts
    Bits <- FewBits
    Radix = 3
    MaxText = 5
    Places = 2
    Tiny = 1
    Huge = 2
    MaxExponent = 4
    Scale = 2
    NaN = NaN
    Jobs = {"cast", "to_str", "parse", "read", "float", "abs", "min", "max", "fmin", "fmax", "sleep_time", "duration"}
    Loose = {}
    Base = 4
    Precision = 2
    Scaling = 4
    IntLiterals <- WithZeros
    FloatLiterals <- Points
    MaxPower = 3
    LiteralBits = {2, 3, 4, 5}
    Misfolded = {}
INVARIANTS
    ResultsAreClamped
    PowersAreClamped
    NumbersAreKept
    FoldingIsExact
