SPECIFICATION IOSpec
CONSTANTS
    NL = nl
    NUL = nul
    a = a
    Letters = {a}
    Zeros = {}
    MaxText = 3
    BufferSize = 3
    Fallible = {"fopen", "fseek", "fread", "fwrite", "popen"}
    Missing = missing
    Directory = directory
    OobModes = {"PRINT", "CRASH"}
    NullStr = null
    FilesCareless = {}
    NoCapture = nocapture
    Unset = unset
    Names <- SomeNames
    Values <- SomeValues
    ExitCodes = {0, 1, 255}
    InitialCap = 2
    Memory = 16
    Uses = {"files", "output", "commands", "variables", "input"}
    ConsoleCareless = {}
    Signatures <- SomeSignatures
    BoundaryCareless = {}
    Programs <- SomePrograms
    Results = {0, 1, 7}
    Capacity = 64
    StartupCareless = {}
    Outputs <- SomeOutputs
    LongOutputs <- ManyOutputs
    RunnerCareless = {}
INVARIANTS
    CoreIsComplete
    FilesTellTheTruth
    OutputGoesWhereItShould
    CrossesUnchanged
    ProgramsStartWhole
    RunnerTellsTheTruth
CHECK_DEADLOCK FALSE
