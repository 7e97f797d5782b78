SYMMETRY VarSymmetry
CONSTANTS
  Vars = {x, y}
  Blocks <- MCBlocks
  None = None
  Chars <- MCChars
  Literals <- MCLiterals
  Junk = 0
  MaxLen = 2
  MaxOperands = 3
  MaxLost = 0
  Modes = {"PRINT", "CRASH"}
  Careless = {}
SPECIFICATION Spec
INVARIANT StringsAreOwned
PROPERTY StringsAreValues
CHECK_DEADLOCK FALSE
