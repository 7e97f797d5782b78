CONSTANTS
  main = main
  a = a
  b = b
  c = c
  d = d
  Files = {main, a, b, c, d}
  Main = main
  NoFile = NoFile
  Core = Core
  Library = Library
  Width = 1
  ImportGraphs <- MCPrograms
SPECIFICATION Spec
INVARIANTS FailureIsReturned
