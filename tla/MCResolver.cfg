CONSTANTS
  main = main
  a = a
  b = b
  c = c
  d = d
  Files = {main, a, b, c, d}
  Main = main
  NoFile = NoFile
  Core = Core
  Library = Library
  Width = 3
  ImportGraphs <- MCPrograms
SPECIFICATION FairSpec
INVARIANT GraphIsSound
PROPERTY GraphIsBuilt
