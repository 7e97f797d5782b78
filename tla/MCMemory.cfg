SPECIFICATION MemorySpec
CONSTANTS
    DataVars = {list1, list2}
    BufferVars = {array1, array2}
    Slots = {d1, d2, d3, d4, d5, d6, d7, d8}
    Buffers = {b1, b2, b3}
    None = None
    TargetLists <- ListsAndArrays
    MaxData = 3
    list1 = list1
    list2 = list2
    array1 = array1
    array2 = array2
    Overlapping = {}
  Programs <- Bodies
  Nesting = 3
  CarelessBody = {}
  Renamed = FALSE
  Sizes = {1, 2}
  Capacity = 3
  Callables = {c}
  Codes = {"e1", "e2"}
  ArgumentLists <- Lists
  MaxValues = 7
  MaxSteps = 4
  CallsCareless = {}
  Types <- MemoryTypes
  Held <- MemoryHeld
  Scalars = {"1"}
  OpaqueLeakMode = "PRINT"
  Depth = 2
  OwnershipCareless = {}
INVARIANTS
  AssignmentsAreSafe
  ValuesEndOnce
  ValuesHaveOneOwner
  CallsReturnWhereTheyShould
  ValuesAreCloned
PROPERTY
  AssignsWhatWasRead
CHECK_DEADLOCK FALSE
