SPECIFICATION Spec
CONSTANTS
  f1 = f1
  f2 = f2
  Files = {f1, f2}
  Clients = {c1}
  Reporters = {r1}
  Upgraders = {}
  Size <- SmallFiles
  INT_RANGE = 4
  Main = Main
  Free = Free
  NoFile = NoFile
  FILE_NUMBER_UPPER_LIMIT = 2
  WORKREPORT_FILE_LIMIT = 1
  MEANINGFUL_VALIDATE_MIN_NUM = 64
  MaxCalls = 2
  MaxCrashes = 0
  MaxStores = 0
  MaxFlips = 1
  MaxLost = 0
SYMMETRY Symmetry
INVARIANT ChangedIndexesDenote
