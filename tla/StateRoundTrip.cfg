\* One set of an image whose path is not all ASCII, and a restart.
SPECIFICATION FilesSpec
CONSTANTS
  Digests = {d1, d2}
  Origins = {o1}
  Foreign = {d2}
  None = None
  HistoryBound = 2
  MaxSets = 1
  MaxStarts = 2
  MaxFaults = 0
  MaxHands = 0
INVARIANT WrittenIsRead
CHECK_DEADLOCK FALSE
