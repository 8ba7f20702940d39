SPECIFICATION Spec
CONSTANTS
  Threads = {t1, t2}
  Hand = hand
  Images = {a, b, c}
  None = None
  NoOne = NoOne
  MaxFiles = 2
  Prefetch = 0
  MaxPins = 1
  MaxEvents = 2
  MaxFaults = 0
SYMMETRY Symmetry
PROPERTY PinnedStay
CHECK_DEADLOCK FALSE
