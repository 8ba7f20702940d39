SPECIFICATION Spec
CONSTANTS
  Threads = {t1, t2}
  Hand = hand
  Images = {a, b}
  None = None
  NoOne = NoOne
  MaxFiles = 1
  Prefetch = 1
  MaxPins = 1
  MaxEvents = 2
  MaxFaults = 1
SYMMETRY Symmetry
INVARIANTS TypeOK AnchorKept
PROPERTIES SetterFindsFile CapHolds IndexReconciled SweepSparesProtected
CHECK_DEADLOCK FALSE
