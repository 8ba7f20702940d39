\* A client and the scheduler over three slots: a claim can be refused, a sweep
\* can meet the worker of the next rotation, a tool that outlived a killed worker
\* can land after it, and the ring of two is full and drops an entry.
SPECIFICATION FairSpec
CONSTANTS
  Clients = {c1}
  Scheduler = scheduler
  Images = {a, b}
  NoImage = NoImage
  HistoryEntries = 2
  MaxSlots = 3
INVARIANTS TypeOK SingleFlight CleanStatusMeansAnchorShown PrevIsTheWalk
PROPERTIES Implements QueuedRunEnds
CHECK_DEADLOCK FALSE
