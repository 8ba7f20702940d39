\* A client that goes away between its claim and the `queued` line.
SPECIFICATION FairSpec
CONSTANTS
  Clients = {c1}
  Scheduler = scheduler
  Images = {a, b}
  NoImage = NoImage
  HistoryEntries = 2
  MaxSlots = 3
PROPERTY EveryRunEnds
CHECK_DEADLOCK FALSE
