\* A worker that dies between its setter and its exit.
SPECIFICATION FairSpec
CONSTANTS
  Clients = {c1}
  Scheduler = scheduler
  Images = {a, b}
  NoImage = NoImage
  HistoryEntries = 2
  MaxSlots = 3
INVARIANT AnchorIsDisplayed
CHECK_DEADLOCK FALSE
