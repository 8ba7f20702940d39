\* Each part alone: see the README for what its bounds let happen. A part may stop: a
\* subscriber may be idle, a set may be over.
SPECIFICATION Spec
CONSTANTS
  Digests = {d1}
  Origins = {o1}
  Foreign = {}
  None = None
  HistoryBound = 3
  MaxSets = 4
  MaxStarts = 2
  MaxFaults = 1
  MaxHands = 1
  Daemons = {p1, p2, p3}
  NoDaemon = NoDaemon
  Clients = {c1, c2, c3}
  Subscribers = {c1, c2}
  Readers = {c1}
  Unnumbered = Unnumbered
  MaxConnections = 2
  Queue = 1
  SocketRoom = 1
  MaxEvents = 2
  Feeds = {1, 2, 3}
  Mode <- MCMode
  Offers <- MCOffers
  MaxOffered = 2
  Pages = 2
  Recent = {4}
  Held = {2}
  Weights = {0, 1, 2}
  Prefetch = 1
  Deadline = 4
  Slow = 1
  Pictures <- MCPictures
  Small = 32
  Wide = 48
  Chunks = {7, 16, 33, 64}
  MaxBytes = 62
  Nodes = {1, 2, 3, 4, 5, 6, 7}
  Nowhere = 0
  Trees <- MCTrees
  RootLists <- MCRoots
  Depths = {1, 2, 3}
  MaxEdits = 2
  MaxLives = 2
  Documents <- MCDocuments
  Reporters = {r1, r2}
  Platform = "macos"
  ChecklistOf <- MCChecklist
  CommandLines <- MCLines
  Observations <- MCObservations
  MaxMishaps = 1
  CommandWords <- MCWords
  Absolute = {"/p", "~p", "/p q"}
  Spaced = {"/p q", "k k"}
  CountOf <- MCCountOf
  Decimal <- MCDecimal
  MaxStreamEvents = 2
  Machines <- MCMachines
  Screens = {"screen 1", "screen 2", "screen 3"}
  Asked = {"/p", "relative"}
  OtherImage = "other"
  MaxHappenings = 2
  Wallpapers = {w1, w2}
  FailureCodes = {"busy", "set_failed"}
  NoWallpaper = NoWallpaper
  NoCode = NoCode
  SpawnAttempts = 2
  PipeRoom = 3
INVARIANTS
  AnchorNotBehindRing UnreadFilesKept OneDaemonServes OneBeatPerQuiet
  NothingTwice OutcomeIsHonest PrefetchKeepsTheSet HeaderOfPieces WalkIsTheTree
  OneConfiguration OnePlace TwoFilesOfOneRun ExitIsTheAnswer AcceptedIsEverywhere
  RingIsTheHistory ResultIsTheWorkers
PROPERTIES
  ImplementsStream StreamsMove
CHECK_DEADLOCK FALSE
