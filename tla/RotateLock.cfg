\* Three worker runs on two threads and a worker run by hand, on a filesystem with
\* flock and on one without; no process id is handed out twice.
SPECIFICATION FairSpec
CONSTANTS
  t1 = t1
  t2 = t2
  w1 = w1
  w2 = w2
  hand = hand
  Threads <- MCThreads
  Workers <- MCWorkers
  ChildOf <- MCChildOf
  Modes = {"flock", "excl_file"}
  Pids = {p1, p2, p3}
  DaemonPid = DaemonPid
  NoPid = NoPid
  PidReuse = FALSE
INVARIANTS TypeOK MutualExclusion FileHasAnOwner
PROPERTIES DeadHolderIsCleared ReclaimedFileHasNoHolder
CHECK_DEADLOCK FALSE
