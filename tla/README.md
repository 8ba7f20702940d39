# whirl, in TLA+

whirl is a wallpaper rotator: a resident daemon (`whirld`) that keeps a schedule, a history and a
cache, a short-lived worker (`whirl-worker`) that does everything that can hang or fail, and a
client (`whirl`) that talks to the daemon over a local socket. This directory holds TLA+ modules
translated from the Rust source under `src/crates`, the configurations that check them with TLC,
and theorems about them that TLAPS checks.

    tlc -workers 2 -config Rotation.cfg Rotation        # one run
    tlapm Rotation_proofs.tla                           # one module of proofs

## The system

| component | state | operations | talks to |
|---|---|---|---|
| schedule (`whirld/schedule.rs`) | none: pure functions of two clock readings | `on_grid_after`, `rearmed_from`, `tick` | the scheduler thread |
| scheduler thread (`whirld/scheduler.rs`) | `previous` reading | `run`, `step`, `rotate` | `Daemon` under its mutex, then the worker |
| daemon state (`whirld/state.rs`) | one `State` behind one mutex: slot, running, paused, next_at, last_error, anchor, history, favorites, event number | `start_rotation`, `start_slot`, `record_success`, `record_failure`, `rotation`, `reconfigure`, `spend_slot`, `record_clock_jump`, `set_paused`, `add_favorite`, `remove_favorite`, `sweep` | state files, event bus, cache |
| control socket (`whirld/socket.rs`) | a thread per connection, a count of them | `serve`, `handle`, `dispatch`, `run_rotation`, `subscribe` | `Daemon` |
| worker supervision (`whirld/worker.rs`) | the child, its pipes, its deadline | `spawn_with_retry`, `run_reporting_reaped`, `terminate`, `failure_from` | the worker process, by two pipes, signals and its exit status |
| worker (`whirl-worker`) | its lock, the candidate it is at | `rotate`, `set`, `check` | sources, cache directory, platform |
| rotate.lock (`lock.rs` of both crates) | one file: its existence, its flock, its record | take, probe, record, removal, release | workers and sweeps |
| cache (`whirld/cache.rs`) | `sha256/`, `tmp/`, `index.json` | `record`, `sweep` | `finish_rotation` |
| state files (`whirld/statefile.rs`, `whirl-core/state.rs`) | `current.json`, `history.json`, `favorites.json` and what is left beside them | stage, commit, quarantine, load, rebuild | `Daemon` |
| daemon.lock (`whirld/lock.rs`, `main.rs`, `socket::bind`) | one file, its flock and record; the control socket's path | take, record, refuse; probe, unlink and bind the socket | other starts of `whirld` |
| event bus (`whirld/events.rs`) | a bounded queue per subscriber, the quiet period | `subscribe`, `broadcast`, `claim_heartbeat` | connections |
| pipeline (`whirl-worker/pipeline.rs`, `sources/`, `http.rs`) | the order of the sources, what failed, the time spent | `rotate`, `fill`, `store`, `warm`, `header_of`; `enumerate` of each source | the web, directories, the cache, the backend |
| platform backends (`whirl-worker/backend/`) | none: the desktop's own | choice of a desktop, `set`, `current` | APIs and tools of the platform |
| configuration (`whirl-core/config.rs`, `whirld/plan.rs`) | config.json; the copy each process has in force | `parse_root`, `reconfigure`, the worker's environment | daemon, worker, `whirl config check` |
| protocol and client (`whirl-core/protocol.rs`, `whirl-cli`) | one connection | `encode`, `parse`, `classify_line`, `talk`, `check_greeting` | control socket |
| report verb (`whirl-cli/report.rs`) | two output files | flags, observations, the two writes and the undo | a person with a checklist |
| log cap, service installation | a file each | one trim after a rotation; one-time calls | |

What is hard about it. Two kinds of thread start rotations, and the state lock is free while a
worker runs, so everything that keeps rotations apart is a test-and-set of one field and a lock
file shared with other processes. A worker can hang, die at any instruction, or be killed at its
deadline after it has already changed the wallpaper; the tool that changes it is a process of its
own. The clock of the schedule is the wall clock, which jumps. The lock file has a fallback whose
whole protocol is the existence of a file. The sweep that follows a rotation overlaps the next one.
State is written by a sequence of atomic file replacements, any of which may be the last. Three
processes read one configuration file at three times while somebody edits it. A subscriber's events
pass a queue and a socket that fill, and its quiet period is decided under one lock and announced
under another. Inside the worker, a picture is judged by a head that arrives in pieces, and the
prefetch spends the time of a rotation that has already succeeded.

What makes each component correct:

* schedule: no slot is spent twice, missed slots collapse into one, no jump stalls it, a due slot
  is served, a pause holds;
* rotations: one at a time, one outcome each, the anchor and the ring move together, `running` is
  given back, a clean status is the truth about the screen;
* rotate.lock: one holder under either primitive, and no file that keeps everybody out for ever;
* worker supervision: the result of a run is what its worker did, and a pid is handed on only of a
  process that is gone;
* cache: the anchor's file and the pinned files are never swept, the caps hold after a sweep;
* state files: a restart finds the last state or an older one, never a mixture it cannot name, and
  what it cannot read it keeps;
* daemon.lock: one daemon past it, and the socket is that daemon's;
* event bus: a subscriber sees consecutive numbers from the one it was told, or is dropped; one
  heartbeat for a quiet period;
* pipeline: an outcome that tells the truth, nothing asked for twice, a prefetch that costs no set,
  one verdict on a picture however its bytes come, a walk that is the tree;
* configuration: what is in force is the whole of one document, in one place;
* client: exit code 0 is the daemon's own answer to this request; report: both files or neither,
  and of one run; backends: an accepted set is on every screen.

## The modules

| module | models | proofs |
|---|---|---|
| `Schedule` | the arithmetic of `schedule.rs` as operators | lemmas in `Scheduler_proofs` |
| `Scheduler` | the scheduler thread, the clocks, pause and resume, clients' rotations, a restart | `Scheduler_proofs` |
| `RotationService` | the promise to a client: an abstract specification | |
| `Rotation` | the threads of the daemon, their workers, the screen, and the sweep's turn; implements `RotationService` | `Rotation_proofs` |
| `RotateLock` | the lock file itself, one system call at a time | `RotateLock_proofs` |
| `Cache` | the files of the cache, `index.json`, the protected set, `record` and the sweep, pins, a restart | `Cache_proofs` |
| `StateFiles` | the three state files: saves, failed writes, deaths, hands, the load of the next start | `StateFiles_proofs` |
| `DaemonLock` | the startups of several daemons, one system call at a time, up to the bound socket | `Components_proofs` |
| `EventStream` | what a subscriber is promised: an abstract specification | |
| `EventBus` | connections, subscriptions, queues, heartbeats; implements `EventStream` | `EventBus_proofs` |
| `Pipeline` | one rotation inside the worker | `Pipeline_proofs` |
| `HeadWindow` | the head of a picture that `store` keeps, and `header_of` | `Components_proofs` |
| `LocalSource` | the walk of a directory source | `Pipeline_proofs` |
| `ConfigSchema`, `Configuration` | the schema as data and its parse; who reads the file when | `Components_proofs` |
| `ReportVerb` | `whirl report` and its two outputs | `Components_proofs` |
| `Conversation` | one command of the client and the connection thread that answers it | `Components_proofs` |
| `Setters` | the backends: the choice, the calls of a set, the readback | `Components_proofs` |
| `Supervision` | one run of the worker as its parent sees it, beside the process | `Components_proofs` |
| `MCComponents` | an instance of each of the last eleven for TLC | |
| `MCRotateLock`, `MCCache` | instances for TLC | |

**Scheduler.** One action per critical section: `Look` is one pass of the loop up to the release
of the state lock (it reads the clocks, `paused` and `next_at`, and decides), `SpendSlot` and
`RecordClockJump` are the second critical section that writes what was decided, and
`StartRotation`, `SkipRotation`, `RotationEnds` are `rotate`. `Pause`, `Resume`, `ClientStarts`,
`ClientEnds` and `Restart` interleave with all of them. The clocks are two counters: `TimePasses`
moves both, `WallForward` (a suspend) and `WallBack` move one. `mono` counts from the last reading,
because the daemon only subtracts consecutive readings. `Schedule` has `on_grid_after` in closed
form; `LoopLeaves` is what the loop of the code ends with, and `GridMatchesLoop` compares the two. `lastFire`, `backSteps`, `restarts` and
`unseenStep` are history variables.

**Rotation.** `pc[t]` is where a thread is in `run_rotation` and `rotation`: `claim` before
`start_rotation`, `queued` before the interim line is written, `reload`, `spawn`, `wait` and `kill`
inside `rotation`, `finish` after the outcome is recorded and `running` is clear, `sweeping` with
rotate.lock taken. `worker[t]` is the life of the process: it takes the lock or is busy, aims the
setter at an image, has set it, exits with its line, fails or dies. A worker killed while its
setter runs may leave the tool behind (`orphans`), which sets its image later (`OrphanSets`).
`shown` is what the platform displays. Wording, timestamps, the event stream and the contents of
the cache are left out. `RotationService` has no thread, lock or worker: `Start`, `Succeed`,
`Fail`, `Check`; `Implements` maps `sets`, `anchor` and `ring` to `rotationCount`, `current` and
`history`.

**RotateLock.** A taker is a worker or a thread of the daemon. `at[k]` is its place between system
calls: the exclusive create (`CreateExclusive`), the probe of a file it created (`ProbeCreated`) or
found (`ProbeExisting`), the removal of a reaped worker's file (`Reclaim`) and the create after it
(`Recreate`), and the drop of the guard (`Release`). `mode` is what `flock` answers on the
filesystem, chosen at the start. `Die` is possible at every place; it frees the kernel's lock and
leaves the fallback's file. `Reap` puts the pid in the thread's hand, `SweepOnly` is the startup
sweep and the one after a failed spawn, which have none. Workers run by hand take the same lock.
In `Rotation` the lock is one predicate (`LockHeld`), in `Cache` one variable: `MutualExclusion` is
what justifies that.

**Cache.** An image stands for its digest, its path and its origin; `disk` is what `sha256/` holds,
`young` what the grace still covers, `index` the entries of `index.json`. A worker takes the lock,
finds or stores an image (`WorkerFills`), hands it to the setter, may warm others, and exits with
the lock free (`WorkerExits`) before anybody has recorded what it did: `RecordSuccess` moves the
anchor, `ReadIndex` and `WriteEntry` are `record`'s unlocked read and write, and then the thread
sweeps. `TakeSweep` takes the lock and resolves the protected set, `Scan` reads the index and
measures the files, `Remove` takes one file, `SaveSweep` writes the index, `FailSweep` is any error on
the way. `Favorite` and `Unfavorite` interleave. What the daemon knows and what it has written are
two things: `anchor` is `State.current`, `saved` the anchor of current.json, `newest` the image of
the first entry of history.json, `pins` and `pinFile` the favorites in memory and on disk. Each save
may fail, and the daemon goes on (`Fault`); `Rewrite` is the next save that succeeds. `Restart` kills
the daemon anywhere, lets a worker with the lock live on, reads current.json and, when it must,
history.json (`LoadCurrent`) and favorites.json, whose quarantine may fail (`LoadFavorites`), and
starts with a sweep. `late`, `overtaken`, `suspect`, `stale` and `pinned` are history variables. Left out: `tmp/`, the list of
dangling entries, `root_id`, sizes, and the order of `last_used` (every order is possible).

**StateFiles.** A change of state (`RecordSet`, `RewriteCurrent`, `SetPaused`, `AddFavorite`,
`RemoveFavorite`) leaves in `todo` the files it must write, in the code's order; the state lock is
held until they are done, so nothing else happens in between but failures and death. `Stage` and
`Commit` are the two halves of `Store::write`, with `StageFails` (which may leave a temp file) and
`CommitFails`; `SkipReadOnly` leaves a newer schema alone. `Die` may come anywhere, `ByHand` damages,
upgrades or deletes a file while the daemon is down, and `FilesStart` loads the three in order:
`LoadAbsent`, `LoadRead`, `LoadNewer`, `LoadCorrupt` (quarantine, which may fail), `RebuildCurrent`.
The origin of the anchor is not in current.json and is recovered from the ring, or lost. `Foreign`
are the images whose path or key has a character above ASCII, which the writer copies and the reader
refuses; it is empty in every run but `state_round_trip`.

**DaemonLock.** `OpenExclusive`, `OpenExisting`, `Acquire`, `RefuseHeld`, `Truncate`, `WriteRecord`
and `RecordFails` are `take_with` under either primitive, `Resolve` is what startup does before the
socket, `ProbeSocket`, `UnlinkSocket`, `BindSocket` are `bind`, `StartupFails` any error on the way, and
`KillDaemon` is possible everywhere. The socket's path outlives its daemon; a probe of it succeeds
only while that daemon listens.

**EventBus.** `StateChange` gives an event its number and broadcasts it in one critical section;
`Subscribe` reads the number and attaches a queue in one as well. A connection then loops: it
`Forward`s a queued event to a socket with room, finds itself `Drained` and polls its client's input
(the `Poll` actions: a whole line, a line cut by the timeout, the end, a partial line dropped), and when
the period is quiet it may claim the heartbeat (`ClaimHeartbeat`) and emit it later. `Accept` and
`AcceptTooMany` are the accept loop and its cap, `StreamDropped` the end of a subscriber whose queue
was full. `EventStream` has `Emit`, `Join` and `See` and no queue, socket or thread; `ImplementsStream`
maps `seq` to `emitted`.

**Pipeline.** `Draw` fixes the order of the sources; each source is listed a page at a time (`List`
actions, each taking up to `Slow`), its candidates filtered by what it says of them, and the next one
filled by its route: a download, a reference to a local file, or a copy; then the setter, then the
prefetch over what the walk has left (`WarmCandidate`, `WarmedOne`; `WarmStops`, `EndWarm` and
`NothingToWarm` end it). `failed` is a history of the candidates whose bytes failed or that the
setter refused in the walk; one that fails in the prefetch is not in it, because the code does not mark
it either. A candidate is what the filters and
the bytes tell apart: `said`, `bytes`, `named`, `holds`. `elapsed` moves inside requests and
`DeadlineKills` is the daemon's deadline.

**HeadWindow.** `OpenStream`, `ReadChunk`, `TakeHead`, `HeadIsFull`, `StreamFails`, `EndOfStream` are
`store`'s loop over pieces of any size; `HeaderOf` is `header_of` with its two windows. A picture is
its format, its length and where its `meta` ends or its segments begin, in units that keep the order of
the two windows, the prefixes and the cap. `boxes()` drops a HEIC box that runs past the bytes it is
given, so `meta` is found when all of it is there; a box of size 0 runs to the end of its parent
(pipeline.rs:1102), which is the end of what has been read, and is left out of the pictures.

**LocalSource.** `Validate` is `refuse`; `NextRoot`, `EnterDirectory`, `SkipVisited`, `TakeFile` and the others are
`walk` with its depth, its visited directories and its links; `Belongs` is the reference: a path
whose every step is an entry of the directory the step before it resolves to. A node is a canonical
path, so a directory is in one directory and not inside itself (`IsTree`); links go anywhere.
A path of the model begins at its root; `Origin` is the absolute path the code knows a candidate by, so that
one file below two roots has two paths and one origin. A directory that `fs::canonicalize` fails on is walked
without being recorded (`EnterBlind`, and `NextRoot` for a root), whatever has been visited; `blind` remembers
it.

**ConfigSchema, Configuration.** The keys with type, range, default and spellings are data, and
`ParseDocument` is the order in which `parse_root` reads them and refuses. `EditFile` changes the file,
`StartDaemon`, `StopDaemon`, `Reconfigure` (before each rotation), `ReadDeadline`, `SpawnWith` and
`WorkerLoads` are the readers and what one hands to the next. An environment is a
function of the variables that are set in it. `Says` and `Meant` are the reference
definition a parse is compared with: what the document's nearest spelling says.

**ReportVerb.** `Build` is everything up to the first write (flags and observations, each refusal
in its order); `WriteRow`, `RowFails`, `WriteOut`, `OutFails`, `UndoRow` the two writes, and `Killed`
anything in between; several reporters share the paths.

**Conversation.** `Invoke` turns a command line into a request, `Connect`, `Greet`, `ReadLine` and
`ReadEnd` are the client's `talk`, `AcceptClient`, `Dispatch`, `WorkDone`, `StreamEvent` and `StreamClose` the
connection thread, and `HangUp` ends the daemon's side anywhere, a line cut in the middle included. A
command line and a request line are sequences of words; which words are absolute paths, hold a space or
are numbers is a parameter. No word holds a line end or ends in a carriage return: `EncodeRequest` writes
them as they are, so such a word would be read as another request, or as less of one.

**Setters.** `BeginSet` chooses the desktop and its places from the environment and the tools;
`CallSucceeds`, `CallFails` and `ToolMissing` are the calls, one per place, where a refused call may have
changed the image; `BeginReadback`, `ReadsPlace` and `AnchorFrom` are `current`. `PlugIn`, `Unplug`
and `OthersSet` are the user and other programs. In all three backends the first refused call ends the set;
`GoneScreenFailsAlone` is what the docs say of a screen that is gone, and `setters_gone` shows the difference.

**Supervision.** `Spawns`, `SpawnBusy` and `SpawnFails` are `spawn_with_retry`; `PollCollects`, `PollFails`,
`PollAlive` and `LooksAtDeadline` one turn of the loop around `try_wait`, with the deadline looked at after
it; `SendTerm`, `GraceCollects`, `SendKill`, `WaitCollects` and `WaitFails` are `terminate`. Beside them the process
warns, prints, sets (`Shows`, then `TellsSet`), stores ahead (`Stores`, then `TellsAhead`), names its failure
(`Names`) and succeeds, fails or dies at any place. A pipe holds `PipeRoom` lines and nobody reads it
before the exit, so a write may wait until the deadline. `ReadOutput` is what the daemon makes of the lines
(`ResultOf`). A line is what it is taken for, with its image or its code; a warning has no `code=` field.
`Rotation` has the same run among others, with the outcome chosen in one step.

**MCComponents.** None of these components reads another's variables, so one run checks them as a
sum: `part` says whose steps are taken and the others stay in their initial states. The sum has the
behaviours of each, and no product of them.

## The runs

The composition of `Rotation` with `RotateLock`, `Cache` and `StateFiles` is by their interfaces, as said
above, not by a run: the product of their states is out of reach.

| run | shows | bounds |
|---|---|---|
| `scheduler` | types, `NoReplay`, `StallBounded`, `GridMatchesLoop`, `DueIsServed` | intervals {1, 2}, six wall seconds, one step back of any length, one restart |
| `scheduler_pause` | `PauseHolds` fails: a pause between `Look` and `SpendSlot` | one interval, no clock steps |
| `rotation` | types, `SingleFlight`, `CleanStatusMeansAnchorShown`, `PrevIsTheWalk`, `Implements`, `QueuedRunEnds` | a client and the scheduler, two images, a ring of two, three slots |
| `rotation_lost_client` | `EveryRunEnds` fails: the client is gone when `queued` is written | the same |
| `rotation_display` | `AnchorIsDisplayed` fails: a worker killed past its setter | the same |
| `rotate_lock` | types, `MutualExclusion`, `FileHasAnOwner`, `DeadHolderIsCleared`, `ReclaimedFileHasNoHolder` while no pid is used twice | two threads, their workers, one by hand, three process ids, both primitives |
| `cache` | types, `AnchorKept`, `SetterFindsFile`, `CapHolds`, `IndexReconciled`, `SweepSparesProtected` | two threads, two images and a cap of one, one pin, one image ahead, two events, one failed write |
| `cache_anchor` | `AnchorOnDisk` fails: a sweep starts between a worker's exit and its record | three images and a cap of two, no failed write |
| `cache_pins` | `PinnedStay` fails: a restart cannot read the favorites, and its sweep evicts a pin | the same |
| `components` | the eighteen properties below, of the eleven modules of `MCComponents` | below |
| `setters_gone` | `GoneScreenFailsAlone` fails: the call to an unplugged screen ends the set before the next screen | those of `components` |
| `state_round_trip` | `WrittenIsRead` fails: a start cannot read the history this build wrote, when a path in it is not ASCII | two images, one of them foreign, one set, two starts |

The properties of `components`, and the bounds that let them fail:

| module | properties | bounds |
|---|---|---|
| `StateFiles` | `AnchorNotBehindRing`: the anchor on disk is at least as new as the ring on disk. `RingIsTheHistory`: the ring on disk is the sets in their order, and each death or fault cost at most one. `UnreadFilesKept`: a file this build could not read is in its place or beside it | one image (a set is told apart by its number), a ring of three and four sets, two starts, one failed write, one hand |
| `DaemonLock` | `OneDaemonServes` | three daemons: one that died, and two that find what it left |
| `EventBus` | `OneBeatPerQuiet`, `ImplementsStream`, `StreamsMove` | three clients for two connections, two subscribers for one heartbeat, a queue and a socket of one line, two events |
| `Pipeline` | `NothingTwice`, `OutcomeIsHonest`, `PrefetchKeepsTheSet` | one source of each route, eight kinds of candidate, two offered at a time over two pages, a deadline of four against requests of one |
| `HeadWindow` | `HeaderOfPieces` | windows of 32 and 48, pieces of 7, 16, 33 and 64, a cap of 62; 88 pictures whose parts begin before, at and after each of them, none with a frame shorter than six bytes |
| `LocalSource` | `WalkIsTheTree` | six trees of seven nodes with links to nowhere, up, down, sideways and to a file; roots that overlap, lie side by side or are given twice; depths one to three; any directory without a canonical path |
| `Configuration` | `OneConfiguration`, `OnePlace` | twenty documents with every spelling and each kind of limit, two edits, two lives of the daemon |
| `ReportVerb` | `TwoFilesOfOneRun` | two reporters with the same, crossed and equal outputs, one failure or kill |
| `Conversation` | `ExitIsTheAnswer` | 26 command lines: every verb, its arguments at their limits and beyond, a signed count, words with a space |
| `Setters` | `AcceptedIsEverywhere` | eleven machines, one for each route of the choice, three screens, two changes from outside |
| `Supervision` | `ResultIsTheWorkers` | two images, two codes, pipes of three lines (a set and two images ahead fill one), one retry of the spawn; no signal, death or deadline is bounded |

Why the bounds are enough. Six seconds hold two slots of the longer interval and more of the
shorter, and let a step back exceed the two intervals that do not count as a jump. Three slots let
a claim meet a rotation, a sweep meet the next worker and a stray tool land after a success; a ring
of two is full after two of them and drops an entry. Three process ids allow a death, the sweep
after it and a third process in between. The images are one more than the cap, so a sweep has to
evict; one failed write and one restart are enough for a start to read an older anchor than the one that was
protected. The events of `Cache` are the workers started and the restarts: two workers let one thread
record or sweep while the other's worker runs, one worker and a restart leave a worker behind that
outlives its daemon; the sweep of the start is free. The safety results that are proved hold without any bound. In `components` a
subscriber has one request line under way and only `Readers` send any: a line of another subscriber
is read by the same code and changes no stream but its own.

Deadlock is not checked where the bounds, the events or the pids run out, where a connection may stay
idle, and where a component's work is over (a set, a walk, a report, a command).

Fairness. The scheduler's thread is a loop around a bounded sleep, and a rotation ends because its
worker has a deadline, so each step of a daemon thread is weakly fair. A worker owes nothing: it may
hang for ever, and the daemon's deadline (`Deadline`, `Terminate`; `Die` of a thread's worker in
`RotateLock`) ends it. Clients, clocks, supervisors, workers run by hand and stray tools owe
nothing. On the bus, a connection's thread is a loop around a bounded wait, so its steps are weakly
fair (`StreamStep`), except that it may block for ever in a write to a full socket; the clients that
`StreamsMove` speaks of (`Readers`) go on reading.

## What is proved

All proofs are about the same modules and the same formulas the runs check.

* `Scheduler_proofs`: `TypeCorrect`, `SlotSpentOnce` (`NoReplay`) and `ScheduleNeverStalls` (`StallBounded`). `NoReplay` alone is not
  inductive: a decision taken by `Look` is written later, so `ReplayInv` adds that a decided
  deadline lies after the reading it was taken from, and that the readings only grow while the
  clock is not set back. `StallBounded` speaks of a sleeping thread that has seen every step back;
  `StallInv` also bounds what a decision under way may arm, and gives a deadline its reach while a step
  back is still unseen: one that stays within two intervals of drift is no jump, so each of them
  may leave the deadline two intervals further ahead, and no more. The lemma `GridAdvances` gives
  the bounds of the grid for all integers, and
  `GridIsKept` (`GridMatchesLoop`) says that the closed form is what the loop leaves, an interval of zero
  included (`GridIsTheLoop`: the slots behind the clock are a prefix of the multiples).
* `Rotation_proofs`: `TypeCorrect`, `OneRotationAtATime`, `AnchorHeadsTheRing` (the anchor is the newest entry of the ring),
  `CleanStatusIsTrue`, `PrevWalks` (`PrevIsTheWalk`) and `ImplementsService`. `PrevWalks` is a fact of every
  ring and every anchor, from `TypeOK` alone (`PrevIsFound`; a set of naturals has a least member). The invariant adds `WorkerKnows`: a worker at its
  setter has chosen an image, and past it the screen shows that image unless a stray tool changed
  it. The refinement is a step simulation: each action maps to a step of `RotationService` or to a
  stutter, and `SingleFlight` is what makes a success or a failure find `running` set.
* `RotateLock_proofs`: `TypeCorrect`; `OneHolderAtATime`, `NoReuseNoLiveFile` and `EveryFileHasAnOwner`
  (`FileHasAnOwner`) under `~PidReuse`. `LockInv` has four parts: the kernel's lock and the takers agree; under the fallback
  the file has one owner and names it; process ids are unique; and a sweep about to remove a file
  still looks at the file of the dead worker it reaped. The last is what mutual exclusion rests on
  and what a reused process id breaks (with `PidReuse = TRUE`, TLC shows the removal of a live file).
  `FileHasAnOwner` is inductive beside it: a file passes from its creator to its holder, and from a
  dead holder to the sweep of the thread that reaped it.
* `Cache_proofs`: all six properties of the run `cache`, for any number of threads, images, pins and
  events: `TypeCorrect`, `SetterAlwaysFindsFile`, `SweepsSpareProtected`,
  `AnchorMissingInTwoCases`, `CapAfterSweep`, `IndexAfterSweep`. `AnchorKept` says that the anchor's file is there but in
  two cases: a sweep had begun before the outcome of the worker was recorded (`suspect`), or a start has read
  another anchor than the one in force, because a save had failed or current.json could not be read
  (`stale`). Both happen: TLC finds the first in `cache_anchor`. They are corollaries of one
  invariant, `CacheInv`: one rotation at a time is between claim and record; a worker's image is on
  disk while it holds the lock, and after that until a sweep begins, which `overtaken` remembers;
  and a sweep's survey is the disk, and its protected set still covers the anchor and the pins
  except those that changed since. The lock is what it rests on: a file is stored or removed only
  by its holder.
* `Components_proofs`, for every value of each component's constants:
  * DaemonLock: `DaemonTypes`, `OneDaemon` (`OneDaemonServes`) and `RefusalIsTrue`. `OneDaemonServes` is not
    inductive: what keeps a second daemon out is `LockIsHeld` (who is past the lock has the kernel's,
    or made the file); `SocketIsTheRunners` says that who listens runs, and that the path is the
    runner's.
  * ReportVerb: `ReportAndRow` (`TwoFilesOfOneRun`), for any number of reporters on any paths. `Owns` is
    what a reporter may rely on between its two writes: the row is still its own, because nobody
    writes a file that exists or removes one it has not made (`OthersStay`).
  * Configuration: `OneConfigurationInForce` (`OneConfiguration`) and `OneCacheOneBackend` (`OnePlace`), for any
    documents, edits and environments. `ParsedIsMeant` says that a parsed document means what
    it says: every key has the value of its nearest spelling, or its default, and a refused
    document was to be refused; it needs no induction, because a parse is a
    quantified statement over the rows of the schema. `ConfigurationInv` joins it to who has read which
    document. `PlaceInv` follows the daemon's answers through the worker's environment to what the worker loads.
  * Setters: `OneImageEverywhere` (`AcceptedIsEverywhere`), for any machines and any changes from outside.
    `SetterInv`: an undisturbed place shows the image or has a call still to come; `ReadInv`: what the
    readback has read is that image, and what it will read are those places.
  * Conversation: `ExitIsTrue` (`ExitIsTheAnswer`), for any command lines and words. `RoundTrip` is the
    grammar's part: what the daemon parses is the request that was encoded, or a refusal.
    `ConvoInv` is the rest: what is on its way to the daemon is that request or the one `close`
    (`Sent`), the daemon serves nothing else (`Serving`), and an `OK` on its way to the client is the
    last line of an answer the daemon has ended (`Fit`), a line cut by a hang-up included.
  * Supervision: `RunTellsTheTruth` (`ResultIsTheWorkers`), for pipes of any room and workers that say any
    number of lines. `TapeIsTrue`: the lines in the pipes say of the process only what it did, its code
    included; `InStep`: an end that went well has said all of it, and the status is collected once; `Over`: how
    a run came to its result.
  * HeadWindow: `OneVerdict` (`HeaderOfPieces`), for any windows, cap, pieces and pictures, where the
    numbers of a JPEG's frame are there before the marker after it is (`FramesAreReadFirst`: a frame's
    length is 4 or more, and a well-formed one's at least 11; the code asks for 2. With a shorter one TLC
    shows the two apart, see below).
    `HeadInv`: the window is what the head asks for, and a head past the small window had to be.
    `DecidedStays`: a head that no longer asks for more has the answer any longer one has.
* `EventBus_proofs`: `BusTypes`, `OneHeartbeat`, `NoGap` and `BusImplementsStream`, for any numbers of clients and
  events and any bounds. The refinement is a step simulation. Its invariant, `StreamIsGapFree`, joins
  what a subscriber has read, what its socket holds and its queue into
  one run of consecutive numbers, which ends at the last event while it is attached; that is what
  makes a read a `See`. `Counted` gives the connections and the heartbeats under way their counts.
* `Pipeline_proofs`: `OutcomeHonest`, `PrefetchIsBounded` and `NothingAskedTwice` (`NothingTwice`), for any sources, offers, pages and deadline. `PipeInv`
  has three parts: `Course` (where a run is and what it has shown), `Reasons` (which candidates have
  failed, and on what), `Clock` (how late each step of the prefetch can be for a set made in time). For
  `NothingTwice`, `Once` says that the sources asked and those whose turn is to come have none in
  common, prefetch included, and that every candidate that failed in the walk is shunned from then on. What
  the theorems leave out: `OutcomeHonest` counts a source that cannot be listed as one that has no
  candidates, because the code does, and `NothingAskedTwice` says nothing of a candidate that fails in
  the prefetch.
  `TheWalkIsTheTree` (`WalkIsTheTree`) holds for any trees, lists of roots and depths, without an induction over paths:
  `WalkSound` says that what is on the stack is a way through the tree and that a directory with a canonical path
  is read once, `FoundOnce` that nothing
  offered is still to come from it, `TreeWalk` that without links the directories entered hang
  under one root and none of them is to come again (this rests on `IsTree`, and holds for those without a
  canonical path too), and `NothingLeftOut`
  that what belongs is offered or lies behind an entry not taken yet. `OneOrigin` takes the paths to the
  absolute ones: where no root is above another (`Overlap`), two candidates with one origin are one
  (`BeginsAlike`, a lemma about sequences). Nothing is claimed of overlapping roots, nor of what a walk that
  follows links leaves out.
* `StateFiles_proofs`: `AnchorFirst`, `UnreadStay` and `HistoryIsWhatHappened` (`RingIsTheHistory`), for any numbers of sets, deaths, failed writes and hands.
  `FilesInv` has, beside the shape of the variables: `Entries` (what is on disk and in memory are
  sets), `Ordered` (no anchor is older than a ring, on disk or in memory, while no write has failed),
  `Recalled` (what a load under way has in memory is what it has read), and `Unread` (a file this
  build could not read is one it writes nothing to, or could not move aside). `HistoryInv` counts the
  sets that are missing from a ring up to the newest set made, not up to the ring's own newest:
  a life takes over what was lost before it, and the set under way (`Owed`) is charged to the
  death that may come before its write.

The assumptions are the named `ASSUME`s of each module: intervals are positive and one is the largest
(`LargestInterval`: seconds are a `u64`), directories form a tree (`IsTree`), the ring has room for an entry, threads and workers are
distinct, images, clients and screens are finitely many, a platform is one of those the code is built for,
a number is read as it was written (`GrammarAssumption`), a list in a document is a list (`DocumentAssumption`),
`worker_failed` is what no worker names (`SupervisionAssumption`), bounds are numbers. None assumes anything
of a behaviour; the two hypotheses, `~PidReuse` and `FramesAreReadFirst`, are named where they are used.

Only model-checked: `DeadHolderIsCleared` and the liveness properties `DueIsServed`, `QueuedRunEnds` and
`StreamsMove`, which the prover cannot do. Every other property of a passing run is a theorem.

## Seen in the code

Seven disagreements between the code and what is said of it have a run of their own and are listed
as findings. Others were met while translating; the modules do what the code does.

Daemon:

* A save of current.json that fails is logged and the daemon goes on (state.rs:1229-1240). When the daemon dies
  before the next save that succeeds, the start after it reads the anchor of before, whose file a sweep may have
  removed meanwhile: current.json then names a missing file (`stale`; docs/spec/state-and-cache.md:599).
* `prev` appends to the ring like any other set (state.rs:547), so two of them toggle between two images;
  docs/architecture.md:551-553 says it "removes nothing and appends nothing".
* `rotate.lock` under the fallback: with a process id used twice (`PidReuse = TRUE`, two pids) a sweep can
  remove a live worker's file; docs/spec/state-and-cache.md:1232 says the question does not arise.
* A 17th client gets `ERR busy` in place of a greeting (socket.rs:171) and exits 3, although
  the daemon refused it with an `ERR` code (docs/architecture.md:456, 1145). An I/O error exits 1,
  which "keeps exactly one meaning": refused.
* `whirl idle` ends at the first `event:` line, a heartbeat included, and may print several
  (docs/architecture.md:635: one line, "when a change arrives").
* `stage_named` leaves its `.tmp-` file after a failed write (statefile.rs:205-232).
* A subscriber that stops reading keeps its thread and its place among the connections, although
  the bus has dropped it (events.rs:10-13). A poll that times out in the middle of a line drops the part it has
  read (socket.rs:353). Event numbers restart at 0 with the daemon.
* With a favorites.json of a newer schema `favorite` is answered OK and saved nowhere
  (state.rs:1215-1218).
* `rebuild_current` finds the anchor's origin only when the newest entry has its digest.
* Under the fallback, a daemon ended by a signal leaves daemon.lock, and the next start is refused.
* Both pipes of a worker are read after its exit, and the comment there counts on one line on stderr
  (worker.rs:327). The worker writes one for each source and candidate that fails (pipeline.rs:1811, 1866,
  2024; local.rs:405), and `check` one on stdout for each source. A worker that fills a pipe, after its set as
  well as before, waits for its deadline and is a timeout.
* There is no upper limit to the interval or the deadline. The plan line prints a configuration that
  is not in force until the restart.

Worker and client:

* A file that vanishes from a `reference` source ends the whole rotation with `not_found` instead of one candidate.
* Where no source can be listed, the rotation ends in `no_candidates` (pipeline.rs:1810-1819, 1936), because a
  listing that fails leaves no failure behind; docs/spec/features.md:199-206 and docs/architecture.md:729, 1836
  promise `offline`, and keep `no_candidates` for a source that "answered but the filter pipeline left nothing".
* A candidate that fails in the prefetch is not marked bad (pipeline.rs:2023-2025): when another source offers it, it
  is requested again. docs/spec/features.md:223-224 marks a candidate whose set fails "bad for the rest of the run",
  and the comment above (pipeline.rs:2012) spares a request for one "this run already refused".
* One display's refused call ends the set (macos.rs:429, windows.rs:607, linux.rs:474): the displays after it are not
  called, and the answer is `set_failed` although those before it show the image. docs/architecture.md:1837 has the
  remaining ones set, and `set_failed` only if every display failed; `setters_gone` is the run of the first half.
* A request may take 120 s whatever the deadline is. The worker takes the prefetch budget from its own
  reading of the deadline, which may differ from the daemon's.
* Under `follow_symlinks` a directory first reached too deep is marked visited, and is not
  read when a shorter way leads to it (local.rs:262, 315-320). One file in two overlapping roots is
  offered twice, with one path and one id (local.rs:213-217, 366-373; local.rs:350: "at most one per file"), and so
  is one reached through a followed link, with two.
* A JPEG whose frame header claims a length of 2 or 3 is measured by its file and may be refused in a
  download: when a piece ends at the last byte of its numbers, the head ends at the junk after the
  frame, `head_window` narrows again and nothing more is taken (pipeline.rs:924, 1421; local.rs:452: "a
  file this source admits is a file every later stage can measure").
* The error for a source id that is used twice names line 0.
* `report`: a file half written stays when its write fails, and refuses the next attempt.
* On GNOME the first of the two keys may be set when the second is refused; on Windows the readback
  skips monitors without an image; no screen at all reads as "none". Nothing calls `current` yet.

## Not modelled

* The log's cap and the installation of the service: one writer and one rename, one-time calls.
* The worker's verb `check`, the cache's `tmp/`, the plan line.
* The characters of the grammars: requests, answers and documents are words and keys. (The one case
  where a character decides is `Foreign`.) Nor the wording of anything that is printed.
* The libraries and system calls behind the backends and HTTP: what a call may answer is modelled,
  not how; curl's arguments and the API's JSON are left out.

`Rotation` covers one life of the daemon; `Scheduler`, `Cache` and `StateFiles` cover restarts, each for its own
state.

## The plan

The schedule, the rotations, the lock and the cache came first: they are the daemon's concurrency.
The state files, daemon.lock, the bus, the worker's inside, the configuration and the client
followed. What is left is a composition of `Rotation` with restarts and `StateFiles`, to check `prev` across a
death.
