----------------------------- MODULE Scheduler ------------------------------
(***************************************************************************)
(* The scheduler thread of whirld against the wall clock, the clients that *)
(* pause and resume it, and a restart of the daemon                        *)
(* (crates/whirld/src/scheduler.rs, and spend_slot, record_clock_jump,     *)
(* set_paused and load of crates/whirld/src/state.rs).                     *)
(*                                                                         *)
(* The state lock is held by each action below and by none across two of   *)
(* them: `step` reads `paused` and `next_at`, releases the lock, decides,  *)
(* and takes it again to write. What a client does in between is what the  *)
(* interleavings here are about.                                           *)
(***************************************************************************)
EXTENDS Schedule

CONSTANTS Intervals,     \* values `schedule.interval_seconds` takes as it is edited
          NoDeadline,    \* `next_at: None`
          MaxWall,       \* bound: the last second of the wall clock
          MaxBack,       \* bound: the farthest one step of the clock goes back
          MaxBackSteps,  \* bound: how many times the clock is set back
          MaxRestarts    \* bound: how many times the daemon dies and restarts

ASSUME SchedulerAssumption ==
  /\ Intervals # {} /\ Intervals \subseteq Nat \ {0}
  /\ NoDeadline \notin Int
  /\ MaxWall \in Nat /\ MaxBack \in Nat /\ MaxBackSteps \in Nat /\ MaxRestarts \in Nat

\* `interval_seconds` is a u64: among the values it takes one is the largest.
ASSUME LargestInterval == \E i \in Intervals : \A j \in Intervals : j <= i

MaxInterval == CHOOSE i \in Intervals : \A j \in Intervals : j <= i

VARIABLES
  wall,         \* the wall clock
  mono,         \* the monotonic clock, counted from the last observation: the
                \* daemon only ever subtracts two consecutive readings
  paused,       \* State.paused, saved in current.json by every change to it
  nextAt,       \* State.next_at, saved in current.json by every change to it
  interval,     \* the interval of the configuration in force
  running,      \* whose rotation is in flight: "none", "client" or "scheduler"
  pc,           \* the scheduler thread: "asleep", "due", "jump", "claim", "rotation"
  seen,         \* the wall clock of `previous`, the last observation
  decided,      \* the deadline the last tick returned
  lastFire,     \* history: the wall clock of the last slot spent, -1 before it
  backSteps,    \* history: how many times the clock was set back
  restarts,     \* history: how many restarts happened
  unseenStep    \* history: "no", "yes" (a step back not observed yet), "lost" (one
                \* the daemon cannot observe: it died first, or the step undoes a
                \* forward drift of the same slice)

clocks == <<wall, mono, backSteps>>
thread == <<pc, seen, decided>>
vars == <<wall, mono, paused, nextAt, interval, running, pc, seen, decided,
          lastFire, backSteps, restarts, unseenStep>>

Previous == [wall |-> seen, mono |-> 0]
Current == [wall |-> wall, mono |-> mono]

\* A deadline further than one interval away is one a saved file may hold: it
\* was written under a wall clock that has since been set back.
TooFar(next) == next # NoDeadline /\ \A i \in Intervals : next > wall + i

Init ==
  /\ wall \in 0..MaxWall /\ mono = 0
  /\ paused \in BOOLEAN
  /\ interval \in Intervals
  /\ nextAt \in (0..MaxWall) \cup IF paused THEN {NoDeadline} ELSE {wall + interval}
  /\ running = "none"
  /\ pc = "asleep" /\ seen = wall /\ decided = 0
  /\ lastFire = -1 /\ backSteps = 0 /\ restarts = 0
  /\ unseenStep = IF TooFar(nextAt) THEN "lost" ELSE "no"

-----------------------------------------------------------------------------
(* The clocks. *)

TimePasses ==
  /\ wall < MaxWall
  /\ wall' = wall + 1 /\ mono' = mono + 1
  /\ UNCHANGED <<paused, nextAt, interval, running, thread, lastFire, backSteps,
                 restarts, unseenStep>>

\* The machine sleeps, or the clock is set forward: the monotonic clock stands.
WallForward ==
  /\ wall < MaxWall
  /\ wall' = wall + 1
  /\ UNCHANGED <<mono, paused, nextAt, interval, running, thread, lastFire,
                 backSteps, restarts, unseenStep>>

WallBack ==
  /\ backSteps < MaxBackSteps
  /\ \E d \in 1..MaxBack : d <= wall /\ wall' = wall - d
  /\ backSteps' = backSteps + 1
  /\ unseenStep' = IF unseenStep = "lost" \/ Drift(Previous, Current) > 0 THEN "lost" ELSE "yes"
  /\ UNCHANGED <<mono, paused, nextAt, interval, running, thread, lastFire, restarts>>

-----------------------------------------------------------------------------
(* The scheduler thread. *)

\* Mutant: the schedule is looked at only while no rotation runs.
AsleepWhileRunning == paused \/ nextAt = NoDeadline \/ running # "none"

NothingArmed == paused \/ nextAt = NoDeadline

\* One pass of the loop up to the release of the state lock: observe, read
\* `paused` and `next_at`, and decide on the values read.
Look ==
  /\ pc = "asleep"
  /\ seen' = wall /\ mono' = 0
  /\ IF NothingArmed
     THEN UNCHANGED <<pc, decided>>
     ELSE LET t == Tick(Previous, Current, nextAt, interval)
          IN  /\ pc' = IF t.kind = "wait" THEN "asleep" ELSE t.kind
              /\ decided' = IF t.kind = "wait" THEN decided ELSE t.next
  /\ unseenStep' = IF unseenStep = "lost" THEN "lost" ELSE "no"
  /\ UNCHANGED <<wall, backSteps, paused, nextAt, interval, running, lastFire, restarts>>

RecordClockJump ==
  /\ pc = "jump"
  /\ nextAt' = decided /\ decided' = 0
  /\ pc' = "asleep"
  /\ unseenStep' = IF unseenStep = "lost" THEN "yes" ELSE unseenStep
  /\ UNCHANGED <<clocks, paused, interval, running, seen, lastFire, restarts>>

\* The slot is spent before the worker is spawned, whatever becomes of it.
SpendSlot ==
  /\ pc = "due"
  /\ nextAt' = decided /\ decided' = 0
  /\ lastFire' = seen
  /\ pc' = "claim"
  /\ unseenStep' = IF unseenStep = "lost" THEN "yes" ELSE unseenStep
  /\ UNCHANGED <<clocks, paused, interval, running, seen, restarts>>

\* `start_rotation` and the re-read of the configuration that opens `rotation`.
StartRotation ==
  /\ pc = "claim" /\ running = "none"
  /\ running' = "scheduler" /\ pc' = "rotation"
  /\ interval' \in Intervals
  /\ UNCHANGED <<clocks, paused, nextAt, seen, decided, lastFire, restarts, unseenStep>>

\* A client's rotation is in flight: the slot stays spent, nothing is retried.
SkipRotation ==
  /\ pc = "claim" /\ running # "none"
  /\ pc' = "asleep"
  /\ UNCHANGED <<clocks, paused, nextAt, interval, running, seen, decided, lastFire,
                 restarts, unseenStep>>

RotationEnds ==
  /\ pc = "rotation"
  /\ running' = "none" /\ pc' = "asleep"
  /\ UNCHANGED <<clocks, paused, nextAt, interval, seen, decided, lastFire, restarts,
                 unseenStep>>

-----------------------------------------------------------------------------
(* Clients, and the life of the process. *)

ClientStarts ==
  /\ running = "none"
  /\ running' = "client" /\ interval' \in Intervals
  /\ UNCHANGED <<clocks, paused, nextAt, thread, lastFire, restarts, unseenStep>>

ClientEnds ==
  /\ running = "client"
  /\ running' = "none"
  /\ UNCHANGED <<clocks, paused, nextAt, interval, thread, lastFire, restarts, unseenStep>>

Pause ==
  /\ paused' = TRUE
  /\ UNCHANGED <<clocks, nextAt, interval, running, thread, lastFire, restarts, unseenStep>>

\* Mutant: a resume that leaves the frozen deadline where it was.
ResumeKeepsDeadline ==
  /\ paused' = FALSE
  /\ UNCHANGED <<clocks, nextAt, interval, running, thread, lastFire, restarts, unseenStep>>

\* `resume` re-arms from now, also when the schedule was not paused.
Resume ==
  /\ paused' = FALSE
  /\ nextAt' = RearmedFrom(wall, interval)
  /\ unseenStep' = IF unseenStep = "lost" THEN "yes" ELSE unseenStep
  /\ UNCHANGED <<clocks, interval, running, thread, lastFire, restarts>>

\* The daemon dies and its supervisor starts it again: `load` reads `paused` and
\* `next_at` back, the monotonic origin is new, and the observation that showed
\* the clock before the crash is gone.
Restart ==
  /\ restarts < MaxRestarts /\ restarts' = restarts + 1
  /\ mono' = 0 /\ seen' = wall
  /\ pc' = "asleep" /\ decided' = 0 /\ running' = "none"
  /\ interval' \in Intervals
  /\ nextAt' = IF nextAt = NoDeadline /\ ~paused THEN wall + interval' ELSE nextAt
  /\ unseenStep' = IF unseenStep = "yes" \/ pc = "jump" THEN "lost" ELSE unseenStep
  /\ UNCHANGED <<wall, paused, lastFire, backSteps>>

-----------------------------------------------------------------------------
SchedulerStep ==
  Look \/ RecordClockJump \/ SpendSlot \/ StartRotation \/ SkipRotation \/ RotationEnds

Next ==
  \/ TimePasses \/ WallForward \/ WallBack
  \/ Look \/ RecordClockJump \/ SpendSlot \/ StartRotation \/ SkipRotation \/ RotationEnds
  \/ ClientStarts \/ ClientEnds \/ Pause \/ Resume \/ Restart

Spec == Init /\ [][Next]_vars

\* The scheduler is a loop around a bounded sleep, and a rotation ends because
\* its worker has a deadline: each step of the thread is eventually taken. The
\* clocks, the clients and the supervisor owe nothing.
FairSpec == Spec /\ WF_vars(SchedulerStep)

-----------------------------------------------------------------------------
TypeOK ==
  /\ wall \in Nat /\ mono \in Nat
  /\ paused \in BOOLEAN
  /\ nextAt \in Int \cup {NoDeadline}
  /\ interval \in Intervals
  /\ running \in {"none", "client", "scheduler"}
  /\ pc \in {"asleep", "due", "jump", "claim", "rotation"}
  /\ seen \in Nat
  /\ decided \in Int
  /\ lastFire \in Int
  /\ backSteps \in Nat /\ restarts \in Nat
  /\ unseenStep \in {"no", "yes", "lost"}
  /\ ~paused => nextAt # NoDeadline

\* A slot is spent once. Whatever clients and restarts do, and however long the
\* machine slept, the deadline in force lies after the moment the last slot was
\* spent at, so no second rotation can be due for it: a restart in the middle of
\* a rotation does not repeat it, and missed slots collapse into one
\* (scheduler.rs `step`, schedule.rs `on_grid_after`). A wall clock set back is
\* the one thing that can bring an old second round again.
NoReplay == (backSteps = 0 /\ nextAt # NoDeadline) => lastFire < nextAt

\* The schedule never stalls for the length of a backward clock jump. Once the
\* scheduler has observed the clock, the deadline is at most one interval away,
\* plus the two intervals each step back may take without counting as a jump
\* (schedule.rs `tick`). A step back the daemon did not live to observe is
\* outside of it: nothing in current.json tells a far deadline from a sound one.
\* So is a step that undoes a forward drift of the same slice.
StallBounded ==
  (unseenStep = "no" /\ pc = "asleep" /\ ~paused)
    => nextAt - wall <= MaxInterval * (1 + 2 * backSteps)

\* `while value <= now { value += step }` from next leaves value: after n passes, each of
\* them entered with a value that had not passed now.
LoopLeaves(next, now, step, value) ==
  \E n \in 0 .. IF next <= now THEN now - next + 1 ELSE 0 :
    /\ value = next + n * step /\ value > now
    /\ \A m \in 0 .. n - 1 : next + m * step <= now

\* The deadline a slot leaves is the one the loop of schedule.rs leaves, on the deadline and
\* the clock of every moment, for every legal interval and for the zero that the floor guards
\* against: neither a point of the grid is skipped nor the grid left, however many slots were
\* missed or the interval was edited in between (schedule.rs `on_grid_after`).
GridMatchesLoop ==
  nextAt # NoDeadline =>
    \A i \in Intervals \cup {0} :
      LoopLeaves(nextAt, wall, StepOf(i), OnGridAfter(nextAt, wall, i))

\* A slot that is due is spent, unless a pause or a clock set back comes first:
\* a rotation in flight, a client's as well as its own, only delays it.
DueIsServed ==
  (~paused /\ nextAt # NoDeadline /\ wall >= nextAt)
    ~> (paused \/ wall < nextAt \/ pc = "claim")

\* What docs/architecture.md 5.5 rule 8 says of a pause: while it lasts the
\* schedule starts no rotation and leaves `next_at` alone.
PauseHolds ==
  [][(paused /\ paused') => /\ ~(running # "scheduler" /\ running' = "scheduler")
                           /\ nextAt' = nextAt]_vars
=============================================================================
