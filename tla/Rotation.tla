------------------------------ MODULE Rotation ------------------------------
(***************************************************************************)
(* The rotations of one life of whirld: the connection threads of its      *)
(* clients and the scheduler thread, the workers they spawn, and           *)
(* rotate.lock between the workers and the daemon's sweeps.                *)
(*                                                                         *)
(* Every access to `State` is under one mutex, so each action that touches *)
(* it is one critical section of crates/whirld/src/state.rs; everything    *)
(* else a thread does (write to its client, spawn, wait, sweep) is an      *)
(* action of its own, in the order of `run_rotation` and `rotation`.       *)
(* `written_by`, timestamps, the event stream and the contents of the      *)
(* cache are left out; the deadline is the business of Scheduler.          *)
(***************************************************************************)
EXTENDS Naturals, Sequences, FiniteSets

CONSTANTS Clients,         \* connections, one thread each
          Scheduler,       \* the scheduler thread
          Images,          \* the digests a wallpaper may have
          NoImage,         \* no image: no anchor, or a rotation that draws its own
          HistoryEntries,  \* state.history_entries
          MaxSlots         \* bound: the slots claimed in one life of the daemon

ASSUME RotationAssumption ==
  /\ Scheduler \notin Clients
  /\ NoImage \notin Images
  /\ HistoryEntries \in Nat \ {0}
  /\ MaxSlots \in Nat

Threads == Clients \cup {Scheduler}
NoRun == 0

VARIABLES
  \* State, under its mutex
  slot, running, rotationCount, lastError, current, history,
  \* per thread: where it is, the slot it claimed, what it was asked for
  pc, run, want,
  \* per thread: the worker it spawned, and the image that worker set
  worker, picked,
  \* the wallpaper the platform displays
  shown,
  \* the setter tools that outlived their worker: pairs of its slot and its image
  orphans,
  \* history: the last to change the screen was such a tool
  stray

state == <<slot, running, rotationCount, lastError, current, history>>
screen == <<shown, orphans, stray>>
vars == <<state, pc, run, want, worker, picked, screen>>

\* Every thread's request: the verb's `via` and, for a `set`, the target.
Anything == [via |-> "source", target |-> NoImage]
Request == [via : {"source", "prev", "manual"}, target : Images \cup {NoImage}]

\* A thread between its claim of `running` and the record of its outcome.
InRun(t) == pc[t] \in {"queued", "reload", "spawn", "wait", "kill"}

\* rotate.lock is the kernel's: it is held while its holder lives. RotateLock
\* models how the file makes that so.
LockHeld ==
  \E t \in Threads : worker[t] \in {"holding", "setting", "set"} \/ pc[t] = "sweeping"

Init ==
  /\ slot = 1 /\ running = NoRun /\ rotationCount = 0 /\ lastError = "none"
  /\ current = NoImage /\ history = <<>>
  /\ pc = [t \in Threads |-> "idle"]
  /\ run = [t \in Threads |-> NoRun]
  /\ want = [t \in Threads |-> Anything]
  /\ worker = [t \in Threads |-> "none"]
  /\ picked = [t \in Threads |-> NoImage]
  /\ shown = NoImage /\ orphans = {} /\ stray = FALSE

-----------------------------------------------------------------------------
(* Requests. *)

\* Mutant: the walk starts at the anchor but stops at the entry right behind it,
\* the same image set twice in a row included.
PrevEntryBehind(h, anchor, k) ==
  \/ k = 1 /\ \A j \in DOMAIN h : h[j] # anchor
  \/ \E s \in 1..(k - 1) : s = k - 1 /\ h[s] = anchor

\* The walk of `prev`: entry k is the first with another digest, older than the
\* newest entry of the anchor or, if the ring has none, from the newest of all.
PrevEntry(h, anchor, k) ==
  /\ h[k] # anchor
  /\ \/ k = 1 /\ \A j \in DOMAIN h : h[j] # anchor
     \/ \E s \in 1..(k - 1) : /\ \A j \in 1..(s - 1) : h[j] # anchor
                             /\ \A j \in s..(k - 1) : h[j] = anchor

\* The bound on slots, with one put aside for each thread about to claim.
SlotsLeft == slot + Cardinality({t \in Threads : pc[t] = "claim"}) <= MaxSlots

Ask(t, request) ==
  /\ pc[t] = "idle" /\ SlotsLeft
  /\ pc' = [pc EXCEPT ![t] = "claim"]
  /\ want' = [want EXCEPT ![t] = request]
  /\ UNCHANGED <<state, run, worker, picked, screen>>

\* A due slot, its deadline already advanced by `spend_slot`.
SlotDue == Ask(Scheduler, Anything)

AskNext(c) == Ask(c, Anything)

AskSet(c) == \E i \in Images : Ask(c, [via |-> "manual", target |-> i])

\* `prev` reads the ring and the anchor, then gives the state lock back.
AskPrev(c) ==
  \E k \in DOMAIN history :
    PrevEntry(history, current, k) /\ Ask(c, [via |-> "prev", target |-> history[k]])

\* `config check` takes a slot for its worker, which takes no lock, sets
\* nothing and reports to this client alone.
ConfigCheck(c) ==
  /\ pc[c] = "idle" /\ SlotsLeft
  /\ slot' = slot + 1
  /\ UNCHANGED <<running, rotationCount, lastError, current, history,
                 pc, run, want, worker, picked, screen>>

\* ping, status, history, favorites and a `prev` with no earlier entry: a
\* request that leaves all of this alone.
ReadOnly(c) == pc[c] = "idle" /\ UNCHANGED vars

-----------------------------------------------------------------------------
(* start_rotation, and the interim line to the client. *)

\* Mutant: the claim forgets to look at the rotation in flight.
StartUnguarded(t) ==
  /\ pc[t] = "claim"
  /\ running' = slot /\ slot' = slot + 1
  /\ run' = [run EXCEPT ![t] = slot]
  /\ pc' = [pc EXCEPT ![t] = IF t = Scheduler THEN "reload" ELSE "queued"]
  /\ UNCHANGED <<rotationCount, lastError, current, history, want, worker, picked, screen>>

Start(t) ==
  /\ pc[t] = "claim" /\ running = NoRun
  /\ running' = slot /\ slot' = slot + 1
  /\ run' = [run EXCEPT ![t] = slot]
  /\ pc' = [pc EXCEPT ![t] = IF t = Scheduler THEN "reload" ELSE "queued"]
  /\ UNCHANGED <<rotationCount, lastError, current, history, want, worker, picked, screen>>

\* `ERR busy` for a client, a skipped slot for the scheduler: never queued.
Refuse(t) ==
  /\ pc[t] = "claim" /\ running # NoRun
  /\ pc' = [pc EXCEPT ![t] = "idle"]
  /\ want' = [want EXCEPT ![t] = Anything]
  /\ UNCHANGED <<state, run, worker, picked, screen>>

WriteQueued(t) ==
  /\ pc[t] = "queued"
  /\ pc' = [pc EXCEPT ![t] = "reload"]
  /\ UNCHANGED <<state, run, want, worker, picked, screen>>

\* The client is gone: the write fails, `?` returns from run_rotation, and the
\* claim made a moment ago stays.
ClientGone(t) ==
  /\ pc[t] = "queued"
  /\ pc' = [pc EXCEPT ![t] = "idle"]
  /\ run' = [run EXCEPT ![t] = NoRun]
  /\ want' = [want EXCEPT ![t] = Anything]
  /\ UNCHANGED <<state, worker, picked, screen>>

-----------------------------------------------------------------------------
(* Daemon::rotation: re-read the configuration, spawn, wait. *)

Reconfigure(t) ==
  /\ pc[t] = "reload"
  /\ lastError' \in {lastError, "bad_config"}
  /\ pc' = [pc EXCEPT ![t] = "spawn"]
  /\ UNCHANGED <<slot, running, rotationCount, current, history, run, want, worker,
                 picked, screen>>

\* A worker that cannot be spawned is a failure like one that exits non-zero.
Spawn(t) ==
  /\ pc[t] = "spawn"
  /\ \E w \in {"started", "failed"} : worker' = [worker EXCEPT ![t] = w]
  /\ pc' = [pc EXCEPT ![t] = "wait"]
  /\ UNCHANGED <<state, run, want, picked, screen>>

\* The deadline passes before an exit was seen; until the signal arrives the
\* worker goes on.
Deadline(t) ==
  /\ pc[t] = "wait" /\ worker[t] \in {"started", "holding", "setting", "set"}
  /\ pc' = [pc EXCEPT ![t] = "kill"]
  /\ UNCHANGED <<state, run, want, worker, picked, screen>>

\* The tool that sets the wallpaper is a child of the worker (on Linux; on macOS it
\* is a call of the worker's own): neither the worker's death nor the signals of
\* the daemon reach it.
LeaveTool(t) ==
  \/ UNCHANGED orphans
  \/ worker[t] = "setting" /\ orphans' = orphans \cup {<<run[t], picked[t]>>}

\* Mutant: the signal goes out and the loop goes back to waiting, without the
\* second look that escalates and reaps.
TerminateUnreaped(t) ==
  /\ pc[t] = "kill"
  /\ pc' = [pc EXCEPT ![t] = "wait"]
  /\ UNCHANGED <<state, run, want, worker, picked, screen>>

\* terminate(): whatever the worker did meanwhile, the outcome is a timeout.
Terminate(t) ==
  /\ pc[t] = "kill"
  /\ worker' = [worker EXCEPT ![t] = "killed"]
  /\ pc' = [pc EXCEPT ![t] = "wait"]
  /\ LeaveTool(t)
  /\ UNCHANGED <<state, run, want, picked, shown, stray>>

-----------------------------------------------------------------------------
(* The worker of thread t: another process. *)

WorkerStep(t, from, to) ==
  /\ worker[t] = from
  /\ worker' = [worker EXCEPT ![t] = to]
  /\ UNCHANGED <<state, pc, run, want>>

WorkerTakesLock(t) == ~LockHeld /\ WorkerStep(t, "started", "holding") /\ UNCHANGED <<picked, screen>>

WorkerBusy(t) == LockHeld /\ WorkerStep(t, "started", "busy") /\ UNCHANGED <<picked, screen>>

\* The image is at hand, drawn by a rotation or given to a `set`, and the setter
\* has been called.
WorkerAims(t) ==
  /\ WorkerStep(t, "holding", "setting")
  /\ \E i \in IF want[t].target = NoImage THEN Images ELSE {want[t].target} :
       picked' = [picked EXCEPT ![t] = i]
  /\ UNCHANGED screen

WorkerSets(t) ==
  /\ WorkerStep(t, "setting", "set")
  /\ shown' = picked[t] /\ stray' = FALSE
  /\ UNCHANGED <<picked, orphans>>

\* No configuration, no candidate, no bytes, a setter that refused, a crash.
WorkerFails(t) ==
  \E from \in {"started", "holding", "setting"} :
    WorkerStep(t, from, "failed") /\ LeaveTool(t) /\ UNCHANGED <<picked, shown, stray>>

\* The `set:` line is out and the prefetch is over.
WorkerExits(t) == WorkerStep(t, "set", "ok") /\ UNCHANGED <<picked, screen>>

\* Killed from outside, or out of memory, between the setter and the exit: the
\* daemon reads no `set:` line of a worker that did not exit 0.
WorkerDies(t) == WorkerStep(t, "set", "failed") /\ UNCHANGED <<picked, screen>>

\* A tool without a worker gets to the platform at last.
OrphanSets ==
  /\ \E o \in orphans : shown' = o[2] /\ orphans' = orphans \ {o}
  /\ stray' = TRUE
  /\ UNCHANGED <<state, pc, run, want, worker, picked>>

-----------------------------------------------------------------------------
(* The outcome, and the sweep that follows it. *)

\* Mutant: the ring forgets its bound.
PushUnbounded(h, i) == <<i>> \o h

\* HistoryRing::push: one entry in front, the oldest out at the bound.
Push(h, i) ==
  SubSeq(<<i>> \o h, 1, IF Len(h) < HistoryEntries THEN Len(h) + 1 ELSE HistoryEntries)

Forget(t) ==
  /\ run' = [run EXCEPT ![t] = NoRun]
  /\ want' = [want EXCEPT ![t] = Anything]
  /\ worker' = [worker EXCEPT ![t] = "none"]
  /\ picked' = [picked EXCEPT ![t] = NoImage]

RecordSuccess(t) ==
  /\ pc[t] = "wait" /\ worker[t] = "ok"
  /\ running' = NoRun /\ rotationCount' = rotationCount + 1 /\ lastError' = "none"
  /\ current' = picked[t] /\ history' = Push(history, picked[t])
  /\ pc' = [pc EXCEPT ![t] = "finish"]
  /\ Forget(t)
  /\ UNCHANGED <<slot, screen>>

\* Mutant: the failure of a rotation leaves the last error as it was.
RecordFailureSilently(t) ==
  /\ pc[t] = "wait" /\ worker[t] \in {"failed", "busy", "killed"}
  /\ running' = NoRun
  /\ pc' = [pc EXCEPT ![t] = "finish"]
  /\ Forget(t)
  /\ UNCHANGED <<slot, rotationCount, lastError, current, history, screen>>

RecordFailure(t) ==
  /\ pc[t] = "wait" /\ worker[t] \in {"failed", "busy", "killed"}
  /\ running' = NoRun /\ lastError' = worker[t]
  /\ pc' = [pc EXCEPT ![t] = "finish"]
  /\ Forget(t)
  /\ UNCHANGED <<slot, rotationCount, current, history, screen>>

\* finish_rotation runs with `running` already clear, so the next rotation may
\* be under way by now; its worker's lock defers this sweep.
TakeSweep(t) ==
  /\ pc[t] = "finish" /\ ~LockHeld
  /\ pc' = [pc EXCEPT ![t] = "sweeping"]
  /\ UNCHANGED <<state, run, want, worker, picked, screen>>

DeferSweep(t) ==
  /\ pc[t] = "finish" /\ LockHeld
  /\ pc' = [pc EXCEPT ![t] = "idle"]
  /\ UNCHANGED <<state, run, want, worker, picked, screen>>

EndSweep(t) ==
  /\ pc[t] = "sweeping"
  /\ pc' = [pc EXCEPT ![t] = "idle"]
  /\ UNCHANGED <<state, run, want, worker, picked, screen>>

-----------------------------------------------------------------------------
ClientRequest(c) == AskNext(c) \/ AskSet(c) \/ AskPrev(c) \/ ConfigCheck(c) \/ ReadOnly(c)

\* What a thread of the daemon does of its own accord once it has a request.
ThreadStep(t) ==
  \/ Start(t) \/ Refuse(t) \/ WriteQueued(t) \/ ClientGone(t)
  \/ Reconfigure(t) \/ Spawn(t) \/ Deadline(t) \/ Terminate(t)
  \/ RecordSuccess(t) \/ RecordFailure(t)
  \/ TakeSweep(t) \/ DeferSweep(t) \/ EndSweep(t)

ProcessStep(t) ==
  \/ WorkerTakesLock(t) \/ WorkerBusy(t) \/ WorkerFails(t)
  \/ WorkerAims(t) \/ WorkerSets(t) \/ WorkerExits(t) \/ WorkerDies(t)

Next ==
  \/ SlotDue
  \/ \E c \in Clients : ClientRequest(c)
  \/ \E t \in Threads : ThreadStep(t)
  \/ \E t \in Threads : ProcessStep(t)
  \/ OrphanSets

Spec == Init /\ [][Next]_vars

\* A thread of the daemon keeps running, and the deadline of a worker arrives.
\* A worker owes nothing (it may hang), and neither do clients or the schedule.
FairSpec == Spec /\ \A t \in Threads : WF_vars(ThreadStep(t))

-----------------------------------------------------------------------------
TypeOK ==
  /\ slot \in Nat \ {0} /\ running \in Nat /\ rotationCount \in Nat
  /\ lastError \in {"none", "bad_config", "failed", "busy", "killed"}
  /\ current \in Images \cup {NoImage}
  /\ history \in Seq(Images) /\ Len(history) <= HistoryEntries
  /\ pc \in [Threads -> {"idle", "claim", "queued", "reload", "spawn", "wait", "kill",
                         "finish", "sweeping"}]
  /\ run \in [Threads -> Nat]
  /\ want \in [Threads -> Request]
  /\ worker \in [Threads -> {"none", "started", "holding", "setting", "set", "ok", "failed",
                             "busy", "killed"}]
  /\ picked \in [Threads -> Images \cup {NoImage}]
  /\ shown \in Images \cup {NoImage}
  /\ orphans \subseteq Nat \X Images
  /\ stray \in BOOLEAN

\* One rotation at a time: two threads are never both between their claim of
\* `running` and the record of its outcome, the one that is works under the very
\* slot `running` names, and a worker lives only as long as its thread is inside,
\* so two workers never run together. `start_rotation` is what keeps the scheduler
\* and the clients apart, with the state lock released all through the run.
SingleFlight ==
  /\ \A t \in Threads : InRun(t) => run[t] = running /\ running # NoRun
  /\ \A t, u \in Threads : InRun(t) /\ InRun(u) => t = u
  /\ \A t \in Threads : worker[t] # "none" => pc[t] \in {"wait", "kill"}

\* A status without an error is the truth about the screen: with no worker at
\* work and `last_error: none`, what the platform displays is the anchor. Each
\* way of losing track of it (a worker killed or dead past its setter, after any
\* number of retries) leaves an error behind that only a success removes
\* (record_success, record_failure, reconfigure). A tool that outlived its worker
\* and landed after that success is the one exception.
CleanStatusMeansAnchorShown ==
  (lastError = "none" /\ ~stray /\ \A t \in Threads : pc[t] \notin {"wait", "kill"})
    => shown = current

\* The anchor and the ring move together: the anchor is the newest entry of the
\* history, and there is an anchor exactly when there is a history. `prev` walks
\* the ring from the anchor and relies on it (record_success, HistoryRing).
AnchorIsNewest ==
  /\ history = <<>> <=> current = NoImage
  /\ history # <<>> => Head(history) = current

\* `prev` sets what the iterator of the code finds (HistoryRing::prev_from: `position` or 0,
\* `skip`, `find`): the first entry with another digest, from the newest entry of the anchor
\* on or, without one, from the newest of all. It is so for the history of every reachable
\* state, the same image twice in a row included, and for every anchor, also one the ring has
\* lost or never had.
Least(s) == CHOOSE k \in s : \A j \in s : k <= j
PrevIsTheWalk ==
  \A anchor \in Images \cup {NoImage} :
    LET at == {k \in DOMAIN history : history[k] = anchor}
        start == IF at = {} THEN 1 ELSE Least(at)
        others == {k \in start .. Len(history) : history[k] # anchor}
    IN  \A k \in DOMAIN history :
          PrevEntry(history, anchor, k) <=> others # {} /\ k = Least(others)

RS == INSTANCE RotationService WITH sets <- rotationCount, anchor <- current, ring <- history

\* Threads, workers, locks and sweeps keep the promise of RotationService: one
\* rotation at a time, one outcome each, history and anchor moved by a success
\* and by nothing else.
Implements == RS!Spec

\* A rotation whose client was told `queued` ends whatever its worker does,
\* hanging included, and its thread comes back for the next request: the deadline
\* ends the wait and a sweep that finds the lock taken does not wait for it
\* (worker.rs run_reporting_reaped, state.rs rotation and sweep_with).
QueuedRunEnds ==
  \A t \in Threads : pc[t] \in {"reload", "spawn", "wait", "kill"} ~> pc[t] = "idle"

\* What the comments of `rotation` and `start_rotation` say of `running`: each
\* claim is given back by the record of an outcome.
EveryRunEnds ==
  \A n \in 1..MaxSlots : running = n ~> running # n

\* What docs/architecture.md 1.7 says of a worker that dies: none of its endings
\* leaves the wallpaper in a state whirl does not know about. The anchor is the
\* only knowledge of the wallpaper the daemon keeps.
AnchorIsDisplayed ==
  (\A t \in Threads : pc[t] \notin {"wait", "kill"}) => shown = current
=============================================================================
