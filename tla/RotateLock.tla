----------------------------- MODULE RotateLock -----------------------------
(***************************************************************************)
(* state/locks/rotate.lock: how one file keeps the workers and the sweeps  *)
(* of the daemon apart, by flock where the filesystem has it and by the    *)
(* existence of the file where it has not                                  *)
(* (crates/whirl-worker/src/lock.rs, take_rotate_with of                   *)
(* crates/whirld/src/lock.rs, terminate and the reap of                    *)
(* crates/whirld/src/worker.rs, sweep_with of crates/whirld/src/state.rs). *)
(*                                                                         *)
(* One action per system call that another process can come between: the   *)
(* exclusive create, the probe of an open file, the removal, the create    *)
(* after it. A thread of the daemon spawns a worker, waits, reaps it and   *)
(* then takes the lock itself to sweep; a worker can also be run by hand.  *)
(***************************************************************************)
EXTENDS Naturals, FiniteSets

CONSTANTS Threads,    \* threads of the daemon that rotate and then sweep
          Workers,    \* worker processes: one slot per thread, and those run by hand
          ChildOf,    \* the worker slot of each thread
          Modes,      \* primitives the filesystem may offer: "flock", "excl_file"
          Pids,       \* process ids a worker may get
          DaemonPid,  \* the daemon's own
          NoPid,      \* the record of a file that names no process of this life
          PidReuse    \* whether the kernel hands out the id of a reaped process again

Takers == Threads \cup Workers
NoOne == "no one"

ASSUME RotateLockAssumption ==
  /\ NoOne \notin Takers
  /\ Threads \cap Workers = {}
  /\ ChildOf \in [Threads -> Workers]
  /\ \A t, u \in Threads : ChildOf[t] = ChildOf[u] => t = u
  /\ Modes \subseteq {"flock", "excl_file"}
  /\ DaemonPid \notin Pids /\ NoPid \notin Pids /\ DaemonPid # NoPid
  /\ {"absent", "empty"} \cap (Pids \cup {DaemonPid, NoPid}) = {}
  /\ PidReuse \in BOOLEAN

ByHand == {w \in Workers : \A t \in Threads : ChildOf[t] # w}
VARIABLES
  mode,      \* what flock answers on this filesystem
  file,      \* "absent", "empty" between the create and the record, or the record's pid
  flock,     \* the taker the kernel lock belongs to, or NoOne
  at,        \* where a taker is in its take
  pid,       \* the process id of each worker
  used,      \* the ids handed out so far
  orphaned   \* history: a lock file was left that no reaped worker is named by

vars == <<mode, file, flock, at, pid, used, orphaned>>

States == {"out", "take", "created", "exists", "reclaim", "recreate", "held", "done",
           "busy", "failed", "dead"}
Ended == {"done", "busy", "failed", "dead"}

\* What a taker writes into a file it created.
RecordOf(k) == IF k \in Workers THEN pid[k] ELSE DaemonPid

Init ==
  /\ mode \in Modes
  /\ file \in {"absent", NoPid} /\ flock = NoOne
  /\ at = [k \in Takers |-> "out"]
  /\ pid = [w \in Workers |-> NoPid]
  /\ used = {}
  /\ orphaned = (file = NoPid)

Move(k, from, to) == at[k] = from /\ at' = [at EXCEPT ![k] = to]

-----------------------------------------------------------------------------
(* Processes come and go. *)

\* The ids the kernel may not hand out: of the processes not reaped yet.
Unreaped == Workers \ {ChildOf[t] : t \in {u \in Threads : at[u] # "out"}}

Fresh == Pids \ IF PidReuse THEN {pid[w] : w \in Unreaped} ELSE used

GetsPid(w) ==
  \E p \in Fresh : pid' = [pid EXCEPT ![w] = p] /\ used' = used \cup {p}

\* `start_rotation` lets one thread through at a time: the others have no worker
\* or have reaped theirs, and may still be sweeping.
Spawn(t) ==
  /\ at[t] = "out" /\ Move(ChildOf[t], "out", "take")
  /\ \A u \in Threads : at[ChildOf[u]] # "out" => at[u] # "out"
  /\ GetsPid(ChildOf[t])
  /\ UNCHANGED <<mode, file, flock, orphaned>>

RunByHand(w) ==
  /\ w \in ByHand /\ Move(w, "out", "take") /\ GetsPid(w)
  /\ UNCHANGED <<mode, file, flock, orphaned>>

\* A crash, or the signals of `terminate`: the kernel takes its lock back, and
\* under the fallback the file stays.
Die(w) ==
  /\ w \in Workers /\ at[w] \in {"take", "created", "exists", "held"}
  /\ at' = [at EXCEPT ![w] = "dead"]
  /\ flock' = IF flock = w THEN NoOne ELSE flock
  /\ orphaned' = (orphaned \/ at[w] = "created" \/ (w \in ByHand /\ at[w] = "held"))
  /\ UNCHANGED <<mode, file, pid, used>>

\* The daemon has the exit status: the kernel may hand the pid out again, and
\* the sweep starts with that pid in hand.
Reap(t) ==
  /\ at[ChildOf[t]] \in Ended /\ Move(t, "out", "take")
  /\ UNCHANGED <<mode, file, flock, pid, used, orphaned>>

\* The sweep at startup, and the one after a worker that could not be spawned:
\* there is no exit status in hand.
SweepOnly(t) ==
  /\ at[ChildOf[t]] = "out" /\ Move(t, "out", "take")
  /\ UNCHANGED <<mode, file, flock, pid, used, orphaned>>

\* Mutant: the thread keeps the pid it reaped for its next sweep.
FinishKeepsPid(t) ==
  /\ t \in Threads /\ at[t] \in Ended
  /\ at' = [at EXCEPT ![t] = "out", ![ChildOf[t]] = "out"]
  /\ UNCHANGED <<mode, file, flock, pid, used, orphaned>>

\* The thread is through with its sweep, or with deferring it.
Finish(t) ==
  /\ t \in Threads /\ at[t] \in Ended
  /\ at' = [at EXCEPT ![t] = "out", ![ChildOf[t]] = "out"]
  /\ pid' = [pid EXCEPT ![ChildOf[t]] = NoPid]
  /\ UNCHANGED <<mode, file, flock, used, orphaned>>

-----------------------------------------------------------------------------
(* The take. *)

CreateExclusive(k) ==
  /\ \/ file = "absent" /\ Move(k, "take", "created") /\ file' = "empty"
     \/ file # "absent" /\ Move(k, "take", "exists") /\ UNCHANGED file
  /\ UNCHANGED <<mode, flock, pid, used, orphaned>>

\* The kernel answers the probe: free, held by another, or not supported.
Acquire(k) == flock = NoOne /\ flock' = k

\* The file this process created: under flock another one may have opened and
\* locked it in the meantime, which is an error of the take and not `busy`.
ProbeCreated(k) ==
  /\ \/ /\ mode = "flock" /\ Acquire(k) /\ Move(k, "created", "held")
        /\ file' = IF k \in Workers THEN RecordOf(k) ELSE file
     \/ /\ mode = "flock" /\ flock # NoOne /\ Move(k, "created", "failed")
        /\ UNCHANGED <<file, flock>>
     \/ /\ mode = "excl_file" /\ Move(k, "created", "held")
        /\ file' = RecordOf(k) /\ UNCHANGED flock
  /\ UNCHANGED <<mode, pid, used, orphaned>>

\* Mutant: the sweep takes any file that names a process for its own worker's.
NamesAnyWorker(k) == k \in Threads /\ file \in Pids

\* Mutant: the sweep is not told which worker was reaped.
NamesNobody(k) == FALSE

\* names_the_reaped_worker: the one file a sweep may take from its holder.
NamesReaped(k) == k \in Threads /\ file \in Pids /\ file = pid[ChildOf[k]]

\* The file another process created, opened and probed.
ProbeExisting(k) ==
  /\ \/ file = "absent" /\ Move(k, "exists", "failed") /\ UNCHANGED <<file, flock>>
     \/ /\ file # "absent" /\ mode = "flock" /\ Acquire(k) /\ Move(k, "exists", "held")
        /\ file' = IF k \in Workers THEN RecordOf(k) ELSE file
     \/ /\ file # "absent" /\ mode = "flock" /\ flock # NoOne /\ Move(k, "exists", "busy")
        /\ UNCHANGED <<file, flock>>
     \/ /\ file # "absent" /\ mode = "excl_file"
        /\ Move(k, "exists", IF NamesReaped(k) THEN "reclaim" ELSE "busy")
        /\ UNCHANGED <<file, flock>>
  /\ UNCHANGED <<mode, pid, used, orphaned>>

\* remove_reaped_file: by path, whatever the path names by now.
Reclaim(k) ==
  /\ Move(k, "reclaim", "recreate") /\ file' = "absent"
  /\ UNCHANGED <<mode, flock, pid, used, orphaned>>

Recreate(k) ==
  /\ \/ file = "absent" /\ Move(k, "recreate", "created") /\ file' = "empty"
     \/ file # "absent" /\ Move(k, "recreate", "busy") /\ UNCHANGED file
  /\ UNCHANGED <<mode, flock, pid, used, orphaned>>

\* Mutant: the guard closes its descriptor and leaves the fallback's file.
ReleaseKeepsFile(k) ==
  /\ Move(k, "held", "done")
  /\ flock' = IF flock = k THEN NoOne ELSE flock
  /\ UNCHANGED <<mode, file, pid, used, orphaned>>

\* The drop of the guard: the end of a worker's run, or of a sweep.
Release(k) ==
  /\ Move(k, "held", "done")
  /\ file' = IF mode = "excl_file" THEN "absent" ELSE file
  /\ flock' = IF flock = k THEN NoOne ELSE flock
  /\ UNCHANGED <<mode, pid, used, orphaned>>

TakeStep(k) ==
  \/ CreateExclusive(k) \/ ProbeCreated(k) \/ ProbeExisting(k)
  \/ Reclaim(k) \/ Recreate(k) \/ Release(k)

ThreadStep(t) == Reap(t) \/ TakeStep(t) \/ Finish(t)

Next ==
  \/ \E t \in Threads : Spawn(t) \/ Reap(t) \/ SweepOnly(t) \/ Finish(t)
  \/ \E w \in Workers : RunByHand(w) \/ Die(w)
  \/ \E k \in Takers : TakeStep(k)

Spec == Init /\ [][Next]_vars

\* The daemon's threads go on; its deadline ends a worker that does not end by
\* itself. Nothing is owed of a worker run by hand.
FairSpec ==
  /\ Spec
  /\ \A t \in Threads : WF_vars(ThreadStep(t)) /\ WF_vars(Die(ChildOf[t]))

-----------------------------------------------------------------------------
TypeOK ==
  /\ mode \in Modes
  /\ file \in {"absent", "empty", DaemonPid, NoPid} \cup Pids
  /\ flock \in Takers \cup {NoOne}
  /\ at \in [Takers -> States]
  /\ pid \in [Workers -> Pids \cup {NoPid}]
  /\ used \subseteq Pids
  /\ orphaned \in BOOLEAN
  /\ \A w \in Workers : at[w] = "out" <=> pid[w] = NoPid

\* A sweep never runs beside a download, and no two workers run: the take of both
\* sides, with all its windows between system calls, gives the lock to one process
\* at a time under either primitive, deaths and reclaimed files included.
MutualExclusion ==
  \A k, l \in Takers : at[k] = "held" /\ at[l] = "held" => k = l

\* Under the fallback a file that is there will go away: it belongs to a process
\* in the middle of its take or its run, or names a worker whose thread has yet to
\* sweep. The exceptions are the two a spec of refusal accepts: a worker run by
\* hand that was killed, and a file without a record.
FileHasAnOwner ==
  (mode = "excl_file" /\ file # "absent" /\ ~orphaned) =>
    \/ \E k \in Takers : at[k] = "created"
    \/ \E k \in Takers : at[k] = "held" /\ file = RecordOf(k)
    \/ \E t \in Threads : /\ file = pid[ChildOf[t]] /\ at[ChildOf[t]] = "dead"
                          /\ at[t] \in {"out", "take", "exists", "reclaim"}

\* A worker of the daemon killed while it held the lock does not keep the next
\* rotation out for ever: its file goes, whatever else runs in the meantime
\* (terminate reports the reap, sweep_with hands it to the take).
DeadHolderIsCleared ==
  (/\ mode = "excl_file"
   /\ \E t \in Threads : at[ChildOf[t]] = "dead" /\ file = pid[ChildOf[t]])
    ~> (file = "absent")

\* What docs/spec/state-and-cache.md 8.8 says of the one file the daemon removes:
\* the pid in it is proof enough, so the holder is gone and no question of a pid
\* used twice arises.
ReclaimedFileHasNoHolder ==
  [][\A t \in Threads : Reclaim(t) => \A k \in Takers : at[k] # "held"]_vars
=============================================================================
