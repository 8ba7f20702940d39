----------------------------- MODULE DaemonLock -----------------------------
(***************************************************************************)
(* daemon.lock and the control socket at startup (whirld/main.rs,          *)
(* whirld/lock.rs, socket::bind): several whirld processes are started on  *)
(* one state directory, and at most one of them may run.                   *)
(*                                                                         *)
(* One step is one system call. Under flock the file outlives its holders  *)
(* and the kernel's lock is what counts; on a filesystem without flock the *)
(* file's existence is the lock.                                           *)
(***************************************************************************)
EXTENDS Naturals, FiniteSets

CONSTANTS Daemons,     \* the processes ever started; each is its own pid
          NoDaemon

ASSUME DaemonAssumption == NoDaemon \notin Daemons

VARIABLES
  lockMode,      \* what the filesystem answers: "flock" or "excl_file"
  lockThere,     \* daemon.lock exists
  lockRecord,    \* the pid in it, NoDaemon when it names none
  kernelLock,    \* who holds the flock on it
  at,            \* where each process is
  named,         \* the holder a refused process named
  socketFile,    \* the process whose bind made the socket path, NoDaemon when there is none
  listening      \* the processes whose listener is open

lockVars == <<lockMode, lockThere, lockRecord, kernelLock, at, named, socketFile, listening>>

Places == {"new", "created", "found", "truncate", "record", "resolve", "probe", "unlink",
           "bind", "runs", "refused", "dead"}
\* The places of a process that has the lock.
Holding == {"truncate", "record", "resolve", "probe", "unlink", "bind", "runs"}

DaemonInit ==
  /\ lockMode \in {"flock", "excl_file"}
  /\ lockThere = FALSE /\ lockRecord = NoDaemon /\ kernelLock = NoDaemon
  /\ at = [d \in Daemons |-> "new"] /\ named = [d \in Daemons |-> NoDaemon]
  /\ socketFile = NoDaemon /\ listening = {}

Goto(d, place) == at' = [at EXCEPT ![d] = place]
Unlocked(d) == kernelLock' = IF kernelLock = d THEN NoDaemon ELSE kernelLock

-----------------------------------------------------------------------------
\* take_with

OpenExclusive(d) ==
  /\ at[d] = "new" /\ ~lockThere
  /\ lockThere' = TRUE /\ lockRecord' = NoDaemon /\ Goto(d, "created")
  /\ UNCHANGED <<lockMode, kernelLock, named, socketFile, listening>>

OpenExisting(d) ==
  /\ at[d] = "new" /\ lockThere /\ Goto(d, "found")
  /\ UNCHANGED <<lockMode, lockThere, lockRecord, kernelLock, named, socketFile, listening>>

\* Mutant: the fallback takes the lock on a file it has found, as flock may.
AcquireFound(d) ==
  /\ at[d] \in {"created", "found"} /\ kernelLock = NoDaemon
  /\ kernelLock' = IF lockMode = "flock" THEN d ELSE kernelLock
  /\ Goto(d, "truncate")
  /\ UNCHANGED <<lockMode, lockThere, lockRecord, named, socketFile, listening>>

\* flock_attempt and select. A file this process created exclusively may already be
\* locked by one that found it in between.
Acquire(d) ==
  /\ \/ at[d] \in {"created", "found"} /\ lockMode = "flock" /\ kernelLock = NoDaemon
        /\ kernelLock' = d
     \/ at[d] = "created" /\ lockMode = "excl_file" /\ UNCHANGED kernelLock
  /\ Goto(d, "truncate")
  /\ UNCHANGED <<lockMode, lockThere, lockRecord, named, socketFile, listening>>

\* held_message: the record as it stands, whoever wrote it.
RefuseHeld(d) ==
  /\ \/ at[d] \in {"created", "found"} /\ lockMode = "flock" /\ kernelLock # NoDaemon
     \/ at[d] = "found" /\ lockMode = "excl_file"
  /\ named' = [named EXCEPT ![d] = lockRecord] /\ Goto(d, "refused")
  /\ UNCHANGED <<lockMode, lockThere, lockRecord, kernelLock, socketFile, listening>>

\* write_record: set_len(0), then the text. An error closes the file and leaves it.
Truncate(d) ==
  /\ at[d] = "truncate" /\ lockRecord' = NoDaemon /\ Goto(d, "record")
  /\ UNCHANGED <<lockMode, lockThere, kernelLock, named, socketFile, listening>>

WriteRecord(d) ==
  /\ at[d] = "record" /\ lockRecord' = d /\ Goto(d, "resolve")
  /\ UNCHANGED <<lockMode, lockThere, kernelLock, named, socketFile, listening>>

RecordFails(d) ==
  /\ at[d] \in {"truncate", "record"} /\ Goto(d, "dead") /\ Unlocked(d)
  /\ UNCHANGED <<lockMode, lockThere, lockRecord, named, socketFile, listening>>

-----------------------------------------------------------------------------
\* run, once it has the lock: resolve and load, then socket::bind.

Resolve(d) ==
  /\ at[d] = "resolve" /\ Goto(d, "probe")
  /\ UNCHANGED <<lockMode, lockThere, lockRecord, kernelLock, named, socketFile, listening>>

\* The connect probe: a path with a live listener refuses, a dead one is unlinked first.
ProbeSocket(d) ==
  /\ at[d] = "probe"
  /\ socketFile = NoDaemon \/ socketFile \notin listening
  /\ Goto(d, IF socketFile = NoDaemon THEN "bind" ELSE "unlink")
  /\ UNCHANGED <<lockMode, lockThere, lockRecord, kernelLock, named, socketFile, listening>>

UnlinkSocket(d) ==
  /\ at[d] = "unlink" /\ socketFile' = NoDaemon /\ Goto(d, "bind")
  /\ UNCHANGED <<lockMode, lockThere, lockRecord, kernelLock, named, listening>>

BindSocket(d) ==
  /\ at[d] = "bind" /\ socketFile = NoDaemon
  /\ socketFile' = d /\ listening' = listening \cup {d} /\ Goto(d, "runs")
  /\ UNCHANGED <<lockMode, lockThere, lockRecord, kernelLock, named>>

\* The configuration is refused, the socket is live or cannot be bound: DaemonLock is
\* dropped, which removes the fallback's file.
StartupFails(d) ==
  /\ at[d] \in {"resolve", "probe", "unlink", "bind"} /\ Goto(d, "dead") /\ Unlocked(d)
  /\ lockThere' = (lockThere /\ lockMode = "flock")
  /\ UNCHANGED <<lockMode, lockRecord, named, socketFile, listening>>

\* A signal, which is also how the supervisor stops it: nothing is dropped, the kernel
\* closes what was open, and the files stay.
KillDaemon(d) ==
  /\ at[d] \notin {"new", "refused", "dead"} /\ Goto(d, "dead") /\ Unlocked(d)
  /\ listening' = listening \ {d}
  /\ UNCHANGED <<lockMode, lockThere, lockRecord, named, socketFile>>

-----------------------------------------------------------------------------
DaemonStep(d) ==
  \/ OpenExclusive(d) \/ OpenExisting(d) \/ Acquire(d) \/ RefuseHeld(d)
  \/ Truncate(d) \/ WriteRecord(d) \/ RecordFails(d)
  \/ Resolve(d) \/ ProbeSocket(d) \/ UnlinkSocket(d) \/ BindSocket(d) \/ StartupFails(d)
  \/ KillDaemon(d)

DaemonNext == \E d \in Daemons : DaemonStep(d)

DaemonSpec == DaemonInit /\ [][DaemonNext]_lockVars

-----------------------------------------------------------------------------
DaemonTypeOK ==
  /\ lockMode \in {"flock", "excl_file"} /\ lockThere \in BOOLEAN
  /\ lockRecord \in Daemons \cup {NoDaemon} /\ kernelLock \in Daemons \cup {NoDaemon}
  /\ at \in [Daemons -> Places] /\ named \in [Daemons -> Daemons \cup {NoDaemon}]
  /\ socketFile \in Daemons \cup {NoDaemon} /\ listening \subseteq Daemons

\* At most one daemon runs on a state directory, under either primitive, whichever of
\* them were killed at whatever point of their startup; and the control socket is that
\* daemon's: none unlinks or replaces the socket of another that still runs.
OneDaemonServes ==
  /\ \A d, e \in Daemons : at[d] \in Holding /\ at[e] \in Holding => d = e
  /\ \A d \in Daemons : at[d] = "runs" => socketFile = d /\ listening = {d}

\* A refused start names the process that holds the lock, or that held it before and
\* whose record the new holder has not yet replaced; it never names itself.
RefusalNamesAHolder ==
  \A d \in Daemons : named[d] # NoDaemon =>
    named[d] # d /\ at[named[d]] \in Holding \cup {"dead"}
=============================================================================
