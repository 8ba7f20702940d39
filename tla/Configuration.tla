---------------------------- MODULE Configuration ----------------------------
(***************************************************************************)
(* Who reads the configuration when. The file is edited at any time; the   *)
(* daemon reads it when it starts (whirld/plan.rs) and again before every  *)
(* rotation (whirld/state.rs, reconfigure); the worker that rotation       *)
(* spawns reads it a third time (whirl-worker/main.rs). What the daemon    *)
(* resolved at start (directories, backend) it hands to the worker in the  *)
(* environment (whirld/worker.rs).                                         *)
(***************************************************************************)
EXTENDS ConfigSchema

CONSTANTS Documents,     \* the files an editor may leave, a function from names to documents
          MaxEdits,      \* how often the file is edited
          MaxLives       \* how often the daemon is started

\* A list of a document is a list.
ASSUME DocumentAssumption ==
  \A name \in DOMAIN Documents :
    LET doc == Documents[name]
    IN  "sources" \in DOMAIN doc /\ doc["sources"].type = "objects"
          => doc["sources"].of \in Seq(Range(doc["sources"].of))

VARIABLES file,          \* the name of the file, or "missing", "torn" (being written)
          edits, lives,
          daemon,        \* the daemon: what it has in force, and what it resolved at start
          rotating,      \* where the rotation in progress is
          deadline,      \* the deadline the daemon holds the worker to
          worker         \* what the worker has read and resolved

confVars == <<file, edits, lives, daemon, rotating, deadline, worker>>

\* The variables that are set, a function from their names: one that is not set, or a path
\* that is set to nothing, is not in its domain.
Set(name, words) == {<< >>} \cup {name :> w : w \in words}
Backends == {"native", "noop"}
DaemonDown == [up |-> FALSE]
NoWorker == [loaded |-> FALSE]

\* What reading a file and parsing it gives.
Parsed == [name \in DOMAIN Documents |-> ParseDocument(Documents[name])]
ReadConfig(name) == IF name \in DOMAIN Documents THEN Parsed[name] ELSE [bad |-> "file"]

ConfInit == /\ file = "missing" /\ edits = 0 /\ lives = 0
            /\ daemon = DaemonDown /\ rotating = "no" /\ deadline = 0 /\ worker = NoWorker

\* An editor replaces the file, or is caught half way, or removes it.
EditFile(name) == /\ edits < MaxEdits
                  /\ file' = name
                  /\ edits' = edits + 1
                  /\ UNCHANGED <<lives, daemon, rotating, deadline, worker>>

\* Precedence: the environment, then the file, then the platform.
CacheDirOf(env, config) ==
  IF "dir" \in DOMAIN env THEN env["dir"]
  ELSE IF config["cache.root"] # Null THEN config["cache.root"].word ELSE "platform"

BackendOf(env, config) == IF "backend" \in DOMAIN env THEN env["backend"] ELSE config["backend"].word

\* Effective::resolve, after load_config has written the default file where there was none.
\* A flag comes before the variable it stands for.
StartDaemon(flags, env) ==
  LET now == IF file = "missing" THEN "default" ELSE file
      parsed == ReadConfig(now)
      given == flags @@ env
  IN  /\ ~daemon.up
      /\ lives < MaxLives
      /\ lives' = lives + 1
      /\ file' = now
      /\ daemon' = IF parsed.bad # "none" \/ BackendOf(given, parsed.config) \notin Backends THEN DaemonDown
                   ELSE [up |-> TRUE, config |-> parsed.config, read |-> now,
                         dir |-> CacheDirOf(given, parsed.config),
                         backend |-> BackendOf(given, parsed.config), badConfig |-> FALSE]
      /\ UNCHANGED <<edits, rotating, deadline, worker>>

\* The daemon ends; a worker it leaves behind is out of this module's sight.
StopDaemon == /\ daemon.up
              /\ daemon' = DaemonDown /\ rotating' = "no" /\ worker' = NoWorker
              /\ UNCHANGED <<file, edits, lives, deadline>>

-----------------------------------------------------------------------------
(* A rotation: Daemon::rotation, then the worker's main. *)

\* Daemon::reconfigure: a document that does not parse adopts nothing.
Reconfigure ==
  /\ daemon.up /\ rotating = "no"
  /\ rotating' = "reread"
  /\ daemon' = IF ReadConfig(file).bad = "none" THEN [daemon EXCEPT !.config = ReadConfig(file).config, !.read = file]
               ELSE [daemon EXCEPT !.badConfig = TRUE]
  /\ UNCHANGED <<file, edits, lives, deadline, worker>>

\* The deadline is read after that, from what is in force.
ReadDeadline ==
  /\ rotating = "reread"
  /\ rotating' = "timed"
  /\ deadline' = daemon.config["schedule.worker_deadline_seconds"].n
  /\ UNCHANGED <<file, edits, lives, daemon, worker>>

\* Mutant: the cache directory is left to the worker to resolve.
SpawnBare ==
  /\ rotating = "timed"
  /\ rotating' = "spawned"
  /\ worker' = [loaded |-> FALSE, env |-> [backend |-> daemon.backend]]
  /\ UNCHANGED <<file, edits, lives, daemon, deadline>>

\* run_reporting_reaped: the environment is cleared, and the daemon's own answers put in it.
SpawnWith ==
  /\ rotating = "timed"
  /\ rotating' = "spawned"
  /\ worker' = [loaded |-> FALSE, env |-> [dir |-> daemon.dir, backend |-> daemon.backend]]
  /\ UNCHANGED <<file, edits, lives, daemon, deadline>>

\* The worker's load_config; a document it cannot read ends it with bad_config.
WorkerLoads ==
  /\ rotating = "spawned"
  /\ IF ReadConfig(file).bad = "none"
     THEN /\ rotating' = "loaded"
          /\ worker' = [loaded |-> TRUE, config |-> ReadConfig(file).config, read |-> file,
                        dir |-> CacheDirOf(worker.env, ReadConfig(file).config),
                        backend |-> BackendOf(worker.env, ReadConfig(file).config)]
          /\ UNCHANGED daemon
     ELSE /\ rotating' = "no"
          /\ worker' = NoWorker
          /\ daemon' = [daemon EXCEPT !.badConfig = TRUE]
  /\ UNCHANGED <<file, edits, lives, deadline>>

\* The worker ends; a success clears last_error, another failure puts its own code there.
WorkerEnds ==
  /\ rotating = "loaded"
  /\ rotating' = "no" /\ worker' = NoWorker
  /\ daemon' = [daemon EXCEPT !.badConfig = FALSE]
  /\ UNCHANGED <<file, edits, lives, deadline>>

ConfNext ==
  \/ \E name \in DOMAIN Documents \cup {"missing", "torn"} : EditFile(name)
  \/ \E flags \in Set("backend", Backends), backend \in Set("backend", Backends \cup {"other"}),
        dir \in Set("dir", {"env"}) : StartDaemon(flags, backend @@ dir)
  \/ StopDaemon \/ Reconfigure \/ ReadDeadline \/ SpawnWith \/ WorkerLoads \/ WorkerEnds

ConfSpec == ConfInit /\ [][ConfNext]_confVars

-----------------------------------------------------------------------------
\* The spellings of a key, the one that counts first.
Spellings(k) == CASE k = "cache.max_files" -> <<"cache.max_files", "cache.keep", "keep">>
                  [] k = "cache.root" -> <<"cache.root", "cache.cache_dir">>
                  [] OTHER -> <<k>>

\* What a document says of a key: its first spelling that is there, else the default.
Says(doc, k) ==
  LET there == {i \in DOMAIN Spellings(k) : Spellings(k)[i] \in DOMAIN doc}
  IN  IF there = {} THEN Defaults[k] ELSE doc[Spellings(k)[Min(there)]]

\* A count beyond the integers of the code is the largest of them; a ratio is a float.
Meant(doc, config) ==
  /\ \A k \in DOMAIN Defaults :
       LET v == Says(doc, k)
           count == v.type = "number" /\ k \notin {"filters.ratio_tolerance", "filters.target_ratio"}
       IN  config[k] = IF count THEN Num(Saturated(v.n)) ELSE v
  /\ \A l \in Range(Limits(config)) : l[2]
  /\ IsInjective([i \in DOMAIN SourcesOf(doc) |-> SourcesOf(doc)[i]["id"]])

\* What the daemon and the worker have in force is the whole of one document that was in
\* the file, every key with its nearest spelling's value and every limit kept, whatever was
\* edited or refused since (config.rs, parse_root; state.rs, reconfigure).
OneConfiguration ==
  /\ daemon.up => Meant(Documents[daemon.read], daemon.config)
  /\ worker.loaded => Meant(Documents[worker.read], worker.config)

\* A worker that has read a newer file than its daemon still works in the daemon's cache
\* and drives the daemon's backend (worker.rs:252-269; pipeline.rs, Cache::resolve).
OnePlace == worker.loaded => worker.dir = daemon.dir /\ worker.backend = daemon.backend
=============================================================================
