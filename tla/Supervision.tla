----------------------------- MODULE Supervision -----------------------------
(***************************************************************************)
(* One run of the worker as the daemon's thread sees it (whirld/worker.rs: *)
(* spawn_with_retry, run_reporting_reaped, terminate, failure_from),       *)
(* beside the process itself. The two share two pipes, the signals and     *)
(* the exit status that only the parent can collect; everything else they  *)
(* do at the same time.                                                    *)
(*                                                                         *)
(* A tool of the worker has pipes of its own (Command::output), so that    *)
(* nobody but the worker writes to these two.                              *)
(***************************************************************************)
EXTENDS Integers, SequencesExt

CONSTANTS Wallpapers,    \* what a worker may set or store ahead
          FailureCodes,  \* the codes a worker may name, "worker_failed" not among them
          NoWallpaper, NoCode,
          SpawnAttempts, \* SPAWN_ATTEMPTS
          PipeRoom       \* the lines a pipe holds, which nobody reads before the exit

ASSUME SupervisionAssumption ==
  /\ NoWallpaper \notin Wallpapers /\ NoCode \notin FailureCodes
  /\ "worker_failed" \notin FailureCodes
  /\ SpawnAttempts \in Nat \ {0} /\ PipeRoom \in Nat

VARIABLES
  errand,       \* "set" (the verbs rotate and set) or "check"
  watch,        \* where the daemon's thread is
  attempts,     \* spawns that ended in ETXTBSY
  expired,      \* the deadline has passed
  life,         \* the process: "none", "works", "exited" (its status waits), "gone"
  ending,       \* its exit status: "none", "ok", "failed", "killed"
  signalled,    \* the signals that are on their way to it
  stdout, stderr,   \* the lines in the pipes
  onScreen, ahead, fault,  \* what the worker has set, stored ahead, and named as its fault
  handed,       \* what the run is for the daemon, [kind |-> "none"] before its end
  reaped        \* whether the pid is handed on as one that is provably gone

tape == <<stdout, stderr, onScreen, ahead, fault>>
superVars == <<errand, watch, attempts, expired, life, ending, signalled, tape, handed, reaped>>

Failed(code) == [kind |-> "failed", code |-> code]
Timeout == [kind |-> "timeout"]

SupInit ==
  /\ errand \in {"set", "check"}
  /\ watch = "spawn" /\ attempts = 0 /\ expired = FALSE
  /\ life = "none" /\ ending = "none" /\ signalled = {}
  /\ stdout = <<>> /\ stderr = <<>> /\ onScreen = NoWallpaper /\ ahead = {} /\ fault = NoCode
  /\ handed = [kind |-> "none"] /\ reaped = FALSE

-----------------------------------------------------------------------------
(* The process: whirl-worker, as far as its parent can tell. *)

Working == life = "works" /\ UNCHANGED <<errand, watch, attempts, expired, signalled, handed, reaped>>

\* A write waits while its pipe is full; a parent that has returned has closed both.
CanWrite(pipe) == watch # "done" /\ Len(pipe) < PipeRoom

\* A warning, one for each source or candidate that failed.
Warns ==
  /\ Working /\ CanWrite(stderr) /\ fault = NoCode
  /\ stderr' = Append(stderr, [code |-> NoCode])
  /\ UNCHANGED <<life, ending, stdout, onScreen, ahead, fault>>

\* `downloaded:` before a set, a line of the plan for a check.
Prints ==
  /\ Working /\ CanWrite(stdout) /\ onScreen = NoWallpaper /\ fault = NoCode
  /\ stdout' = Append(stdout, [what |-> "other", image |-> NoWallpaper])
  /\ UNCHANGED <<life, ending, stderr, onScreen, ahead, fault>>

SetIsOut == \E i \in DOMAIN stdout : stdout[i].what = "set"

Shows(image) ==
  /\ Working /\ errand = "set" /\ onScreen = NoWallpaper /\ fault = NoCode
  /\ onScreen' = image
  /\ UNCHANGED <<life, ending, stdout, stderr, ahead, fault>>

TellsSet ==
  /\ Working /\ CanWrite(stdout) /\ onScreen # NoWallpaper /\ ~SetIsOut
  /\ stdout' = Append(stdout, [what |-> "set", image |-> onScreen])
  /\ UNCHANGED <<life, ending, stderr, onScreen, ahead, fault>>

ToldAhead == {stdout[i].image : i \in {j \in DOMAIN stdout : stdout[j].what = "prefetch"}}

\* warm_one: the bytes are an entry of the cache first, its line follows.
Stores(image) ==
  /\ Working /\ SetIsOut /\ ahead = ToldAhead
  /\ ahead' = ahead \cup {image}
  /\ UNCHANGED <<life, ending, stdout, stderr, onScreen, fault>>

TellsAhead(image) ==
  /\ Working /\ CanWrite(stdout) /\ image \in ahead \ ToldAhead
  /\ stdout' = Append(stdout, [what |-> "prefetch", image |-> image])
  /\ UNCHANGED <<life, ending, stderr, onScreen, ahead, fault>>

\* Failure::report; a set is not followed by one.
Names(code) ==
  /\ Working /\ CanWrite(stderr) /\ onScreen = NoWallpaper /\ fault = NoCode
  /\ stderr' = Append(stderr, [code |-> code])
  /\ fault' = code
  /\ UNCHANGED <<life, ending, stdout, onScreen, ahead>>

ExitsWith(how) == Working /\ life' = "exited" /\ ending' = how /\ UNCHANGED tape
Succeeds ==
  /\ IF errand = "set" THEN SetIsOut /\ ahead = ToldAhead ELSE fault = NoCode
  /\ ExitsWith("ok")
EndsBadly == onScreen = NoWallpaper /\ ExitsWith("failed")
\* A panic, a signal from somebody else, and, once one is on its way, the daemon's.
Dies == ExitsWith("killed")

-----------------------------------------------------------------------------
(* The daemon's thread. *)

Watching == UNCHANGED <<errand, tape>>
Returns(result) == watch' = "done" /\ handed' = result

\* ETXTBSY: nothing ran, another attempt is free.
SpawnBusy ==
  /\ watch = "spawn" /\ attempts + 1 < SpawnAttempts
  /\ attempts' = attempts + 1
  /\ Watching /\ UNCHANGED <<watch, expired, life, ending, signalled, handed, reaped>>

SpawnFails ==
  /\ watch = "spawn" /\ Returns(Failed("worker_failed"))
  /\ Watching /\ UNCHANGED <<attempts, expired, life, ending, signalled, reaped>>

Spawns ==
  /\ watch = "spawn" /\ watch' = "poll" /\ life' = "works"
  /\ Watching /\ UNCHANGED <<attempts, expired, ending, signalled, handed, reaped>>

DeadlinePasses ==
  /\ watch \in {"poll", "alive"} /\ ~expired /\ expired' = TRUE
  /\ Watching /\ UNCHANGED <<watch, attempts, life, ending, signalled, handed, reaped>>

\* try_wait collects the status of a process that has exited.
Collects(then) ==
  /\ life = "exited" /\ life' = "gone" /\ reaped' = TRUE
  /\ watch' = then

PollCollects ==
  /\ watch = "poll" /\ Collects("read")
  /\ Watching /\ UNCHANGED <<attempts, expired, ending, signalled, handed>>

PollFails ==
  /\ watch = "poll" /\ Returns(Failed("worker_failed"))
  /\ Watching /\ UNCHANGED <<attempts, expired, life, ending, signalled, reaped>>

\* It was alive; the deadline is looked at after that, and the worker does not wait.
PollAlive ==
  /\ watch = "poll" /\ life = "works" /\ watch' = "alive"
  /\ Watching /\ UNCHANGED <<attempts, expired, life, ending, signalled, handed, reaped>>

LooksAtDeadline ==
  /\ watch = "alive" /\ watch' = IF expired THEN "term" ELSE "poll"
  /\ Watching /\ UNCHANGED <<attempts, expired, life, ending, signalled, handed, reaped>>

SendsSignal(place, then, sent) ==
  /\ watch = place /\ watch' = then /\ signalled' = signalled \cup {sent}
  /\ Watching /\ UNCHANGED <<attempts, expired, life, ending, handed, reaped>>
SendTerm == SendsSignal("term", "grace", "term")

\* terminate: a look every POLL for TERM_GRACE, until one fails.
GraceCollects ==
  /\ watch = "grace" /\ Collects("done") /\ handed' = Timeout
  /\ Watching /\ UNCHANGED <<attempts, expired, ending, signalled>>

SendKill == SendsSignal("grace", "wait", "kill")

WaitCollects ==
  /\ watch = "wait" /\ Collects("done") /\ handed' = Timeout
  /\ Watching /\ UNCHANGED <<attempts, expired, ending, signalled>>

WaitFails ==
  /\ watch = "wait" /\ Returns(Timeout)
  /\ Watching /\ UNCHANGED <<attempts, expired, life, ending, signalled, reaped>>

-----------------------------------------------------------------------------
(* The output, read after the exit. *)

\* failure_from: the last line that names a code, whatever was warned of before it.
LastCode(lines) ==
  LET naming == {i \in DOMAIN lines : lines[i].code # NoCode}
  IN  IF naming = {} THEN "worker_failed" ELSE lines[Max(naming)].code

\* Mutant: the result is the last line, as it was before a worker printed any after it.
ResultOfLastLine(out, err, how, what) ==
  CASE how # "ok" -> Failed(LastCode(err))
    [] how = "ok" /\ what = "check" -> [kind |-> "lines", lines |-> out]
    [] how = "ok" /\ what = "set" ->
         IF out[Len(out)].what # "set" THEN Failed("worker_failed")
         ELSE [kind |-> "set", image |-> out[Len(out)].image, ahead |-> {}]

\* The `set:` line wherever it is, and every `prefetch:` line.
ResultOf(out, err, how, what) ==
  LET LinesOf(word) == {i \in DOMAIN out : out[i].what = word}
      sets == LinesOf("set")
  IN  CASE how # "ok" -> Failed(LastCode(err))
        [] how = "ok" /\ what = "check" -> [kind |-> "lines", lines |-> out]
        [] how = "ok" /\ what = "set" ->
             IF sets = {} THEN Failed("worker_failed")
             ELSE [kind |-> "set", image |-> out[Max(sets)].image,
                   ahead |-> {out[i].image : i \in LinesOf("prefetch")}]

ReadOutput ==
  /\ watch = "read" /\ Returns(ResultOf(stdout, stderr, ending, errand))
  /\ Watching /\ UNCHANGED <<attempts, expired, life, ending, signalled, reaped>>

WorkerNext ==
  \/ Warns \/ Prints \/ TellsSet \/ Succeeds \/ EndsBadly \/ Dies
  \/ \E image \in Wallpapers : Shows(image) \/ Stores(image) \/ TellsAhead(image)
  \/ \E code \in FailureCodes : Names(code)

DaemonSide ==
  \/ SpawnBusy \/ SpawnFails \/ Spawns \/ DeadlinePasses
  \/ PollCollects \/ PollFails \/ PollAlive \/ LooksAtDeadline
  \/ SendTerm \/ GraceCollects \/ SendKill \/ WaitCollects \/ WaitFails \/ ReadOutput

SupNext == WorkerNext \/ DaemonSide
SupSpec == SupInit /\ [][SupNext]_superVars

-----------------------------------------------------------------------------
\* What the daemon is told of a run is what the process did, wherever its exit, its death,
\* its lines, the deadline and the signals met. A set is the image that is on the screen,
\* with everything that was stored ahead, of a process that ended well. The code of a
\* failure is the one the worker fault, and none that it did not. A worker that ended well
\* loses its result to the deadline only, or to a parent that could not wait; and a pid is
\* handed on only when the process is gone, while a process that lives on when its run is
\* over has none: that pid is what entitles the sweep to remove a lock file (worker.rs,
\* run_reporting_reaped and terminate).
ResultIsTheWorkers ==
  /\ handed.kind = "set" =>
       ending = "ok" /\ handed.image = onScreen /\ handed.image # NoWallpaper /\ handed.ahead = ahead
  /\ handed.kind = "failed" => handed.code = "worker_failed" \/ handed.code = fault
  /\ handed.kind = "timeout" => expired
  /\ watch = "done" /\ ~expired /\ reaped =>
       /\ ending = "ok" => handed.kind \in {"set", "lines"}
       /\ ending # "ok" => handed = Failed(IF fault = NoCode THEN "worker_failed" ELSE fault)
  /\ reaped <=> life = "gone"
=============================================================================
