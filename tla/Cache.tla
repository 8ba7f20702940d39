------------------------------- MODULE Cache -------------------------------
(***************************************************************************)
(* The image cache: the files under sha256/, their index, and the sweep    *)
(* that keeps them within the cap, against workers that store and set      *)
(* images and clients that pin them (crates/whirld/src/cache.rs,           *)
(* finish_rotation, sweep_with, protected_set, add_favorite,               *)
(* remove_favorite and load_favorites of crates/whirld/src/state.rs, and   *)
(* what crates/whirl-worker/src/pipeline.rs stores).                       *)
(*                                                                         *)
(* An image stands for its digest, its origin and its path. The cap is a   *)
(* number of files; `last_used`, which decides the order of eviction, is   *)
(* left out: every order is possible. rotate.lock is one variable:         *)
(* RotateLock shows that it has one holder. A thread's pc includes the     *)
(* life of its worker.                                                     *)
(***************************************************************************)
EXTENDS Naturals, FiniteSets

CONSTANTS Threads,     \* threads of the daemon that rotate
          Hand,        \* a worker run from a shell
          Images,      \* images the cache may hold
          None,        \* no image of the cache
          NoOne,       \* rotate.lock without a holder
          MaxFiles,    \* cache.max_files
          Prefetch,    \* prefetch
          MaxPins,     \* bound: images pinned at a time
          MaxEvents,   \* bound: workers and restarts
          MaxFaults    \* bound: writes of the state files that fail

Workers == Threads \cup {Hand}

ASSUME CacheAssumption ==
  /\ Hand \notin Threads /\ NoOne \notin Workers /\ None \notin Images
  /\ IsFiniteSet(Images)
  /\ MaxFiles \in Nat /\ Prefetch \in Nat
  /\ MaxPins \in Nat /\ MaxEvents \in Nat /\ MaxFaults \in Nat

VARIABLES
  disk,      \* the files under sha256/
  young,     \* those created within cache.grace_seconds
  index,     \* the entries of index.json
  anchor,    \* State.current, None when the cache does not hold its image
  pins,      \* State.favorites
  favFile,   \* what the daemon found of favorites.json when it started
  saved,     \* the anchor of current.json
  newest,    \* the image of the first entry of history.json
  pinFile    \* the entries of favorites.json

files == <<disk, young>>
state == <<anchor, pins, favFile, saved, newest, pinFile>>

VARIABLES
  pc,        \* where a thread, its worker, or the worker by hand is
  image,     \* the image a worker sets
  warmed,    \* the images it reports to have fetched ahead
  todo,      \* the reported images whose index entry is not written yet
  loaded,    \* the index as a thread has read it
  survey,    \* the files as a sweep has measured and left them
  keep,      \* the protected set as a sweep has resolved it
  lock,      \* the holder of rotate.lock
  booting    \* the sweep of the start, before a client is served

work == <<image, warmed>>
sweep == <<loaded, survey, keep>>

VARIABLES
  events,    \* bound: workers and restarts so far
  faults,    \* bound: writes of the state files that failed so far
  pinned,    \* history: the pins that reached favorites.json, less those unpinned
  late,      \* history: anchored or pinned since the sweep that runs began
  overtaken, \* history: a sweep began after the exit of the worker to be recorded
  suspect,   \* history: that was so for the anchor
  stale      \* history: a start has read another anchor than the one in force before

ghosts == <<events, faults, pinned, late, overtaken, suspect, stale>>
vars == <<files, index, state, pc, work, todo, sweep, lock, booting, ghosts>>

Working == {"run", "filled", "set"}              \* a worker that holds rotate.lock
Sweeping == {"scan", "purge"}            \* a thread that holds rotate.lock
InRun == {"spawn", "exit", "fail"} \cup Working  \* State.running
Places == {"idle", "record", "write"} \cup InRun \cup Sweeping

\* A cache that may be older than its state files, and the sweep of the start.
Init ==
  /\ disk \in SUBSET Images /\ index = disk /\ young = {}
  /\ anchor \in disk \cup {None} /\ saved = anchor /\ newest = anchor
  /\ pins = {} /\ pinFile = {} /\ favFile = "readable"
  /\ \E t \in Threads : pc = [w \in Workers |-> IF w = t THEN "record" ELSE "idle"]
  /\ image = [w \in Workers |-> None] /\ warmed = [w \in Workers |-> {}]
  /\ todo = [t \in Threads |-> {}] /\ loaded = [t \in Threads |-> {}]
  /\ survey = [t \in Threads |-> {}] /\ keep = [t \in Threads |-> {}]
  /\ lock = NoOne /\ booting = TRUE
  /\ events = 0 /\ faults = 0 /\ pinned = {} /\ late = {}
  /\ overtaken = FALSE /\ suspect = FALSE /\ stale = FALSE

Move(w, from, to) == pc[w] = from /\ pc' = [pc EXCEPT ![w] = to]

-----------------------------------------------------------------------------
(* A rotation's worker, and one run by hand. *)

Start(t) ==
  /\ ~booting /\ \A u \in Threads : pc[u] \notin InRun
  /\ events < MaxEvents /\ events' = events + 1
  /\ t \in Threads /\ Move(t, "idle", "spawn")
  /\ UNCHANGED <<files, index, state, work, todo, sweep, lock, booting,
                 faults, pinned, late, overtaken, suspect, stale>>

WorkerTakesLock(t) ==
  /\ t \in Threads /\ lock = NoOne /\ lock' = t /\ Move(t, "spawn", "run")
  /\ UNCHANGED <<files, index, state, work, todo, sweep, booting, ghosts>>

HandTakesLock ==
  /\ events < MaxEvents /\ events' = events + 1
  /\ lock = NoOne /\ lock' = Hand /\ Move(Hand, "idle", "run")
  /\ UNCHANGED <<files, index, state, work, todo, sweep, booting,
                 faults, pinned, late, overtaken, suspect, stale>>

\* The lock has a holder, or the worker does not come as far as that.
WorkerEndsEarly(t) ==
  /\ t \in Threads /\ Move(t, "spawn", "fail")
  /\ UNCHANGED <<files, index, state, work, todo, sweep, lock, booting, ghosts>>

\* Bytes that are there already are not touched; the others arrive by a rename.
Store(x) ==
  /\ disk' = disk \cup {x}
  /\ young' = IF x \in disk THEN young ELSE young \cup {x}

\* The candidate's bytes, or a file of the user that no cache holds.
WorkerFills(w) ==
  /\ Move(w, "run", "filled")
  /\ \E x \in Images \cup {None} :
       /\ image' = [image EXCEPT ![w] = x]
       /\ IF x = None THEN UNCHANGED files ELSE Store(x)
  /\ UNCHANGED <<index, state, warmed, todo, sweep, lock, booting, ghosts>>

\* Bytes under the floor, or a setter that refuses: another candidate is tried.
WorkerTriesNext(w) ==
  /\ Move(w, "filled", "run") /\ image' = [image EXCEPT ![w] = None]
  /\ UNCHANGED <<files, index, state, warmed, todo, sweep, lock, booting, ghosts>>

WorkerSets(w) ==
  /\ Move(w, "filled", "set")
  /\ UNCHANGED <<files, index, state, work, todo, sweep, lock, booting, ghosts>>

\* What is under the floor is stored and not reported.
WorkerWarms(w) ==
  /\ pc[w] = "set" /\ Cardinality(warmed[w]) < Prefetch
  /\ \E x \in Images : /\ Store(x)
                       /\ \/ warmed' = [warmed EXCEPT ![w] = @ \cup {x}]
                          \/ UNCHANGED warmed
  /\ UNCHANGED <<index, state, pc, image, todo, sweep, lock, booting, ghosts>>

\* Nobody reads the report of a worker run by hand.
Ends(w, place) ==
  /\ pc' = [pc EXCEPT ![w] = IF w = Hand THEN "idle" ELSE place]
  /\ image' = [image EXCEPT ![w] = IF w = Hand \/ place = "fail" THEN None ELSE @]
  /\ warmed' = [warmed EXCEPT ![w] = IF w = Hand \/ place = "fail" THEN {} ELSE @]
  /\ lock' = NoOne

WorkerExits(w) ==
  /\ pc[w] = "set" /\ Ends(w, "exit")
  /\ UNCHANGED <<files, index, state, todo, sweep, booting, ghosts>>

\* A failure, a crash, the deadline: what it stored stays and is not reported.
WorkerFails(w) ==
  /\ pc[w] \in Working /\ Ends(w, "fail")
  /\ UNCHANGED <<files, index, state, todo, sweep, booting, ghosts>>

\* External: cache.grace_seconds go by.
GrowsOld ==
  /\ \E x \in young : young' = young \ {x}
  /\ UNCHANGED <<disk, index, state, pc, work, todo, sweep, lock, booting, ghosts>>

-----------------------------------------------------------------------------
(* The daemon records an outcome: `running` is free again before the index is *)
(* written, and neither the record nor the index is under rotate.lock.        *)

Recorded(t, images) ==
  /\ todo' = [todo EXCEPT ![t] = images \ {None}]
  /\ image' = [image EXCEPT ![t] = None] /\ warmed' = [warmed EXCEPT ![t] = {}]

\* A sweep that runs by now has not seen these.
Changed(images) ==
  late' = IF \E t \in Threads : pc[t] \in Sweeping THEN late \cup images ELSE late

\* One write or both fail: it is logged, and the daemon goes on with its own state.
Fault == faults < MaxFaults /\ faults' = faults + 1

RecordSuccess(t) ==
  /\ Move(t, "exit", "record") /\ Recorded(t, {image[t]} \cup warmed[t])
  /\ anchor' = image[t] /\ Changed({image[t]} \ {None})
  /\ \/ saved' = image[t] /\ newest' = image[t] /\ UNCHANGED faults
     \/ Fault /\ saved' \in {image[t], saved} /\ newest' \in {image[t], newest}
  /\ suspect' = overtaken /\ overtaken' = FALSE /\ stale' = FALSE
  /\ UNCHANGED <<files, index, pins, favFile, pinFile, sweep, lock, booting, events, pinned>>

SaveCurrent ==
  /\ \/ saved' = anchor /\ UNCHANGED faults
     \/ Fault /\ UNCHANGED saved
  /\ UNCHANGED <<anchor, newest, pins, pinFile, favFile>>

RecordFailure(t) ==
  /\ Move(t, "fail", "record") /\ Recorded(t, {}) /\ SaveCurrent
  /\ UNCHANGED <<files, index, sweep, lock, booting, events, pinned, late, overtaken,
                 suspect, stale>>

\* A slot is spent, the clock jumps, a client pauses: the anchor is written with it.
Rewrite ==
  /\ ~booting /\ saved # anchor /\ SaveCurrent
  /\ UNCHANGED <<files, index, pc, work, todo, sweep, lock, booting,
                 events, pinned, late, overtaken, suspect, stale>>

\* record, for each image of the report: a file that is gone has no entry.
SkipEntry(t) ==
  /\ pc[t] = "record" /\ \E x \in todo[t] \ disk : todo' = [todo EXCEPT ![t] = @ \ {x}]
  /\ UNCHANGED <<files, index, state, pc, work, sweep, lock, booting, ghosts>>

ReadIndex(t) ==
  /\ Move(t, "record", "write") /\ loaded' = [loaded EXCEPT ![t] = index]
  /\ \E x \in todo[t] \cap disk : /\ todo' = [todo EXCEPT ![t] = @ \ {x}]
                                  /\ image' = [image EXCEPT ![t] = x]
  /\ UNCHANGED <<files, index, state, warmed, survey, keep, lock, booting, ghosts>>

\* A write that fails is logged.
WriteEntry(t) ==
  /\ Move(t, "write", "record")
  /\ \/ index' = loaded[t] \cup {image[t]}
     \/ UNCHANGED index
  /\ image' = [image EXCEPT ![t] = None] /\ loaded' = [loaded EXCEPT ![t] = {}]
  /\ UNCHANGED <<files, state, warmed, todo, survey, keep, lock, booting, ghosts>>

-----------------------------------------------------------------------------
(* The sweep. *)

WantsSweep(t) == t \in Threads /\ pc[t] = "record" /\ todo[t] = {}

\* The lock has a holder, or the take is an error: there is no sweep this time.
DeferSweep(t) ==
  /\ WantsSweep(t) /\ Move(t, "record", "idle") /\ booting' = FALSE
  /\ UNCHANGED <<files, index, state, work, todo, sweep, lock, ghosts>>

\* Mutant: the pins alone are protected.
ProtectedPins == pins \cup young

\* protected_set, and the grace of `keeps`: everything while the pins are unreadable.
Protected ==
  IF favFile = "corrupt" THEN Images ELSE ({anchor} \ {None}) \cup pins \cup young

\* Mutant: the sweep does not mind a worker.
TakeSweepAnyway(t) ==
  /\ WantsSweep(t) /\ Move(t, "record", "scan")
  /\ lock' = t /\ keep' = [keep EXCEPT ![t] = Protected]
  /\ overtaken' = (overtaken \/ \E u \in Threads : pc[u] = "exit")
  /\ UNCHANGED <<files, index, state, work, todo, loaded, survey, booting,
                 events, faults, pinned, late, suspect, stale>>

\* The lock is taken before the protected set is resolved. One step for both: what
\* happens between them might as well happen before.
TakeSweep(t) ==
  /\ WantsSweep(t) /\ lock = NoOne /\ Move(t, "record", "scan")
  /\ lock' = t /\ keep' = [keep EXCEPT ![t] = Protected]
  /\ overtaken' = (overtaken \/ \E u \in Threads : pc[u] = "exit")
  /\ UNCHANGED <<files, index, state, work, todo, loaded, survey, booting,
                 events, faults, pinned, late, suspect, stale>>

Scan(t) ==
  /\ Move(t, "scan", "purge")
  /\ loaded' = [loaded EXCEPT ![t] = index] /\ survey' = [survey EXCEPT ![t] = disk]
  /\ UNCHANGED <<files, index, state, work, todo, keep, lock, booting, ghosts>>

\* Files the index does not know, and then entries, while the files exceed the cap.
Orphans(t) == (survey[t] \ loaded[t]) \ keep[t]

\* Mutant: the cap is compared with the entries and not with the files.
SurplusOfEntries(t) ==
  IF Cardinality(survey[t] \cap loaded[t]) > MaxFiles
  THEN (survey[t] \cap loaded[t]) \ keep[t] ELSE {}

Surplus(t) ==
  IF Cardinality(survey[t]) > MaxFiles THEN (survey[t] \cap loaded[t]) \ keep[t] ELSE {}

Victims(t) == IF Orphans(t) # {} THEN Orphans(t) ELSE Surplus(t)

Remove(t) ==
  /\ pc[t] = "purge"
  /\ \E x \in Victims(t) :
       /\ disk' = disk \ {x} /\ young' = young \ {x}
       /\ survey' = [survey EXCEPT ![t] = @ \ {x}]
  /\ UNCHANGED <<index, state, pc, work, todo, loaded, keep, lock, booting, ghosts>>

EndsSweep(t) ==
  /\ pc' = [pc EXCEPT ![t] = "idle"] /\ lock' = NoOne /\ booting' = FALSE
  /\ loaded' = [loaded EXCEPT ![t] = {}] /\ survey' = [survey EXCEPT ![t] = {}]
  /\ keep' = [keep EXCEPT ![t] = {}] /\ late' = {}
  /\ UNCHANGED <<events, faults, pinned, overtaken, suspect, stale>>

\* Mutant: an entry whose file is missing stays an entry.
SaveSweepKeepsEntries(t) ==
  /\ pc[t] = "purge" /\ Victims(t) = {}
  /\ index' = loaded[t] /\ EndsSweep(t)
  /\ UNCHANGED <<files, state, work, todo>>

SaveSweep(t) ==
  /\ pc[t] = "purge" /\ Victims(t) = {}
  /\ index' = loaded[t] \cap survey[t] /\ EndsSweep(t)
  /\ UNCHANGED <<files, state, work, todo>>

\* Mutant: the guard is not dropped on the way out of an error.
FailSweepKeepsLock(t) ==
  /\ pc[t] \in {"scan", "purge"} /\ Move(t, pc[t], "idle") /\ booting' = FALSE
  /\ loaded' = [loaded EXCEPT ![t] = {}] /\ survey' = [survey EXCEPT ![t] = {}]
  /\ keep' = [keep EXCEPT ![t] = {}]
  /\ UNCHANGED <<files, index, state, work, todo, lock, ghosts>>

\* A read, a removal or the write fails: what is gone is gone, the index stays.
FailSweep(t) ==
  /\ pc[t] \in {"scan", "purge"} /\ EndsSweep(t)
  /\ UNCHANGED <<files, index, state, work, todo>>

-----------------------------------------------------------------------------
(* Clients, and the end of the daemon. The history is left out: a client can *)
(* name every image, an earlier life has set them.                           *)

\* A file of a newer schema is not written.
SavePins(entries) ==
  \/ pinFile' = (IF favFile = "newer" THEN pinFile ELSE entries) /\ UNCHANGED faults
  \/ Fault /\ UNCHANGED pinFile

Favorite ==
  /\ ~booting /\ favFile # "corrupt" /\ Cardinality(pins) < MaxPins
  /\ \E x \in Images \ pins :
       pins' = pins \cup {x} /\ SavePins(pins') /\ pinned' = pinned \cup pinFile' /\ Changed({x})
  /\ UNCHANGED <<files, index, anchor, saved, newest, favFile, pc, work, todo, sweep, lock,
                 booting, events, overtaken, suspect, stale>>

Unfavorite ==
  /\ ~booting /\ favFile # "corrupt"
  /\ \E x \in pins :
       pins' = pins \ {x} /\ SavePins(pins') /\ pinned' = (pinned \cup pinFile') \ {x}
  /\ UNCHANGED <<files, index, anchor, saved, newest, favFile, pc, work, todo, sweep, lock,
                 booting, events, late, overtaken, suspect, stale>>

\* load_favorites. A file that does not parse is moved aside, and is absent when the
\* next life looks for it, or cannot be moved and is found again; one of a newer
\* schema is left as it is.
LoadFavorites ==
  \E found \in {"readable", "corrupt", "newer"} :
    /\ favFile = "newer" => found # "readable"
    /\ favFile' = found
    /\ pins' = (IF found = "readable" THEN pinFile ELSE {}) /\ pinFile' = pins'

\* load_current and rebuild_current: what current.json names, or, when it cannot be
\* read, the newest entry of history.json, None when that cannot be read either.
LoadCurrent ==
  /\ newest' \in {newest, None}
  /\ anchor' \in {saved, newest'} /\ saved' = anchor'

\* The daemon dies and is started again. A worker it had goes on without it.
Restart ==
  /\ events < MaxEvents /\ events' = events + 1
  /\ LoadFavorites /\ LoadCurrent /\ booting' = TRUE
  /\ stale' = (stale \/ anchor' # anchor)
  /\ LET survives == lock # NoOne /\ pc[lock] \in Working
         stage == IF survives THEN pc[lock] ELSE "idle"
         picked == IF survives THEN image[lock] ELSE None
     IN  /\ \E t \in Threads :
              pc' = [w \in Workers |-> IF w = t THEN "record" ELSE IF w = Hand THEN stage ELSE "idle"]
         /\ image' = [w \in Workers |-> IF w = Hand THEN picked ELSE None]
         /\ lock' = IF survives THEN Hand ELSE NoOne
  /\ warmed' = [w \in Workers |-> {}]
  /\ todo' = [t \in Threads |-> {}] /\ loaded' = [t \in Threads |-> {}]
  /\ survey' = [t \in Threads |-> {}] /\ keep' = [t \in Threads |-> {}]
  /\ late' = {} /\ overtaken' = FALSE
  /\ UNCHANGED <<files, index, faults, pinned, suspect>>

-----------------------------------------------------------------------------
WorkerStep(w) ==
  \/ WorkerFills(w) \/ WorkerTriesNext(w) \/ WorkerSets(w)
  \/ WorkerWarms(w) \/ WorkerExits(w) \/ WorkerFails(w)

ThreadStep(t) ==
  \/ Start(t) \/ WorkerTakesLock(t) \/ WorkerEndsEarly(t) \/ RecordSuccess(t) \/ RecordFailure(t)
  \/ SkipEntry(t) \/ ReadIndex(t) \/ WriteEntry(t)
  \/ TakeSweep(t) \/ DeferSweep(t) \/ Scan(t)
  \/ Remove(t) \/ SaveSweep(t) \/ FailSweep(t)

Next ==
  \/ \E w \in Workers : WorkerStep(w)
  \/ \E t \in Threads : ThreadStep(t)
  \/ HandTakesLock \/ GrowsOld \/ Rewrite \/ Favorite \/ Unfavorite \/ Restart

Spec == Init /\ [][Next]_vars

-----------------------------------------------------------------------------
TypeOK ==
  /\ disk \subseteq Images /\ young \subseteq disk /\ index \subseteq Images
  /\ anchor \in Images \cup {None} /\ pins \subseteq Images
  /\ favFile \in {"readable", "corrupt", "newer"}
  /\ saved \in Images \cup {None} /\ newest \in Images \cup {None} /\ pinFile \subseteq Images
  /\ pc \in [Workers -> Places]
  /\ image \in [Workers -> Images \cup {None}] /\ warmed \in [Workers -> SUBSET Images]
  /\ todo \in [Threads -> SUBSET Images] /\ loaded \in [Threads -> SUBSET Images]
  /\ survey \in [Threads -> SUBSET Images] /\ keep \in [Threads -> SUBSET Images]
  /\ lock \in Workers \cup {NoOne} /\ booting \in BOOLEAN
  /\ events \in Nat /\ faults \in Nat /\ pinned \subseteq Images /\ late \subseteq Images
  /\ overtaken \in BOOLEAN /\ suspect \in BOOLEAN /\ stale \in BOOLEAN
  /\ \A w \in Workers : lock = w <=> pc[w] \in Working \cup Sweeping

\* A sweep cannot race a download, nor a cache hit, which no grace covers: what a
\* worker has found or stored is still there when it hands it to the setter
\* (state-and-cache 5.5: the sweep "always runs while holding the rotation lock").
SetterFindsFile ==
  [][\A w \in Workers : WorkerSets(w) => image[w] \in disk \cup {None}]_vars

\* INV-CACHE-1 at the end of a sweep: the files on disk, those without an entry
\* included, are within the cap, or every one of them is protected.
CapHolds ==
  [][\A t \in Threads :
       SaveSweep(t) => Cardinality(disk) <= MaxFiles \/ disk \subseteq keep[t]]_vars

\* A sweep puts index and disk in agreement whatever it found: records that were
\* overwritten, entries written back by another thread, sweeps that failed half way.
IndexReconciled ==
  [][\A t \in Threads : SaveSweep(t) => index' \subseteq disk /\ disk \ index' \subseteq keep[t]]_vars

\* 5.3: a sweep removes neither the anchor nor a pin, of those the daemon knew when
\* the sweep began, and nothing at all while the pins cannot be read.
SweepSparesProtected ==
  [][\A x \in disk \ disk' : favFile # "corrupt" /\ x \notin ({anchor} \cup pins) \ late]_vars

\* The anchor's file is gone in two cases only: a sweep began between the exit of the
\* worker that set it and the record of its success, or a start has read another anchor
\* than the one in force before it, because a save had failed or a file could not be
\* read: what a sweep protects is the anchor the daemon knows, not the one it has saved.
AnchorKept == anchor \notin disk \cup {None} => suspect \/ stale

\* INV-CACHE-2: "The file named by the anchor exists [...] for as long as it is the
\* anchor", where 7.3 step 4 has the daemon write the anchor under rotate.lock.
AnchorOnDisk == anchor \in disk \cup {None}

\* INV-CACHE-3: "No pinned file is removed by the sweep", for the pins that reached
\* favorites.json before the sweep began, in this life of the daemon or an earlier one.
PinnedStay == [][(pinned \ late) \cap disk \subseteq disk']_vars
=============================================================================
