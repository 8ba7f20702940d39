---------------------------- MODULE Cache_proofs ----------------------------
(***************************************************************************)
(* Theorems of Cache for any number of threads and images, any cap and any *)
(* number of restarts: everything the run checks.                          *)
(***************************************************************************)
EXTENDS Cache, FiniteSetTheorems, TLAPS

\* One rotation at a time is between its claim and its record.
OneRun == \A t, u \in Threads : pc[t] \in InRun /\ pc[u] \in InRun => t = u

\* A worker's image is on disk while the worker holds the lock, and after its exit
\* until a sweep takes the lock, which overtaken remembers.
ImageOnDisk ==
  /\ \A w \in Workers : pc[w] \in {"filled", "set"} => image[w] \in disk \cup {None}
  /\ \A t \in Threads : pc[t] = "exit" =>
       /\ image[t] \in disk \cup {None} \/ overtaken
       /\ (\E u \in Threads : pc[u] \in Sweeping) => overtaken

\* What a sweep that runs holds in its hands: the files there are, all that was
\* protected when it began, and the anchor unless a record has overtaken it.
SweepKnows ==
  \A t \in Threads :
    /\ pc[t] = "purge" => survey[t] = disk
    /\ pc[t] \in Sweeping =>
         /\ (({anchor} \cup pins) \ late) \ {None} \subseteq keep[t]
         /\ favFile = "corrupt" => keep[t] = Images
         /\ anchor \in keep[t] \cup {None} \/ suspect

CacheInv == OneRun /\ ImageOnDisk /\ SweepKnows /\ AnchorKept

LEMMA Distinct ==
  /\ Hand \in Workers /\ Hand \notin Threads /\ NoOne \notin Workers /\ None \notin Images
  /\ \A w \in Workers : w \in Threads \/ w = Hand
  /\ \A t \in Threads : t \in Workers /\ t # Hand
  BY CacheAssumption DEF Workers

-----------------------------------------------------------------------------
(* Type correctness. *)

\* A thread that has read the index to add an entry knows for which image.
Writing == \A t \in Threads : pc[t] = "write" => image[t] \in Images

LEMMA TypeInit == Init => TypeOK /\ Writing
<1> SUFFICES ASSUME Init PROVE TypeOK /\ Writing
  OBVIOUS
<1> USE Distinct DEF Init
<1>1. PICK t \in Threads : pc = [w \in Workers |-> IF w = t THEN "record" ELSE "idle"]
  OBVIOUS
<1>2. pc \in [Workers -> Places] /\ \A w \in Workers : pc[w] \in {"idle", "record"}
  BY <1>1 DEF Places
<1>3. \A w \in Workers : lock = w <=> pc[w] \in Working \cup Sweeping
  BY <1>2 DEF Working, Sweeping
<1>4. Writing
  BY <1>2 DEF Writing
<1> QED
  BY <1>2, <1>3, <1>4 DEF TypeOK

LEMMA TypeStep == TypeOK /\ Writing /\ [Next]_vars => TypeOK'
<1> SUFFICES ASSUME TypeOK, Writing, [Next]_vars PROVE TypeOK'
  OBVIOUS
<1> USE Distinct DEF Move, TypeOK, Writing, Places, InRun, Working, Sweeping, files, state,
   work, sweep, ghosts
<1>1. ASSUME NEW w \in Workers, WorkerStep(w) PROVE TypeOK'
  <2>1. CASE WorkerFills(w)
    BY <2>1 DEF WorkerFills, Store
  <2>2. CASE WorkerTriesNext(w)
    BY <2>2 DEF WorkerTriesNext
  <2>3. CASE WorkerSets(w)
    BY <2>3 DEF WorkerSets
  <2>4. CASE WorkerWarms(w)
    BY <2>4 DEF WorkerWarms, Store
  <2>5. CASE WorkerExits(w)
    BY <2>5 DEF WorkerExits, Ends
  <2>6. CASE WorkerFails(w)
    BY <2>6 DEF WorkerFails, Ends
  <2> QED
    BY <1>1, <2>1, <2>2, <2>3, <2>4, <2>5, <2>6 DEF WorkerStep
<1>2. ASSUME NEW t \in Threads, ThreadStep(t) PROVE TypeOK'
  <2>1. CASE Start(t)
    BY <2>1 DEF Start
  <2>2. CASE WorkerTakesLock(t)
    BY <2>2 DEF WorkerTakesLock
  <2>3. CASE WorkerEndsEarly(t)
    BY <2>3 DEF WorkerEndsEarly
  <2>4. CASE RecordSuccess(t)
    <3>1. /\ saved' \in Images \cup {None} /\ newest' \in Images \cup {None}
          /\ anchor' \in Images \cup {None} /\ faults' \in Nat
      BY <2>4 DEF RecordSuccess, Fault
    <3>2. /\ image' \in [Workers -> Images \cup {None}] /\ warmed' \in [Workers -> SUBSET Images]
          /\ todo' \in [Threads -> SUBSET Images] /\ late' \subseteq Images
      BY <2>4 DEF RecordSuccess, Recorded, Changed
    <3>3. /\ pc' \in [Workers -> Places] /\ UNCHANGED lock
          /\ \A w \in Workers : lock' = w <=> pc'[w] \in Working \cup Sweeping
      BY <2>4 DEF RecordSuccess
    <3> QED
      BY <2>4, <3>1, <3>2, <3>3 DEF RecordSuccess
  <2>5. CASE RecordFailure(t)
    BY <2>5 DEF RecordFailure, Recorded, SaveCurrent, Fault
  <2>6. CASE SkipEntry(t)
    BY <2>6 DEF SkipEntry
  <2>7. CASE ReadIndex(t)
    BY <2>7 DEF ReadIndex
  <2>8. CASE WriteEntry(t)
    BY <2>8 DEF WriteEntry
  <2>9. CASE TakeSweep(t)
    BY <2>9 DEF TakeSweep, WantsSweep, Protected
  <2>10. CASE DeferSweep(t)
    BY <2>10 DEF DeferSweep, WantsSweep
  <2>11. CASE Scan(t)
    BY <2>11 DEF Scan
  <2>12. CASE Remove(t)
    BY <2>12 DEF Remove, Victims, Orphans, Surplus
  <2>13. CASE SaveSweep(t)
    BY <2>13 DEF SaveSweep, EndsSweep
  <2>14. CASE FailSweep(t)
    BY <2>14 DEF FailSweep, EndsSweep
  <2> QED
    BY <1>2, <2>1, <2>2, <2>3, <2>4, <2>5, <2>6, <2>7, <2>8, <2>9, <2>10, <2>11, <2>12,
       <2>13, <2>14 DEF ThreadStep
<1>3. CASE HandTakesLock
  BY <1>3 DEF HandTakesLock
<1>4. CASE GrowsOld
  BY <1>4 DEF GrowsOld
<1>5. CASE Favorite
  BY <1>5 DEF Favorite, SavePins, Fault, Changed
<1>6. CASE Unfavorite
  BY <1>6 DEF Unfavorite, SavePins, Fault
<1>7. CASE Restart
  <2> DEFINE survives == lock # NoOne /\ pc[lock] \in Working
             stage == IF survives THEN pc[lock] ELSE "idle"
             picked == IF survives THEN image[lock] ELSE None
  <2> USE <1>7 DEF Restart
  <2>1. survives => lock \in Workers
    OBVIOUS
  <2>2. stage \in Working \cup {"idle"} /\ (survives <=> stage \in Working)
    OBVIOUS
  <2>3. picked \in Images \cup {None}
    BY <2>1
  <2>4. PICK t \in Threads :
          pc' = [w \in Workers |-> IF w = t THEN "record" ELSE IF w = Hand THEN stage ELSE "idle"]
    OBVIOUS
  <2>5. pc' \in [Workers -> Places]
    BY <2>2, <2>4
  <2>6. image' \in [Workers -> Images \cup {None}]
    BY <2>3
  <2>7. \A w \in Workers : lock' = w <=> pc'[w] \in Working \cup Sweeping
    BY <2>2, <2>4
  <2>8. lock' \in Workers \cup {NoOne}
    OBVIOUS
  <2>9. /\ pins' \subseteq Images /\ pinFile' \subseteq Images
        /\ favFile' \in {"readable", "corrupt", "newer"}
        /\ anchor' \in Images \cup {None} /\ saved' \in Images \cup {None}
        /\ newest' \in Images \cup {None}
    BY DEF LoadFavorites, LoadCurrent
  <2>10. warmed' \in [Workers -> SUBSET Images] /\ todo' \in [Threads -> SUBSET Images]
         /\ loaded' \in [Threads -> SUBSET Images] /\ survey' \in [Threads -> SUBSET Images]
         /\ keep' \in [Threads -> SUBSET Images]
    OBVIOUS
  <2>11. events' \in Nat
    OBVIOUS
  <2> QED
    BY <2>5, <2>6, <2>7, <2>8, <2>9, <2>10, <2>11
<1>8. CASE Rewrite
  BY <1>8 DEF Rewrite, SaveCurrent, Fault
<1>9. CASE UNCHANGED vars
  BY <1>9 DEF vars
<1> QED
  BY <1>1, <1>2, <1>3, <1>4, <1>5, <1>6, <1>7, <1>8, <1>9 DEF Next

LEMMA WritingStep == TypeOK /\ Writing /\ [Next]_vars => Writing'
<1> SUFFICES ASSUME TypeOK, Writing, [Next]_vars PROVE Writing'
  OBVIOUS
<1> USE Distinct DEF Move, TypeOK, Writing, work
<1>1. ASSUME NEW w \in Workers, WorkerStep(w) PROVE Writing'
  <2>1. CASE WorkerFills(w)
    BY <2>1 DEF WorkerFills, Store
  <2>2. CASE WorkerTriesNext(w)
    BY <2>2 DEF WorkerTriesNext
  <2>3. CASE WorkerSets(w)
    BY <2>3 DEF WorkerSets
  <2>4. CASE WorkerWarms(w)
    BY <2>4 DEF WorkerWarms, Store
  <2>5. CASE WorkerExits(w)
    BY <2>5 DEF WorkerExits, Ends
  <2>6. CASE WorkerFails(w)
    BY <2>6 DEF WorkerFails, Ends
  <2> QED
    BY <1>1, <2>1, <2>2, <2>3, <2>4, <2>5, <2>6 DEF WorkerStep
<1>2. ASSUME NEW t \in Threads, ThreadStep(t) PROVE Writing'
  <2>1. CASE Start(t)
    BY <2>1 DEF Start
  <2>2. CASE WorkerTakesLock(t)
    BY <2>2 DEF WorkerTakesLock
  <2>3. CASE WorkerEndsEarly(t)
    BY <2>3 DEF WorkerEndsEarly
  <2>4. CASE RecordSuccess(t)
    BY <2>4 DEF RecordSuccess, Recorded
  <2>5. CASE RecordFailure(t)
    BY <2>5 DEF RecordFailure, Recorded
  <2>6. CASE SkipEntry(t)
    BY <2>6 DEF SkipEntry
  <2>7. CASE ReadIndex(t)
    BY <2>7 DEF ReadIndex
  <2>8. CASE WriteEntry(t)
    BY <2>8 DEF WriteEntry
  <2>9. CASE TakeSweep(t)
    BY <2>9 DEF TakeSweep
  <2>10. CASE DeferSweep(t)
    BY <2>10 DEF DeferSweep
  <2>11. CASE Scan(t)
    BY <2>11 DEF Scan
  <2>12. CASE Remove(t)
    BY <2>12 DEF Remove
  <2>13. CASE SaveSweep(t)
    BY <2>13 DEF SaveSweep, EndsSweep
  <2>14. CASE FailSweep(t)
    BY <2>14 DEF FailSweep, EndsSweep
  <2> QED
    BY <1>2, <2>1, <2>2, <2>3, <2>4, <2>5, <2>6, <2>7, <2>8, <2>9, <2>10, <2>11, <2>12,
       <2>13, <2>14 DEF ThreadStep
<1>3. CASE HandTakesLock
  BY <1>3 DEF HandTakesLock
<1>4. CASE GrowsOld
  BY <1>4 DEF GrowsOld
<1>5. CASE Favorite
  BY <1>5 DEF Favorite
<1>6. CASE Unfavorite
  BY <1>6 DEF Unfavorite
<1>7. CASE Restart
  BY <1>7 DEF Restart
<1>8. CASE Rewrite
  BY <1>8 DEF Rewrite, SaveCurrent, Fault
<1>9. CASE UNCHANGED vars
  BY <1>9 DEF vars
<1> QED
  BY <1>1, <1>2, <1>3, <1>4, <1>5, <1>6, <1>7, <1>8, <1>9 DEF Next

-----------------------------------------------------------------------------
(* The invariant. *)

LEMMA InvInit == Init => CacheInv
<1> SUFFICES ASSUME Init PROVE CacheInv
  OBVIOUS
<1> USE Distinct DEF Init
<1>1. PICK t \in Threads : pc = [w \in Workers |-> IF w = t THEN "record" ELSE "idle"]
  OBVIOUS
<1>2. \A w \in Workers : pc[w] \in {"idle", "record"}
  BY <1>1
<1>3. OneRun
  BY <1>2 DEF OneRun, InRun, Working
<1>4. ImageOnDisk
  BY <1>2 DEF ImageOnDisk
<1>5. SweepKnows
  BY <1>2 DEF SweepKnows, Sweeping
<1> QED
  BY <1>3, <1>4, <1>5 DEF CacheInv, AnchorKept

LEMMA RunStep == TypeOK /\ OneRun /\ [Next]_vars => OneRun'
<1> SUFFICES ASSUME TypeOK, OneRun, [Next]_vars PROVE OneRun'
  OBVIOUS
<1> USE Distinct DEF Move, TypeOK, OneRun, InRun, Working
<1>1. ASSUME NEW w \in Workers, WorkerStep(w) PROVE OneRun'
  <2>1. CASE WorkerFills(w)
    BY <2>1 DEF WorkerFills
  <2>2. CASE WorkerTriesNext(w)
    BY <2>2 DEF WorkerTriesNext
  <2>3. CASE WorkerSets(w)
    BY <2>3 DEF WorkerSets
  <2>4. CASE WorkerWarms(w)
    BY <2>4 DEF WorkerWarms
  <2>5. CASE WorkerExits(w)
    BY <2>5 DEF WorkerExits, Ends
  <2>6. CASE WorkerFails(w)
    BY <2>6 DEF WorkerFails, Ends
  <2> QED
    BY <1>1, <2>1, <2>2, <2>3, <2>4, <2>5, <2>6 DEF WorkerStep
<1>2. ASSUME NEW t \in Threads, ThreadStep(t) PROVE OneRun'
  <2>1. CASE Start(t)
    BY <2>1 DEF Start
  <2>2. CASE WorkerTakesLock(t)
    BY <2>2 DEF WorkerTakesLock
  <2>3. CASE WorkerEndsEarly(t)
    BY <2>3 DEF WorkerEndsEarly
  <2>4. CASE RecordSuccess(t)
    BY <2>4 DEF RecordSuccess
  <2>5. CASE RecordFailure(t)
    BY <2>5 DEF RecordFailure
  <2>6. CASE SkipEntry(t)
    BY <2>6 DEF SkipEntry
  <2>7. CASE ReadIndex(t)
    BY <2>7 DEF ReadIndex
  <2>8. CASE WriteEntry(t)
    BY <2>8 DEF WriteEntry
  <2>9. CASE TakeSweep(t)
    BY <2>9 DEF TakeSweep
  <2>10. CASE DeferSweep(t)
    BY <2>10 DEF DeferSweep
  <2>11. CASE Scan(t)
    BY <2>11 DEF Scan
  <2>12. CASE Remove(t)
    BY <2>12 DEF Remove
  <2>13. CASE SaveSweep(t)
    BY <2>13 DEF SaveSweep, EndsSweep
  <2>14. CASE FailSweep(t)
    BY <2>14 DEF FailSweep, EndsSweep
  <2> QED
    BY <1>2, <2>1, <2>2, <2>3, <2>4, <2>5, <2>6, <2>7, <2>8, <2>9, <2>10, <2>11, <2>12,
       <2>13, <2>14 DEF ThreadStep
<1>3. CASE HandTakesLock
  BY <1>3 DEF HandTakesLock
<1>4. CASE GrowsOld
  BY <1>4 DEF GrowsOld
<1>5. CASE Favorite
  BY <1>5 DEF Favorite
<1>6. CASE Unfavorite
  BY <1>6 DEF Unfavorite
<1>7. CASE Restart
  BY <1>7 DEF Restart
<1>8. CASE Rewrite
  BY <1>8 DEF Rewrite, SaveCurrent, Fault
<1>9. CASE UNCHANGED vars
  BY <1>9 DEF vars
<1> QED
  BY <1>1, <1>2, <1>3, <1>4, <1>5, <1>6, <1>7, <1>8, <1>9 DEF Next

LEMMA ImageStep == TypeOK /\ OneRun /\ ImageOnDisk /\ [Next]_vars => ImageOnDisk'
<1> SUFFICES ASSUME TypeOK, OneRun, ImageOnDisk, [Next]_vars PROVE ImageOnDisk'
  OBVIOUS
<1> USE Distinct DEF Move, TypeOK, OneRun, ImageOnDisk, InRun, Working, Sweeping, files,
   work, ghosts
<1>1. ASSUME NEW w \in Workers, WorkerStep(w) PROVE ImageOnDisk'
  <2>1. CASE WorkerFills(w)
    BY <2>1 DEF WorkerFills, Store
  <2>2. CASE WorkerTriesNext(w)
    BY <2>2 DEF WorkerTriesNext
  <2>3. CASE WorkerSets(w)
    BY <2>3 DEF WorkerSets
  <2>4. CASE WorkerWarms(w)
    BY <2>4 DEF WorkerWarms, Store
  <2>5. CASE WorkerExits(w)
    BY <2>5 DEF WorkerExits, Ends
  <2>6. CASE WorkerFails(w)
    BY <2>6 DEF WorkerFails, Ends
  <2> QED
    BY <1>1, <2>1, <2>2, <2>3, <2>4, <2>5, <2>6 DEF WorkerStep
<1>2. ASSUME NEW t \in Threads, ThreadStep(t) PROVE ImageOnDisk'
  <2>1. CASE Start(t)
    BY <2>1 DEF Start
  <2>2. CASE WorkerTakesLock(t)
    BY <2>2 DEF WorkerTakesLock
  <2>3. CASE WorkerEndsEarly(t)
    BY <2>3 DEF WorkerEndsEarly
  <2>4. CASE RecordSuccess(t)
    BY <2>4 DEF RecordSuccess, Recorded
  <2>5. CASE RecordFailure(t)
    BY <2>5 DEF RecordFailure, Recorded
  <2>6. CASE SkipEntry(t)
    BY <2>6 DEF SkipEntry
  <2>7. CASE ReadIndex(t)
    BY <2>7 DEF ReadIndex
  <2>8. CASE WriteEntry(t)
    BY <2>8 DEF WriteEntry
  <2>9. CASE TakeSweep(t)
    BY <2>9 DEF TakeSweep, WantsSweep
  <2>10. CASE DeferSweep(t)
    BY <2>10 DEF DeferSweep, WantsSweep
  <2>11. CASE Scan(t)
    BY <2>11 DEF Scan
  <2>12. CASE Remove(t)
    BY <2>12 DEF Remove
  <2>13. CASE SaveSweep(t)
    BY <2>13 DEF SaveSweep, EndsSweep
  <2>14. CASE FailSweep(t)
    BY <2>14 DEF FailSweep, EndsSweep
  <2> QED
    BY <1>2, <2>1, <2>2, <2>3, <2>4, <2>5, <2>6, <2>7, <2>8, <2>9, <2>10, <2>11, <2>12,
       <2>13, <2>14 DEF ThreadStep
<1>3. CASE HandTakesLock
  BY <1>3 DEF HandTakesLock
<1>4. CASE GrowsOld
  BY <1>4 DEF GrowsOld
<1>5. CASE Favorite
  BY <1>5 DEF Favorite
<1>6. CASE Unfavorite
  BY <1>6 DEF Unfavorite
<1>7. CASE Restart
  BY <1>7 DEF Restart
<1>8. CASE Rewrite
  BY <1>8 DEF Rewrite, SaveCurrent, Fault
<1>9. CASE UNCHANGED vars
  BY <1>9 DEF vars
<1> QED
  BY <1>1, <1>2, <1>3, <1>4, <1>5, <1>6, <1>7, <1>8, <1>9 DEF Next

LEMMA SweepStep == TypeOK /\ ImageOnDisk /\ SweepKnows /\ [Next]_vars => SweepKnows'
<1> SUFFICES ASSUME TypeOK, ImageOnDisk, SweepKnows, [Next]_vars PROVE SweepKnows'
  OBVIOUS
<1> USE Distinct DEF Move, TypeOK, ImageOnDisk, SweepKnows, Working, Sweeping, files, state,
   sweep, ghosts
<1>1. ASSUME NEW w \in Workers, WorkerStep(w) PROVE SweepKnows'
  <2>1. CASE WorkerFills(w)
    BY <2>1 DEF WorkerFills, Store
  <2>2. CASE WorkerTriesNext(w)
    BY <2>2 DEF WorkerTriesNext
  <2>3. CASE WorkerSets(w)
    BY <2>3 DEF WorkerSets
  <2>4. CASE WorkerWarms(w)
    BY <2>4 DEF WorkerWarms, Store
  <2>5. CASE WorkerExits(w)
    BY <2>5 DEF WorkerExits, Ends
  <2>6. CASE WorkerFails(w)
    BY <2>6 DEF WorkerFails, Ends
  <2> QED
    BY <1>1, <2>1, <2>2, <2>3, <2>4, <2>5, <2>6 DEF WorkerStep
<1>2. ASSUME NEW t \in Threads, ThreadStep(t) PROVE SweepKnows'
  <2>1. CASE Start(t)
    BY <2>1 DEF Start
  <2>2. CASE WorkerTakesLock(t)
    BY <2>2 DEF WorkerTakesLock
  <2>3. CASE WorkerEndsEarly(t)
    BY <2>3 DEF WorkerEndsEarly
  <2>4. CASE RecordSuccess(t)
    BY <2>4 DEF RecordSuccess, Recorded, Changed
  <2>5. CASE RecordFailure(t)
    BY <2>5 DEF RecordFailure, Recorded, SaveCurrent
  <2>6. CASE SkipEntry(t)
    BY <2>6 DEF SkipEntry
  <2>7. CASE ReadIndex(t)
    BY <2>7 DEF ReadIndex
  <2>8. CASE WriteEntry(t)
    BY <2>8 DEF WriteEntry
  <2>9. CASE TakeSweep(t)
    BY <2>9 DEF TakeSweep, Protected
  <2>10. CASE DeferSweep(t)
    BY <2>10 DEF DeferSweep
  <2>11. CASE Scan(t)
    BY <2>11 DEF Scan
  <2>12. CASE Remove(t)
    BY <2>12 DEF Remove
  <2>13. CASE SaveSweep(t)
    BY <2>13 DEF SaveSweep, EndsSweep
  <2>14. CASE FailSweep(t)
    BY <2>14 DEF FailSweep, EndsSweep
  <2> QED
    BY <1>2, <2>1, <2>2, <2>3, <2>4, <2>5, <2>6, <2>7, <2>8, <2>9, <2>10, <2>11, <2>12,
       <2>13, <2>14 DEF ThreadStep
<1>3. CASE HandTakesLock
  BY <1>3 DEF HandTakesLock
<1>4. CASE GrowsOld
  BY <1>4 DEF GrowsOld
<1>5. CASE Favorite
  BY <1>5 DEF Favorite, Changed
<1>6. CASE Unfavorite
  BY <1>6 DEF Unfavorite
<1>7. CASE Restart
  BY <1>7 DEF Restart, LoadFavorites
<1>8. CASE Rewrite
  BY <1>8 DEF Rewrite, SaveCurrent, Fault
<1>9. CASE UNCHANGED vars
  BY <1>9 DEF vars
<1> QED
  BY <1>1, <1>2, <1>3, <1>4, <1>5, <1>6, <1>7, <1>8, <1>9 DEF Next

\* Only a sweep removes a file.
LEMMA OnlySweepsRemove ==
  [Next]_vars => disk \subseteq disk' \/ \E t \in Threads : Remove(t)
<1> USE DEF files
<1>1. ASSUME NEW w \in Workers, WorkerStep(w) PROVE disk \subseteq disk'
  BY <1>1 DEF WorkerStep, WorkerFills, WorkerTriesNext, WorkerSets, WorkerWarms, WorkerExits,
              WorkerFails, Store
<1>2. ASSUME NEW t \in Threads, ThreadStep(t) PROVE disk \subseteq disk' \/ Remove(t)
  BY <1>2 DEF ThreadStep, Start, WorkerTakesLock, WorkerEndsEarly, RecordSuccess, RecordFailure,
              SkipEntry, ReadIndex, WriteEntry, TakeSweep, DeferSweep, Scan, SaveSweep, FailSweep
<1>3. CASE HandTakesLock \/ GrowsOld \/ Rewrite \/ Favorite \/ Unfavorite \/ Restart
  BY <1>3 DEF HandTakesLock, GrowsOld, Rewrite, Favorite, Unfavorite, Restart
<1>4. CASE UNCHANGED vars
  BY <1>4 DEF vars
<1> QED
  BY <1>1, <1>2, <1>3, <1>4 DEF Next

\* The anchor is moved by the record of a success, and by a start that reads another one.
LEMMA WhatMovesAnchor ==
  [Next]_vars => \/ UNCHANGED <<anchor, suspect, stale>>
                 \/ Restart
                 \/ \E t \in Threads : RecordSuccess(t)
<1> DEFINE Same == UNCHANGED <<anchor, suspect, stale>>
<1> USE DEF state, ghosts
<1>1. ASSUME NEW w \in Workers, WorkerStep(w) PROVE Same
  BY <1>1 DEF WorkerStep, WorkerFills, WorkerTriesNext, WorkerSets, WorkerWarms, WorkerExits,
              WorkerFails
<1>2. ASSUME NEW t \in Threads, ThreadStep(t) PROVE Same \/ RecordSuccess(t)
  BY <1>2 DEF ThreadStep, Start, WorkerTakesLock, WorkerEndsEarly, RecordFailure, SaveCurrent,
              SkipEntry, ReadIndex, WriteEntry, TakeSweep, DeferSweep, Scan, Remove, SaveSweep,
              FailSweep, EndsSweep
<1>3. CASE HandTakesLock \/ GrowsOld \/ Rewrite \/ Favorite \/ Unfavorite
  BY <1>3 DEF HandTakesLock, GrowsOld, Rewrite, SaveCurrent, Favorite, Unfavorite
<1>4. CASE UNCHANGED vars
  BY <1>4 DEF vars
<1> QED
  BY <1>1, <1>2, <1>3, <1>4 DEF Next

LEMMA AnchorStep ==
  TypeOK /\ ImageOnDisk /\ SweepKnows /\ AnchorKept /\ [Next]_vars => AnchorKept'
<1> SUFFICES ASSUME TypeOK, ImageOnDisk, SweepKnows, AnchorKept, [Next]_vars PROVE AnchorKept'
  OBVIOUS
<1>1. ASSUME NEW t \in Threads, RecordSuccess(t) PROVE AnchorKept'
  <2>1. anchor' = image[t] /\ disk' = disk /\ suspect' = overtaken
    BY <1>1 DEF RecordSuccess, files
  <2>2. image[t] \in disk \cup {None} \/ overtaken
    BY <1>1 DEF RecordSuccess, Move, ImageOnDisk
  <2> QED
    BY <2>1, <2>2 DEF AnchorKept
<1>2. ASSUME NEW t \in Threads, Remove(t) PROVE AnchorKept'
  <2>1. PICK x \in Victims(t) : disk' = disk \ {x}
    BY <1>2 DEF Remove
  <2>2. x \notin keep[t] /\ x # None
    BY <1>2, Distinct DEF Victims, Orphans, Surplus, TypeOK
  <2>3. anchor \in keep[t] \cup {None} \/ suspect
    BY <1>2 DEF Remove, Sweeping, SweepKnows
  <2>4. UNCHANGED <<anchor, suspect, stale>>
    BY <1>2 DEF Remove, state, ghosts
  <2> QED
    BY <2>1, <2>2, <2>3, <2>4 DEF AnchorKept
<1>3. CASE Restart
  <2>1. disk' = disk /\ suspect' = suspect /\ (stale' <=> stale \/ anchor' # anchor)
    BY <1>3 DEF Restart, files
  <2> QED
    BY <2>1 DEF AnchorKept
<1>4. CASE disk \subseteq disk' /\ UNCHANGED <<anchor, suspect, stale>>
  BY <1>4 DEF AnchorKept
<1> QED
  BY <1>1, <1>2, <1>3, <1>4, OnlySweepsRemove, WhatMovesAnchor

-----------------------------------------------------------------------------
(* Theorems. *)

\* Every variable keeps its type, and rotate.lock names exactly the worker or the
\* sweep that is inside it, whichever way each of them ends.
THEOREM TypeCorrect == Spec => []TypeOK
<1>1. Init => TypeOK /\ Writing
  BY TypeInit
<1>2. TypeOK /\ Writing /\ [Next]_vars => TypeOK' /\ Writing'
  BY TypeStep, WritingStep
<1> QED
  BY <1>1, <1>2, PTL DEF Spec

LEMMA Invariant == Spec => []CacheInv
<1>1. TypeOK /\ CacheInv /\ [Next]_vars => CacheInv'
  BY RunStep, ImageStep, SweepStep, AnchorStep DEF CacheInv
<1> QED
  BY <1>1, InvInit, TypeCorrect, PTL DEF Spec

\* The anchor's file is missing, if at all, after a sweep that began between the exit of
\* the worker that set it and the record of its success, or after a start that read an
\* older anchor than the last one in force, as a save that failed leaves it.
THEOREM AnchorMissingInTwoCases == Spec => []AnchorKept
<1>1. CacheInv => AnchorKept
  BY DEF CacheInv
<1> QED
  BY <1>1, Invariant, PTL

\* What a worker hands to the setter is on disk: no sweep runs while it does.
THEOREM SetterAlwaysFindsFile == Spec => SetterFindsFile
<1> DEFINE Found == \A w \in Workers : WorkerSets(w) => image[w] \in disk \cup {None}
<1>1. CacheInv => [Found]_vars
  BY DEF CacheInv, ImageOnDisk, WorkerSets, Move
<1> QED
  BY <1>1, Invariant, PTL DEF SetterFindsFile

\* When a sweep has written the index, the files are within the cap, or each of them
\* was protected when the sweep began.
THEOREM CapAfterSweep == Spec => CapHolds
<1> DEFINE Capped == \A t \in Threads :
             SaveSweep(t) => Cardinality(disk) <= MaxFiles \/ disk \subseteq keep[t]
<1>1. ASSUME TypeOK, CacheInv, NEW t \in Threads, SaveSweep(t)
      PROVE  Cardinality(disk) <= MaxFiles \/ disk \subseteq keep[t]
  <2>1. survey[t] = disk /\ Victims(t) = {}
    BY <1>1 DEF CacheInv, SweepKnows, SaveSweep
  <2>2. Orphans(t) = {} /\ Surplus(t) = {}
    BY <2>1 DEF Victims
  <2>3. disk \ keep[t] \subseteq survey[t] \cap loaded[t]
    BY <2>1, <2>2 DEF Orphans
  <2>4. Cardinality(disk) \in Nat
    BY <1>1, CacheAssumption, FS_Subset, FS_CardinalityType DEF TypeOK
  <2>5. CASE Cardinality(disk) > MaxFiles
    BY <2>1, <2>2, <2>3, <2>5 DEF Surplus
  <2> QED
    BY <2>4, <2>5, CacheAssumption
<1>2. TypeOK /\ CacheInv => [Capped]_vars
  BY <1>1
<1> QED
  BY <1>2, TypeCorrect, Invariant, PTL DEF CapHolds

\* The index a sweep writes lists no file that is missing, and leaves out none but
\* the protected.
THEOREM IndexAfterSweep == Spec => IndexReconciled
<1> DEFINE Agree == \A t \in Threads :
             SaveSweep(t) => index' \subseteq disk /\ disk \ index' \subseteq keep[t]
<1>1. ASSUME CacheInv, NEW t \in Threads, SaveSweep(t)
      PROVE  index' \subseteq disk /\ disk \ index' \subseteq keep[t]
  <2>1. survey[t] = disk /\ Victims(t) = {} /\ index' = loaded[t] \cap survey[t]
    BY <1>1 DEF CacheInv, SweepKnows, SaveSweep
  <2>2. Orphans(t) = {}
    BY <2>1 DEF Victims
  <2> QED
    BY <2>1, <2>2 DEF Orphans
<1>2. CacheInv => [Agree]_vars
  BY <1>1
<1> QED
  BY <1>2, Invariant, PTL DEF IndexReconciled

\* A sweep spares the anchor and the pins the daemon knew when it began, and every
\* file while the pins cannot be read.
THEOREM SweepsSpareProtected == Spec => SweepSparesProtected
<1> DEFINE Spared == \A x \in disk \ disk' :
             favFile # "corrupt" /\ x \notin ({anchor} \cup pins) \ late
<1>1. ASSUME TypeOK, CacheInv, NEW t \in Threads, Remove(t)
      PROVE  Spared
  <2>1. PICK y \in Victims(t) : disk' = disk \ {y}
    BY <1>1 DEF Remove
  <2>2. y \in survey[t] \ keep[t] /\ y \in Images
    BY <1>1 DEF Victims, Orphans, Surplus, TypeOK
  <2>3. /\ (({anchor} \cup pins) \ late) \ {None} \subseteq keep[t]
        /\ favFile = "corrupt" => keep[t] = Images
    BY <1>1 DEF Remove, Sweeping, CacheInv, SweepKnows
  <2> QED
    BY <2>1, <2>2, <2>3, Distinct
<1>2. TypeOK /\ CacheInv /\ [Next]_vars => [Spared]_vars
  BY <1>1, OnlySweepsRemove
<1> QED
  BY <1>2, TypeCorrect, Invariant, PTL DEF Spec, SweepSparesProtected
=============================================================================
