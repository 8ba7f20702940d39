-------------------------- MODULE RotateLock_proofs --------------------------
(***************************************************************************)
(* Theorems of RotateLock for any number of threads, workers and process   *)
(* ids, under flock and under the fallback: as long as the kernel does not *)
(* hand the id of a reaped worker out again, one process at a time holds   *)
(* the lock, the one file the daemon removes has no holder, and a file has *)
(* an owner, but for what a kill by hand or before the record leaves.      *)
(***************************************************************************)
EXTENDS RotateLock, TLAPS

Owner(k) == at[k] \in {"created", "held"}

\* The kernel's lock and the takers agree.
FlockInv ==
  /\ flock # NoOne => mode = "flock" /\ at[flock] = "held"
  /\ mode = "flock" => \A k \in Takers : at[k] = "held" => flock = k

\* Under the fallback the file belongs to one taker at a time and says whose it is.
FileInv ==
  mode = "excl_file" =>
    /\ \A k, l \in Takers : Owner(k) /\ Owner(l) => k = l
    /\ \A k \in Takers : at[k] = "created" => file = "empty"
    /\ \A k \in Takers : at[k] = "held" => file = RecordOf(k)

\* A process id is in use once, and every id in use was handed out.
PidInv ==
  /\ \A v, w \in Workers : pid[v] = pid[w] /\ pid[v] # NoPid => v = w
  /\ \A w \in Workers : pid[w] # NoPid => pid[w] \in used

\* A thread that is sweeping has no live worker, and the file it is about to
\* remove still names the one it reaped.
SweepInv ==
  /\ \A t \in Threads : at[t] # "out" => at[ChildOf[t]] \in Ended \cup {"out"}
  /\ \A k \in Takers : at[k] \in {"reclaim", "recreate"} => k \in Threads
  /\ \A t \in Threads : at[t] = "reclaim" =>
       mode = "excl_file" /\ file \in Pids /\ file = pid[ChildOf[t]]

LockInv == FlockInv /\ FileInv /\ PidInv /\ SweepInv

-----------------------------------------------------------------------------
(* Type correctness. *)

LEMMA Distinct ==
  /\ \A k \in Takers : k # NoOne
  /\ \A t \in Threads : t \notin Workers /\ ChildOf[t] \in Workers
  /\ \A t, u \in Threads : ChildOf[t] = ChildOf[u] => t = u
  BY RotateLockAssumption DEF Takers

LEMMA TypeInit == Init => TypeOK
<1> SUFFICES ASSUME Init PROVE TypeOK
  OBVIOUS
<1>1. \A w \in Workers : at[w] = "out" /\ pid[w] = NoPid
  BY DEF Init, Takers
<1>2. orphaned \in BOOLEAN
  BY DEF Init
<1> QED
  BY <1>1, <1>2, RotateLockAssumption DEF Init, TypeOK, States

LEMMA GetsPidType ==
  ASSUME TypeOK, NEW w \in Workers, GetsPid(w), at[w] = "out", at'[w] = "take",
         \A v \in Workers : v # w => (at'[v] = at[v])
  PROVE  /\ pid' \in [Workers -> Pids \cup {NoPid}] /\ used' \subseteq Pids
         /\ \A v \in Workers : at'[v] = "out" <=> pid'[v] = NoPid
<1>1. PICK p \in Fresh : pid' = [pid EXCEPT ![w] = p] /\ used' = used \cup {p}
  BY DEF GetsPid
<1>2. p \in Pids /\ p # NoPid
  BY RotateLockAssumption DEF Fresh
<1> QED
  BY <1>1, <1>2 DEF TypeOK

LEMMA TypeStep == TypeOK /\ [Next]_vars => TypeOK'
<1> SUFFICES ASSUME TypeOK, [Next]_vars PROVE TypeOK'
  OBVIOUS
<1> USE Distinct
<1>1. ASSUME NEW t \in Threads, Spawn(t) PROVE TypeOK'
  <2> DEFINE w == ChildOf[t]
  <2>1. at[w] = "out" /\ at' = [at EXCEPT ![w] = "take"] /\ GetsPid(w)
    BY <1>1 DEF Spawn, Move
  <2>2. at' \in [Takers -> States] /\ w \in Takers /\ at'[w] = "take"
        /\ \A v \in Workers : v # w => at'[v] = at[v]
    BY <2>1 DEF TypeOK, States, Takers
  <2>3. /\ pid' \in [Workers -> Pids \cup {NoPid}] /\ used' \subseteq Pids
        /\ \A v \in Workers : at'[v] = "out" <=> pid'[v] = NoPid
    BY <2>1, <2>2, GetsPidType
  <2> QED
    BY <1>1, <2>2, <2>3 DEF Spawn, TypeOK
<1>2. ASSUME NEW w \in Workers, RunByHand(w) PROVE TypeOK'
  <2>1. at[w] = "out" /\ at' = [at EXCEPT ![w] = "take"] /\ GetsPid(w)
    BY <1>2 DEF RunByHand, Move
  <2>2. at' \in [Takers -> States] /\ at'[w] = "take"
        /\ \A v \in Workers : v # w => at'[v] = at[v]
    BY <2>1 DEF TypeOK, States, Takers
  <2>3. /\ pid' \in [Workers -> Pids \cup {NoPid}] /\ used' \subseteq Pids
        /\ \A v \in Workers : at'[v] = "out" <=> pid'[v] = NoPid
    BY <2>1, <2>2, GetsPidType
  <2> QED
    BY <1>2, <2>2, <2>3 DEF RunByHand, TypeOK
<1>3. ASSUME NEW w \in Workers, Die(w) PROVE TypeOK'
  BY <1>3 DEF Die, TypeOK, States, Takers
<1>4. ASSUME NEW t \in Threads, Reap(t) \/ SweepOnly(t) PROVE TypeOK'
  BY <1>4 DEF Reap, SweepOnly, Move, TypeOK, States, Takers
<1>5. ASSUME NEW t \in Threads, Finish(t) PROVE TypeOK'
  BY <1>5 DEF Finish, TypeOK, States, Takers
<1>6. ASSUME NEW k \in Takers, TakeStep(k) PROVE TypeOK'
  <2>1. RecordOf(k) \in Pids \cup {DaemonPid, NoPid}
    BY DEF RecordOf, TypeOK
  <2>2. ASSUME NEW from, NEW to \in States \ {"out"}, from # "out", Move(k, from, to)
        PROVE  /\ at' \in [Takers -> States]
               /\ \A w \in Workers : at'[w] = "out" <=> at[w] = "out"
    BY <2>2 DEF Move, TypeOK, Takers
  <2>3. \A s \in {"created", "exists", "held", "failed", "reclaim", "recreate", "busy", "done"} :
          s \in States \ {"out"}
    BY DEF States
  <2>4. CASE CreateExclusive(k)
    BY <2>2, <2>3, <2>4 DEF CreateExclusive, TypeOK
  <2>5. CASE ProbeCreated(k)
    BY <2>1, <2>2, <2>3, <2>5 DEF ProbeCreated, Acquire, TypeOK
  <2>6. CASE ProbeExisting(k)
    BY <2>1, <2>2, <2>3, <2>6 DEF ProbeExisting, Acquire, TypeOK
  <2>7. CASE Reclaim(k)
    BY <2>2, <2>3, <2>7 DEF Reclaim, TypeOK
  <2>8. CASE Recreate(k)
    BY <2>2, <2>3, <2>8 DEF Recreate, TypeOK
  <2>9. CASE Release(k)
    BY <2>2, <2>3, <2>9 DEF Release, TypeOK
  <2> QED
    BY <1>6, <2>4, <2>5, <2>6, <2>7, <2>8, <2>9 DEF TakeStep
<1>7. CASE UNCHANGED vars
  BY <1>7 DEF vars, TypeOK
<1> QED
  BY <1>1, <1>2, <1>3, <1>4, <1>5, <1>6, <1>7 DEF Next

\* The state of the lock file and of its takers stays well typed.
THEOREM TypeCorrect == Spec => []TypeOK
<1>1. TypeOK /\ [Next]_vars => TypeOK'
  BY TypeStep
<1> QED
  BY TypeInit, <1>1, PTL DEF Spec

-----------------------------------------------------------------------------
(* Mutual exclusion, while no process id is handed out twice. *)

LEMMA LockInit == Init => LockInv
<1> SUFFICES ASSUME Init PROVE LockInv
  OBVIOUS
<1>1. \A k \in Takers : at[k] = "out"
  BY DEF Init
<1>2. \A w \in Workers : pid[w] = NoPid
  BY DEF Init
<1>3. flock = NoOne
  BY DEF Init
<1> QED
  BY <1>1, <1>2, <1>3 DEF LockInv, FlockInv, FileInv, PidInv, SweepInv, Owner, Takers

\* A worker that comes to life takes an id no other process has.
LEMMA SpawnKeepsLock ==
  ASSUME TypeOK, LockInv, ~PidReuse, NEW w \in Workers, GetsPid(w),
         Move(w, "out", "take"), UNCHANGED <<mode, file, flock>>,
         \A t \in Threads : ChildOf[t] = w => at[t] = "out"
  PROVE  LockInv'
<1> USE Distinct
<1>1. PICK p \in Pids \ used : pid' = [pid EXCEPT ![w] = p] /\ used' = used \cup {p}
  BY DEF GetsPid, Fresh
<1>2. /\ w \in Takers /\ at[w] = "out" /\ at'[w] = "take"
      /\ \A k \in Takers : k # w => at'[k] = at[k]
  BY DEF Move, TypeOK, Takers
<1>3. /\ pid'[w] = p /\ \A v \in Workers : v # w => pid'[v] = pid[v]
      /\ pid[w] = NoPid
  BY <1>1, <1>2 DEF TypeOK
<1>4. FlockInv'
  BY <1>2 DEF LockInv, FlockInv, TypeOK
<1>5. FileInv'
  <2>1. \A k \in Takers : at'[k] \in {"created", "held"} =>
          k # w /\ at'[k] = at[k] /\ RecordOf(k)' = RecordOf(k)
    BY <1>2, <1>3 DEF RecordOf
  <2> QED
    BY <2>1 DEF LockInv, FileInv, Owner
<1>6. PidInv'
  BY <1>1, <1>3 DEF LockInv, PidInv
<1>7. SweepInv'
  <2>1. \A t \in Threads : t \in Takers /\ t # w /\ at'[t] = at[t]
    BY <1>2 DEF Takers
  <2>2. \A t \in Threads : at'[t] # "out" =>
          ChildOf[t] # w /\ at'[ChildOf[t]] = at[ChildOf[t]] /\ pid'[ChildOf[t]] = pid[ChildOf[t]]
    BY <1>2, <1>3, <2>1 DEF Takers
  <2>3. \A k \in Takers : at'[k] \in {"reclaim", "recreate"} => at'[k] = at[k]
    BY <1>2
  <2> QED
    BY <2>1, <2>2, <2>3 DEF LockInv, SweepInv
<1> QED
  BY <1>4, <1>5, <1>6, <1>7 DEF LockInv

\* While a thread is about to remove the file, nobody owns the lock: the file
\* names a worker that was reaped, and an owner's file names the owner.
LEMMA NobodyOwnsAReapedFile ==
  ASSUME TypeOK, LockInv, NEW t \in Threads, at[t] = "reclaim"
  PROVE  \A k \in Takers : ~Owner(k)
<1> USE Distinct
<1>1. /\ mode = "excl_file" /\ file \in Pids /\ file = pid[ChildOf[t]]
      /\ at[ChildOf[t]] \in Ended \cup {"out"}
  BY DEF LockInv, SweepInv
<1>2. ASSUME NEW k \in Takers, at[k] = "created" PROVE FALSE
  BY <1>1, <1>2, RotateLockAssumption DEF LockInv, FileInv
<1>3. ASSUME NEW k \in Takers, at[k] = "held" PROVE FALSE
  <2>1. file = RecordOf(k)
    BY <1>1, <1>3 DEF LockInv, FileInv
  <2>2. k \in Workers /\ pid[k] = pid[ChildOf[t]] /\ pid[k] # NoPid
    BY <1>1, <2>1, RotateLockAssumption DEF RecordOf
  <2>3. k = ChildOf[t]
    BY <2>2 DEF LockInv, PidInv
  <2> QED
    BY <1>1, <1>3, <2>3 DEF Ended
<1> QED
  BY <1>2, <1>3 DEF Owner

\* What every step of a take has in common: its taker alone moves, the process
\* ids stay, and the taker is not the worker of a thread that is sweeping.
LEMMA TakeStepFrame ==
  ASSUME TypeOK, LockInv, NEW k \in Takers, TakeStep(k)
  PROVE  /\ at[k] \in {"take", "created", "exists", "reclaim", "recreate", "held"}
         /\ at'[k] \in States \ {"out", "take", "dead"}
         /\ \A l \in Takers : l # k => at'[l] = at[l]
         /\ mode' = mode /\ pid' = pid /\ used' = used
         /\ \A l \in Takers : RecordOf(l)' = RecordOf(l)
         /\ \A t \in Threads : at[t] # "out" => ChildOf[t] # k
<1> USE Distinct
<1>1. ASSUME NEW from, NEW to, Move(k, from, to)
      PROVE  at[k] = from /\ at'[k] = to /\ \A l \in Takers : l # k => at'[l] = at[l]
  BY <1>1 DEF Move, TypeOK
<1>2. /\ at[k] \in {"take", "created", "exists", "reclaim", "recreate", "held"}
      /\ at'[k] \in States \ {"out", "take", "dead"}
      /\ \A l \in Takers : l # k => at'[l] = at[l]
  BY <1>1 DEF TakeStep, CreateExclusive, ProbeCreated, ProbeExisting, Reclaim, Recreate,
              Release, States
<1>3. mode' = mode /\ pid' = pid /\ used' = used
  BY DEF TakeStep, CreateExclusive, ProbeCreated, ProbeExisting, Reclaim, Recreate, Release
<1>4. \A t \in Threads : at[t] # "out" => ChildOf[t] # k
  BY <1>2 DEF LockInv, SweepInv, Ended
<1> QED
  BY <1>2, <1>3, <1>4 DEF RecordOf

LEMMA TakeKeepsFlock ==
  ASSUME TypeOK, LockInv, NEW k \in Takers, TakeStep(k)
  PROVE  FlockInv'
<1> USE Distinct DEF LockInv, FlockInv, TypeOK, Acquire, Move
<1>1. CASE CreateExclusive(k)
  BY <1>1 DEF CreateExclusive
<1>2. CASE ProbeCreated(k)
  BY <1>2 DEF ProbeCreated
<1>3. CASE ProbeExisting(k)
  BY <1>3 DEF ProbeExisting
<1>4. CASE Reclaim(k)
  BY <1>4 DEF Reclaim
<1>5. CASE Recreate(k)
  BY <1>5 DEF Recreate
<1>6. CASE Release(k)
  BY <1>6 DEF Release
<1> QED
  BY <1>1, <1>2, <1>3, <1>4, <1>5, <1>6 DEF TakeStep

\* An exclusive create succeeds when nobody owns the file, the record is written
\* by the one who created it, and only its owner, or a sweep that reaped its
\* owner, removes it.
LEMMA TakeKeepsFile ==
  ASSUME TypeOK, LockInv, NEW k \in Takers, TakeStep(k)
  PROVE  FileInv'
<1> SUFFICES ASSUME mode = "excl_file", mode' = "excl_file" PROVE FileInv'
  BY TakeStepFrame DEF FileInv
<1> USE Distinct
<1>1. /\ \A l \in Takers : l # k => at'[l] = at[l]
      /\ \A l \in Takers : RecordOf(l)' = RecordOf(l)
  BY TakeStepFrame
<1>2. RecordOf(k) \notin {"absent", "empty"}
  BY RotateLockAssumption DEF RecordOf, TypeOK
<1>3. /\ \A l, m \in Takers : Owner(l) /\ Owner(m) => l = m
      /\ \A l \in Takers : at[l] = "created" => file = "empty"
      /\ \A l \in Takers : at[l] = "held" => file = RecordOf(l) /\ file \notin {"absent", "empty"}
  BY RotateLockAssumption DEF LockInv, FileInv, RecordOf, TypeOK
<1>4. ASSUME file = "absent", at'[k] = "created", file' = "empty" PROVE FileInv'
  BY <1>1, <1>3, <1>4 DEF FileInv, Owner
<1>5. ASSUME at'[k] \notin {"created", "held"}, file' = file PROVE FileInv'
  BY <1>1, <1>3, <1>5 DEF FileInv, Owner
<1>6. ASSUME at[k] = "created", at'[k] = "held", file' = RecordOf(k) PROVE FileInv'
  BY <1>1, <1>3, <1>6 DEF FileInv, Owner
<1>7. ASSUME \A l \in Takers : Owner(l) => l = k, at'[k] \notin {"created", "held"}
      PROVE  FileInv'
  BY <1>1, <1>7 DEF FileInv, Owner
<1>8. CASE CreateExclusive(k)
  BY <1>4, <1>5, <1>8 DEF CreateExclusive, Move, TypeOK
<1>9. CASE ProbeCreated(k)
  BY <1>5, <1>6, <1>9 DEF ProbeCreated, Move, TypeOK
<1>10. CASE ProbeExisting(k)
  BY <1>5, <1>10 DEF ProbeExisting, Move, TypeOK
<1>11. CASE Reclaim(k)
  <2>1. at[k] = "reclaim" /\ at'[k] = "recreate"
    BY <1>11 DEF Reclaim, Move, TypeOK
  <2>2. k \in Threads
    BY <2>1 DEF LockInv, SweepInv
  <2> QED
    BY <1>7, <2>1, <2>2, NobodyOwnsAReapedFile
<1>12. CASE Recreate(k)
  BY <1>4, <1>5, <1>12 DEF Recreate, Move, TypeOK
<1>13. CASE Release(k)
  BY <1>3, <1>7, <1>13 DEF Release, Move, TypeOK, Owner
<1> QED
  BY <1>8, <1>9, <1>10, <1>11, <1>12, <1>13 DEF TakeStep

\* The file a sweep is about to remove stays as it is until the sweep removes it:
\* nobody creates over it, and no other process removes it.
LEMMA TakeKeepsSweep ==
  ASSUME TypeOK, LockInv, NEW k \in Takers, TakeStep(k)
  PROVE  SweepInv'
<1> USE Distinct
<1>1. /\ at[k] \in {"take", "created", "exists", "reclaim", "recreate", "held"}
      /\ at'[k] \in States \ {"out", "take", "dead"}
      /\ \A l \in Takers : l # k => at'[l] = at[l]
      /\ mode' = mode /\ pid' = pid
      /\ \A t \in Threads : at[t] # "out" => ChildOf[t] # k
  BY TakeStepFrame
<1>2. \A t \in Threads : t \in Takers /\ ChildOf[t] \in Takers
  BY DEF Takers
<1>3. ASSUME NEW t \in Threads, at'[t] # "out" PROVE at'[ChildOf[t]] \in Ended \cup {"out"}
  <2>1. at[t] # "out"
    BY <1>1, <1>2, <1>3
  <2> QED
    BY <1>1, <1>2, <2>1 DEF LockInv, SweepInv
<1>4. ASSUME NEW l \in Takers, at'[l] \in {"reclaim", "recreate"} PROVE l \in Threads
  <2>1. CASE l # k
    BY <1>1, <1>4, <2>1 DEF LockInv, SweepInv
  <2>2. CASE l = k
    BY <1>4, <2>2 DEF TakeStep, CreateExclusive, ProbeCreated, ProbeExisting, Reclaim,
                      Recreate, Release, Move, TypeOK, NamesReaped, LockInv, SweepInv
  <2> QED
    BY <2>1, <2>2
<1>5. ASSUME NEW t \in Threads, at'[t] = "reclaim"
      PROVE  mode' = "excl_file" /\ file' \in Pids /\ file' = pid'[ChildOf[t]]
  <2>1. CASE t = k
    <3>1. ProbeExisting(k) /\ NamesReaped(k) /\ mode = "excl_file" /\ file' = file
      BY <1>2, <1>5, <2>1 DEF TakeStep, CreateExclusive, ProbeCreated, ProbeExisting,
                              Reclaim, Recreate, Release, Move, TypeOK
    <3> QED
      BY <1>1, <2>1, <3>1 DEF NamesReaped
  <2>2. CASE t # k
    <3>1. /\ at[t] = "reclaim" /\ mode = "excl_file"
          /\ file \in Pids /\ file = pid[ChildOf[t]]
      BY <1>1, <1>2, <1>5, <2>2 DEF LockInv, SweepInv
    <3>2. \A l \in Takers : ~Owner(l)
      BY <3>1, NobodyOwnsAReapedFile
    <3>3. ~Reclaim(k)
      <4>1. SUFFICES ASSUME Reclaim(k) PROVE FALSE
        OBVIOUS
      <4>2. at[k] = "reclaim" /\ k \in Threads
        BY <4>1 DEF Reclaim, Move, LockInv, SweepInv
      <4>3. pid[ChildOf[k]] = pid[ChildOf[t]] /\ pid[ChildOf[t]] # NoPid
        BY <3>1, <4>2, RotateLockAssumption DEF LockInv, SweepInv
      <4> QED
        BY <2>2, <4>2, <4>3 DEF LockInv, PidInv
    <3>4. file' = file
      BY <3>1, <3>2, <3>3, RotateLockAssumption DEF TakeStep, CreateExclusive, ProbeCreated,
         ProbeExisting, Recreate, Release, Move, Owner
    <3> QED
      BY <1>1, <3>1, <3>4
  <2> QED
    BY <2>1, <2>2
<1> QED
  BY <1>3, <1>4, <1>5 DEF SweepInv

LEMMA DeathKeepsLock ==
  ASSUME TypeOK, LockInv, NEW w \in Workers, Die(w)
  PROVE  LockInv'
<1> USE Distinct
<1>1. /\ w \in Takers /\ at[w] \in {"take", "created", "exists", "held"} /\ at'[w] = "dead"
      /\ \A k \in Takers : k # w => at'[k] = at[k]
      /\ flock' = IF flock = w THEN NoOne ELSE flock
      /\ mode' = mode /\ file' = file /\ pid' = pid /\ used' = used
  BY DEF Die, TypeOK, Takers
<1>2. \A k \in Takers : RecordOf(k)' = RecordOf(k)
  BY <1>1 DEF RecordOf
<1>3. FlockInv'
  BY <1>1 DEF LockInv, FlockInv, TypeOK
<1>4. FileInv'
  BY <1>1, <1>2 DEF LockInv, FileInv, Owner
<1>5. PidInv'
  BY <1>1 DEF LockInv, PidInv
<1>6. SweepInv'
  BY <1>1 DEF LockInv, SweepInv, Takers, Ended
<1> QED
  BY <1>3, <1>4, <1>5, <1>6 DEF LockInv

LEMMA SweepBeginsAndEnds ==
  ASSUME TypeOK, LockInv, NEW t \in Threads, Reap(t) \/ SweepOnly(t) \/ Finish(t)
  PROVE  LockInv'
<1> USE Distinct
<1>1. t \in Takers /\ ChildOf[t] \in Takers /\ t # ChildOf[t]
  BY DEF Takers
<1>2. CASE Reap(t) \/ SweepOnly(t)
  <2>1. /\ at[t] = "out" /\ at'[t] = "take" /\ at[ChildOf[t]] \in Ended \cup {"out"}
        /\ \A k \in Takers : k # t => at'[k] = at[k]
        /\ mode' = mode /\ file' = file /\ flock' = flock /\ pid' = pid /\ used' = used
    BY <1>1, <1>2 DEF Reap, SweepOnly, Move, TypeOK
  <2>2. \A k \in Takers : RecordOf(k)' = RecordOf(k)
    BY <2>1 DEF RecordOf
  <2>3. FlockInv'
    BY <1>1, <2>1 DEF LockInv, FlockInv, TypeOK
  <2>4. FileInv' /\ PidInv'
    BY <1>1, <2>1, <2>2 DEF LockInv, FileInv, PidInv, Owner
  <2>5. SweepInv'
    BY <1>1, <2>1 DEF LockInv, SweepInv, Takers
  <2> QED
    BY <2>3, <2>4, <2>5 DEF LockInv
<1>3. CASE Finish(t)
  <2> DEFINE w == ChildOf[t]
  <2>1. /\ at[t] \in Ended /\ at'[t] = "out" /\ at'[w] = "out"
        /\ at[w] \in Ended \cup {"out"}
        /\ \A k \in Takers : k # t /\ k # w => at'[k] = at[k]
        /\ mode' = mode /\ file' = file /\ flock' = flock /\ used' = used
    BY <1>1, <1>3 DEF Finish, TypeOK, LockInv, SweepInv, Ended
  <2>2. pid'[w] = NoPid /\ \A v \in Workers : v # w => pid'[v] = pid[v]
    BY <1>3 DEF Finish, TypeOK
  <2>3. \A k \in Takers : at'[k] \in States \ {"out"} =>
          k # w /\ at'[k] = at[k] /\ RecordOf(k)' = RecordOf(k)
    BY <1>1, <2>1, <2>2 DEF RecordOf, Ended
  <2>4. FlockInv'
    BY <1>1, <2>1, <2>3 DEF LockInv, FlockInv, TypeOK, Ended, States
  <2>5. FileInv'
    BY <2>1, <2>3 DEF LockInv, FileInv, Owner, States
  <2>6. PidInv'
    BY <2>1, <2>2 DEF LockInv, PidInv
  <2>7. SweepInv'
    <3>1. \A u \in Threads : at'[u] # "out" =>
            /\ u # t /\ u # w /\ ChildOf[u] # w /\ ChildOf[u] # t
            /\ u \in Takers /\ ChildOf[u] \in Takers
      BY <2>1 DEF Takers
    <3>2. \A u \in Threads : at'[u] # "out" =>
            at'[u] = at[u] /\ at'[ChildOf[u]] = at[ChildOf[u]] /\ pid'[ChildOf[u]] = pid[ChildOf[u]]
      BY <2>1, <2>2, <3>1
    <3>3. \A k \in Takers : at'[k] \in {"reclaim", "recreate"} => at'[k] = at[k]
      BY <2>1
    <3> QED
      BY <2>1, <3>2, <3>3 DEF LockInv, SweepInv
  <2> QED
    BY <2>4, <2>5, <2>6, <2>7 DEF LockInv
<1> QED
  BY <1>2, <1>3

LEMMA LockStep == TypeOK /\ LockInv /\ ~PidReuse /\ [Next]_vars => LockInv'
<1> SUFFICES ASSUME TypeOK, LockInv, ~PidReuse, [Next]_vars PROVE LockInv'
  OBVIOUS
<1>1. ASSUME NEW t \in Threads, Spawn(t) PROVE LockInv'
  <2>1. \A u \in Threads : ChildOf[u] = ChildOf[t] => at[u] = "out"
    BY <1>1, Distinct DEF Spawn
  <2> QED
    BY <1>1, <2>1, Distinct, SpawnKeepsLock DEF Spawn
<1>2. ASSUME NEW w \in Workers, RunByHand(w) PROVE LockInv'
  BY <1>2, SpawnKeepsLock DEF RunByHand, ByHand
<1>3. ASSUME NEW w \in Workers, Die(w) PROVE LockInv'
  BY <1>3, DeathKeepsLock
<1>4. ASSUME NEW t \in Threads, Reap(t) \/ SweepOnly(t) \/ Finish(t) PROVE LockInv'
  BY <1>4, SweepBeginsAndEnds
<1>5. ASSUME NEW k \in Takers, TakeStep(k) PROVE LockInv'
  <2>1. FlockInv' /\ FileInv' /\ SweepInv'
    BY <1>5, TakeKeepsFlock, TakeKeepsFile, TakeKeepsSweep
  <2>2. PidInv'
    BY <1>5, TakeStepFrame DEF LockInv, PidInv
  <2> QED
    BY <2>1, <2>2 DEF LockInv
<1>6. CASE UNCHANGED vars
  BY <1>6 DEF vars, LockInv, FlockInv, FileInv, PidInv, SweepInv, Owner, RecordOf
<1> QED
  BY <1>1, <1>2, <1>3, <1>4, <1>5, <1>6 DEF Next

LEMMA LockHolds == ~PidReuse => (Spec => [](TypeOK /\ LockInv))
<1> SUFFICES ASSUME ~PidReuse PROVE Spec => [](TypeOK /\ LockInv)
  OBVIOUS
<1>1. TypeOK /\ LockInv /\ [Next]_vars => (TypeOK /\ LockInv)'
  BY TypeStep, LockStep
<1> QED
  BY TypeInit, LockInit, <1>1, PTL DEF Spec

LEMMA OneHolder == TypeOK /\ LockInv => MutualExclusion
<1> SUFFICES ASSUME TypeOK, LockInv, NEW k \in Takers, NEW l \in Takers,
                    at[k] = "held", at[l] = "held"
             PROVE  k = l
  BY DEF MutualExclusion
<1>1. CASE mode = "flock"
  BY <1>1 DEF LockInv, FlockInv
<1>2. CASE mode = "excl_file"
  BY <1>2 DEF LockInv, FileInv, Owner
<1> QED
  BY <1>1, <1>2, RotateLockAssumption DEF TypeOK

\* One process at a time is inside the lock, a rotation or a sweep, whichever
\* primitive the filesystem has and whoever dies where, as long as no process id
\* is handed out twice.
THEOREM OneHolderAtATime == ~PidReuse => (Spec => []MutualExclusion)
<1> SUFFICES ASSUME ~PidReuse PROVE Spec => []MutualExclusion
  OBVIOUS
<1> QED
  BY LockHolds, OneHolder, PTL

\* The promise of 8.8 rests on the process ids alone: while none is handed out
\* twice, the file the sweep removes belongs to nobody. With PidReuse = TRUE, TLC finds a
\* behaviour that shows the assumption is needed.
THEOREM NoReuseNoLiveFile == ~PidReuse => (Spec => ReclaimedFileHasNoHolder)
<1> SUFFICES ASSUME ~PidReuse PROVE Spec => ReclaimedFileHasNoHolder
  OBVIOUS
<1>1. TypeOK /\ LockInv /\ [Next]_vars
        => [\A t \in Threads : Reclaim(t) => \A k \in Takers : at[k] # "held"]_vars
  BY NobodyOwnsAReapedFile DEF Reclaim, Move, Owner
<1> QED
  BY LockHolds, <1>1, PTL DEF Spec, ReclaimedFileHasNoHolder

-----------------------------------------------------------------------------
(* A file that is there will go away. *)

\* The third way out of FileHasAnOwner: the sweep of the thread that reaped the
\* dead holder has not passed the file yet.
AwaitsSweep(t) ==
  /\ file = pid[ChildOf[t]] /\ at[ChildOf[t]] = "dead"
  /\ at[t] \in {"out", "take", "exists", "reclaim"}

LEMMA OwnerInit == Init => FileHasAnOwner
<1> QED
  BY RotateLockAssumption DEF Init, FileHasAnOwner

\* A step that moves none of the file, the ids of the live and the dead, and the
\* history leaves the owner it found.
LEMMA OwnerStays ==
  ASSUME TypeOK, FileHasAnOwner, UNCHANGED <<mode, file>>, orphaned => orphaned',
         \A k \in Takers : Owner(k) => at'[k] = at[k] /\ RecordOf(k)' = RecordOf(k),
         \A t \in Threads : AwaitsSweep(t) => AwaitsSweep(t)'
  PROVE  FileHasAnOwner'
<1> SUFFICES ASSUME mode = "excl_file", file # "absent", ~orphaned
             PROVE  \/ \E k \in Takers : at'[k] = "created"
                    \/ \E k \in Takers : at'[k] = "held" /\ file = RecordOf(k)'
                    \/ \E t \in Threads : AwaitsSweep(t)'
  BY DEF FileHasAnOwner, AwaitsSweep
<1>1. CASE \E k \in Takers : at[k] = "created" \/ (at[k] = "held" /\ file = RecordOf(k))
  BY <1>1 DEF Owner
<1>2. CASE \E t \in Threads : AwaitsSweep(t)
  BY <1>2
<1> QED
  BY <1>1, <1>2 DEF FileHasAnOwner, AwaitsSweep

\* A worker that dies with the file in its name leaves it to the thread that waits
\* for it, which has not begun its sweep: it has nothing to reap before.
LEMMA DeathLeavesTheFileToItsThread ==
  ASSUME TypeOK, LockInv, FileHasAnOwner, NEW w \in Workers, Die(w)
  PROVE  FileHasAnOwner'
<1> USE Distinct
<1>1. /\ w \in Takers /\ at[w] \in {"take", "created", "exists", "held"} /\ at'[w] = "dead"
      /\ \A k \in Takers : k # w => at'[k] = at[k]
      /\ mode' = mode /\ file' = file /\ pid' = pid
      /\ orphaned' = (orphaned \/ at[w] = "created" \/ (w \in ByHand /\ at[w] = "held"))
  BY DEF Die, TypeOK, Takers
<1>2. \A k \in Takers : RecordOf(k)' = RecordOf(k)
  BY <1>1 DEF RecordOf
<1>3. \A t \in Threads : AwaitsSweep(t) => AwaitsSweep(t)'
  BY <1>1 DEF AwaitsSweep, Takers
<1>4. CASE ~Owner(w)
  <2>1. \A k \in Takers : Owner(k) => at'[k] = at[k] /\ RecordOf(k)' = RecordOf(k)
    BY <1>1, <1>2, <1>4
  <2> QED
    BY <1>1, <1>3, <2>1, OwnerStays
<1>5. CASE orphaned'
  BY <1>5 DEF FileHasAnOwner
<1>6. CASE Owner(w) /\ ~orphaned' /\ mode = "excl_file"
  <2>1. at[w] = "held" /\ w \notin ByHand
    BY <1>1, <1>6 DEF Owner
  <2>2. PICK t \in Threads : ChildOf[t] = w
    BY <2>1 DEF ByHand
  <2>3. at[t] = "out" /\ at'[t] = "out"
    BY <1>1, <2>1, <2>2 DEF LockInv, SweepInv, Ended, Takers
  <2>4. file = pid[w]
    BY <1>1, <1>6, <2>1 DEF LockInv, FileInv, RecordOf
  <2>5. AwaitsSweep(t)'
    BY <1>1, <2>2, <2>3, <2>4 DEF AwaitsSweep
  <2> QED
    BY <2>5 DEF FileHasAnOwner, AwaitsSweep
<1>7. CASE mode # "excl_file"
  BY <1>1, <1>7 DEF FileHasAnOwner
<1> QED
  BY <1>4, <1>5, <1>6, <1>7

\* No step of a take leaves a file without an owner: a create and a record make
\* one, a probe that gives up leaves the one there was, and the sweep the file
\* waits for takes it whenever it finds it.
LEMMA TakeKeepsAnOwner ==
  ASSUME TypeOK, LockInv, FileHasAnOwner, NEW k \in Takers, TakeStep(k)
  PROVE  FileHasAnOwner'
<1> SUFFICES ASSUME mode = "excl_file", file' # "absent" PROVE FileHasAnOwner'
  BY TakeStepFrame DEF FileHasAnOwner
<1> USE Distinct
<1>1. /\ \A l \in Takers : l # k => at'[l] = at[l]
      /\ mode' = mode /\ pid' = pid
      /\ \A l \in Takers : RecordOf(l)' = RecordOf(l)
      /\ \A t \in Threads : at[t] # "out" => ChildOf[t] # k
  BY TakeStepFrame
<1>2. orphaned' = orphaned
  BY DEF TakeStep, CreateExclusive, ProbeCreated, ProbeExisting, Reclaim, Recreate, Release
<1>3. ASSUME at'[k] = "created" PROVE FileHasAnOwner'
  BY <1>3 DEF FileHasAnOwner
<1>4. ASSUME at[k] \in {"take", "exists", "recreate"}, file' = file,
             k \in Threads /\ AwaitsSweep(k) => AwaitsSweep(k)'
      PROVE  FileHasAnOwner'
  <2>1. \A l \in Takers : Owner(l) => at'[l] = at[l] /\ RecordOf(l)' = RecordOf(l)
    BY <1>1, <1>4 DEF Owner
  <2>2. ASSUME NEW t \in Threads, AwaitsSweep(t), t # k PROVE AwaitsSweep(t)'
    <3>1. t \in Takers /\ ChildOf[t] \in Takers /\ ChildOf[t] # k
      BY <1>4, <2>2 DEF AwaitsSweep, Takers
    <3> QED
      BY <1>1, <1>4, <2>2, <3>1 DEF AwaitsSweep
  <2> QED
    BY <1>1, <1>2, <1>4, <2>1, <2>2, OwnerStays
<1>5. CASE CreateExclusive(k)
  <2>1. CASE at'[k] = "exists" /\ at[k] = "take" /\ file' = file
    <3>1. k \in Threads => ChildOf[k] \in Takers /\ ChildOf[k] # k
      BY DEF Takers
    <3> QED
      BY <1>1, <1>4, <2>1, <3>1 DEF AwaitsSweep
  <2> QED
    BY <1>3, <1>5, <2>1 DEF CreateExclusive, Move, TypeOK
<1>6. CASE ProbeCreated(k)
  <2>1. at'[k] = "held" /\ file' = RecordOf(k)
    BY <1>6 DEF ProbeCreated, Move, TypeOK
  <2> QED
    BY <1>1, <2>1 DEF FileHasAnOwner
<1>7. CASE ProbeExisting(k)
  <2>1. /\ at[k] = "exists" /\ file' = file
        /\ file # "absent" => at'[k] = IF NamesReaped(k) THEN "reclaim" ELSE "busy"
    BY <1>7 DEF ProbeExisting, Move, TypeOK
  <2>2. ASSUME AwaitsSweep(k), k \in Threads PROVE AwaitsSweep(k)'
    <3>1. pid[ChildOf[k]] \in Pids
      BY <2>2 DEF AwaitsSweep, TypeOK
    <3>2. at'[k] = "reclaim"
      BY <2>1, <2>2, <3>1, RotateLockAssumption DEF AwaitsSweep, NamesReaped
    <3>3. ChildOf[k] \in Takers /\ ChildOf[k] # k
      BY <2>2 DEF Takers
    <3> QED
      BY <1>1, <2>1, <2>2, <3>2, <3>3 DEF AwaitsSweep
  <2> QED
    BY <1>4, <2>1, <2>2
<1>8. CASE Reclaim(k)
  BY <1>8 DEF Reclaim
<1>9. CASE Recreate(k)
  <2>1. CASE at'[k] = "busy" /\ at[k] = "recreate" /\ file' = file
    BY <1>4, <2>1 DEF AwaitsSweep
  <2> QED
    BY <1>3, <1>9, <2>1 DEF Recreate, Move, TypeOK
<1>10. CASE Release(k)
  BY <1>10 DEF Release
<1> QED
  BY <1>5, <1>6, <1>7, <1>8, <1>9, <1>10 DEF TakeStep

LEMMA OwnerStep == TypeOK /\ LockInv /\ FileHasAnOwner /\ [Next]_vars => FileHasAnOwner'
<1> SUFFICES ASSUME TypeOK, LockInv, FileHasAnOwner, [Next]_vars PROVE FileHasAnOwner'
  OBVIOUS
<1> USE Distinct
<1>1. ASSUME NEW w \in Workers, at[w] = "out", Move(w, "out", "take"), GetsPid(w),
             UNCHANGED <<mode, file, orphaned>>
      PROVE  FileHasAnOwner'
  <2>1. PICK p \in Fresh : pid' = [pid EXCEPT ![w] = p]
    BY <1>1 DEF GetsPid
  <2>2. \A k \in Takers : k # w => at'[k] = at[k] /\ RecordOf(k)' = RecordOf(k)
    BY <1>1, <2>1 DEF Move, TypeOK, RecordOf
  <2>3. ASSUME NEW t \in Threads, AwaitsSweep(t) PROVE AwaitsSweep(t)'
    <3>1. t \in Takers /\ t # w /\ ChildOf[t] \in Takers /\ ChildOf[t] # w
      BY <1>1, <2>3 DEF AwaitsSweep, Takers
    <3> QED
      BY <1>1, <2>1, <2>2, <2>3, <3>1 DEF AwaitsSweep, TypeOK
  <2> QED
    BY <1>1, <2>2, <2>3, OwnerStays DEF Owner
<1>2. ASSUME NEW t \in Threads, Spawn(t) PROVE FileHasAnOwner'
  BY <1>1, <1>2 DEF Spawn, Move
<1>3. ASSUME NEW w \in Workers, RunByHand(w) PROVE FileHasAnOwner'
  BY <1>1, <1>3 DEF RunByHand, Move
<1>4. ASSUME NEW w \in Workers, Die(w) PROVE FileHasAnOwner'
  BY <1>4, DeathLeavesTheFileToItsThread
<1>5. ASSUME NEW t \in Threads, Reap(t) \/ SweepOnly(t) PROVE FileHasAnOwner'
  <2>1. /\ at[t] = "out" /\ at'[t] = "take" /\ \A k \in Takers : k # t => at'[k] = at[k]
        /\ UNCHANGED <<mode, file, pid, orphaned>>
    BY <1>5 DEF Reap, SweepOnly, Move, TypeOK, Takers
  <2>2. \A k \in Takers : Owner(k) => at'[k] = at[k] /\ RecordOf(k)' = RecordOf(k)
    BY <2>1 DEF Owner, RecordOf
  <2>3. \A u \in Threads : AwaitsSweep(u) => AwaitsSweep(u)'
    BY <2>1 DEF AwaitsSweep, Takers
  <2> QED
    BY <2>1, <2>2, <2>3, OwnerStays
<1>6. ASSUME NEW t \in Threads, Finish(t) PROVE FileHasAnOwner'
  <2> DEFINE w == ChildOf[t]
  <2>1. /\ at[t] \in Ended /\ at[w] \in Ended \cup {"out"}
        /\ \A k \in Takers : k # t /\ k # w => at'[k] = at[k]
        /\ \A v \in Workers : v # w => pid'[v] = pid[v]
        /\ UNCHANGED <<mode, file, orphaned>>
    BY <1>6 DEF Finish, TypeOK, LockInv, SweepInv, Ended
  <2>2. \A k \in Takers : Owner(k) => at'[k] = at[k] /\ RecordOf(k)' = RecordOf(k)
    BY <2>1 DEF Owner, Ended, RecordOf
  <2>3. ASSUME NEW u \in Threads, AwaitsSweep(u) PROVE AwaitsSweep(u)'
    <3>1. u # t /\ ChildOf[u] # w /\ u # w /\ ChildOf[u] # t /\ u \in Takers /\ ChildOf[u] \in Takers
      BY <2>1, <2>3 DEF AwaitsSweep, Ended, Takers
    <3> QED
      BY <2>1, <2>3, <3>1 DEF AwaitsSweep
  <2> QED
    BY <2>1, <2>2, <2>3, OwnerStays
<1>7. ASSUME NEW k \in Takers, TakeStep(k) PROVE FileHasAnOwner'
  BY <1>7, TakeKeepsAnOwner
<1>8. CASE UNCHANGED vars
  BY <1>8 DEF vars, FileHasAnOwner, RecordOf
<1> QED
  BY <1>2, <1>3, <1>4, <1>5, <1>6, <1>7, <1>8 DEF Next

\* Under the fallback, with any number of threads, workers and deaths, a lock file
\* that is there belongs to a process in its take or its run, or awaits the sweep of
\* the thread whose worker it names; the two leftovers a spec of refusal accepts
\* aside (terminate, sweep_with, names_the_reaped_worker).
THEOREM EveryFileHasAnOwner == ~PidReuse => (Spec => []FileHasAnOwner)
<1> SUFFICES ASSUME ~PidReuse PROVE Spec => []FileHasAnOwner
  OBVIOUS
<1> QED
  BY LockHolds, OwnerInit, OwnerStep, PTL DEF Spec
=============================================================================
