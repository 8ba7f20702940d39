-------------------------- MODULE Scheduler_proofs --------------------------
(***************************************************************************)
(* Theorems of Scheduler, for every set of intervals and every bound: the  *)
(* state is well typed, no slot is spent twice while the wall clock is not *)
(* set back, and no step back arms a deadline out of reach.                *)
(***************************************************************************)
EXTENDS Scheduler, TLAPS

\* The grid of schedule.rs: advancing a deadline by whole intervals ends after
\* now and at most one interval after it, unless it was already later.
LEMMA GridAdvances ==
  ASSUME NEW next \in Int, NEW now \in Int, NEW i \in Int
  PROVE  /\ OnGridAfter(next, now, i) \in Int
         /\ OnGridAfter(next, now, i) > now
         /\ next <= now => OnGridAfter(next, now, i) <= now + StepOf(i)
<1> DEFINE s == StepOf(i)
           q == (now - next) \div s
<1>1. s \in Int /\ s >= 1
  BY DEF StepOf
<1>2. CASE next > now
  BY <1>2 DEF OnGridAfter
<1>3. CASE next <= now
  <2>1. q \in Int /\ s * q <= now - next /\ now - next < s * q + s
    BY <1>1
  <2>2. (q + 1) * s = s * q + s
    BY <1>1, <2>1
  <2>3. OnGridAfter(next, now, i) = next + (q + 1) * s
    BY <1>3 DEF OnGridAfter
  <2> QED
    BY <1>1, <1>3, <2>1, <2>2, <2>3
<1> QED
  BY <1>2, <1>3

\* What one tick may decide: a deadline it moves lies after the moment it looked
\* at, by an interval at most, unless the tick leaves it alone.
LEMMA TickMovesForward ==
  ASSUME NEW wasWall \in Int, NEW wasMono \in Int, NEW isWall \in Int, NEW isMono \in Int,
         NEW next \in Int, NEW i \in Int
  PROVE  LET t == Tick([wall |-> wasWall, mono |-> wasMono], [wall |-> isWall, mono |-> isMono],
                       next, i)
         IN  /\ t.kind \in {"due", "jump", "wait"} /\ t.next \in Int
             /\ t.kind # "wait" => t.next > isWall /\ t.next <= isWall + StepOf(i)
<1> DEFINE was == [wall |-> wasWall, mono |-> wasMono]
           is  == [wall |-> isWall, mono |-> isMono]
<1>1. StepOf(i) \in Int /\ StepOf(i) >= 1
  BY DEF StepOf
<1>2. CASE isWall >= next
  <2>1. Tick(was, is, next, i) = [kind |-> "due", next |-> OnGridAfter(next, isWall, i)]
    BY <1>2 DEF Tick
  <2>2. /\ OnGridAfter(next, isWall, i) \in Int /\ OnGridAfter(next, isWall, i) > isWall
        /\ OnGridAfter(next, isWall, i) <= isWall + StepOf(i)
    BY <1>2, GridAdvances
  <2> QED
    BY <2>1, <2>2
<1>3. CASE isWall < next
  <2>1. RearmedFrom(isWall, i) \in Int /\ RearmedFrom(isWall, i) > isWall
        /\ RearmedFrom(isWall, i) <= isWall + StepOf(i)
    BY <1>1 DEF RearmedFrom
  <2>2. \/ Tick(was, is, next, i) = [kind |-> "jump", next |-> RearmedFrom(isWall, i)]
        \/ Tick(was, is, next, i) = [kind |-> "wait", next |-> next]
    BY <1>3 DEF Tick
  <2> QED
    BY <2>1, <2>2
<1> QED
  BY <1>2, <1>3

-----------------------------------------------------------------------------
(* Type correctness. *)

LEMMA IntervalsAreInt == \A i \in Intervals : i \in Int /\ i >= 1 /\ StepOf(i) = i
  BY SchedulerAssumption DEF StepOf

LEMMA AnIntervalLater ==
  ASSUME NEW w \in Nat, NEW i \in Intervals
  PROVE  /\ w + i \in Int /\ w + i > w
         /\ RearmedFrom(w, i) \in Int /\ RearmedFrom(w, i) > w
  BY IntervalsAreInt DEF RearmedFrom

LEMMA TypeInit == Init => TypeOK
<1> SUFFICES ASSUME Init PROVE TypeOK
  OBVIOUS
<1> USE SchedulerAssumption DEF Init
<1>1. wall + interval \in Int
  BY IntervalsAreInt
<1>2. nextAt \in Int \cup {NoDeadline} /\ (~paused => nextAt # NoDeadline)
  BY <1>1
<1> QED
  BY <1>2 DEF TypeOK

LEMMA TypeStep == TypeOK /\ [Next]_vars => TypeOK'
<1> SUFFICES ASSUME TypeOK, [Next]_vars PROVE TypeOK'
  OBVIOUS
<1> USE SchedulerAssumption DEF TypeOK, clocks, thread
<1>1. CASE TimePasses
  BY <1>1 DEF TimePasses
<1>2. CASE WallForward
  BY <1>2 DEF WallForward
<1>3. CASE WallBack
  BY <1>3 DEF WallBack
<1>4. CASE Look
  <2>1. CASE paused \/ nextAt = NoDeadline
    BY <1>4, <2>1 DEF Look, NothingArmed
  <2>2. CASE ~(paused \/ nextAt = NoDeadline)
    <3> DEFINE t == Tick(Previous, Current, nextAt, interval)
    <3>1. t.kind \in {"due", "jump", "wait"} /\ t.next \in Int
      BY <2>2, TickMovesForward DEF Previous, Current
    <3>2. /\ pc' = IF t.kind = "wait" THEN "asleep" ELSE t.kind
          /\ decided' = IF t.kind = "wait" THEN decided ELSE t.next
      BY <1>4, <2>2 DEF Look, NothingArmed
    <3>3. pc' \in {"asleep", "due", "jump", "claim", "rotation"} /\ decided' \in Int
      BY <3>1, <3>2
    <3> QED
      BY <1>4, <3>3 DEF Look, NothingArmed
  <2> QED
    BY <2>1, <2>2
<1>5. CASE RecordClockJump
  BY <1>5 DEF RecordClockJump
<1>6. CASE SpendSlot
  BY <1>6 DEF SpendSlot
<1>7. CASE StartRotation
  BY <1>7 DEF StartRotation
<1>8. CASE SkipRotation
  BY <1>8 DEF SkipRotation
<1>9. CASE RotationEnds
  BY <1>9 DEF RotationEnds
<1>10. CASE ClientStarts
  BY <1>10 DEF ClientStarts
<1>11. CASE ClientEnds
  BY <1>11 DEF ClientEnds
<1>12. CASE Pause
  BY <1>12 DEF Pause
<1>13. CASE Resume
  <2>1. nextAt' \in Int
    BY <1>13, AnIntervalLater DEF Resume
  <2> QED
    BY <1>13, <2>1 DEF Resume
<1>14. CASE Restart
  BY <1>14 DEF Restart
<1>15. CASE UNCHANGED vars
  BY <1>15 DEF vars
<1> QED
  BY <1>1, <1>2, <1>3, <1>4, <1>5, <1>6, <1>7, <1>8, <1>9, <1>10, <1>11, <1>12, <1>13, <1>14,
     <1>15 DEF Next

\* The state of the scheduler is well typed in every reachable state, and a
\* schedule that is not paused always has a deadline (set_paused, load).
THEOREM TypeCorrect == Spec => []TypeOK
<1> QED
  BY TypeInit, TypeStep, PTL DEF Spec

-----------------------------------------------------------------------------
(* A slot is spent once. *)

\* NoReplay is about the moment after a slot is spent; what makes it inductive is
\* what the thread carries across the release of the lock: a deadline decided on
\* lies after the observation it was decided at, and the last slot was spent at
\* an observation, none of which is later than the clock while nothing sets it
\* back.
ReplayInv ==
  /\ pc \in {"due", "jump"} => decided > seen
  /\ backSteps = 0 => lastFire <= seen /\ seen <= wall
  /\ NoReplay

LEMMA ReplayInit == Init => ReplayInv
<1> SUFFICES ASSUME Init PROVE ReplayInv
  OBVIOUS
<1>1. nextAt \in Int => nextAt > -1
  BY IntervalsAreInt, SchedulerAssumption DEF Init
<1> QED
  BY <1>1, TypeInit DEF Init, ReplayInv, NoReplay, TypeOK

LEMMA ReplayStep == TypeOK /\ ReplayInv /\ [Next]_vars => ReplayInv'
<1> SUFFICES ASSUME TypeOK, ReplayInv, [Next]_vars PROVE ReplayInv'
  OBVIOUS
<1> USE SchedulerAssumption DEF TypeOK, ReplayInv, NoReplay, clocks, thread
<1>1. CASE TimePasses
  BY <1>1 DEF TimePasses
<1>2. CASE WallForward
  BY <1>2 DEF WallForward
<1>3. CASE WallBack
  BY <1>3 DEF WallBack
<1>4. CASE Look
  <2>1. CASE paused \/ nextAt = NoDeadline
    BY <1>4, <2>1 DEF Look, NothingArmed
  <2>2. CASE ~(paused \/ nextAt = NoDeadline)
    <3> DEFINE t == Tick(Previous, Current, nextAt, interval)
    <3>1. t.kind \in {"due", "jump", "wait"} /\ t.next \in Int
          /\ (t.kind # "wait" => t.next > wall)
      BY <2>2, TickMovesForward DEF Previous, Current
    <3>2. /\ pc' = IF t.kind = "wait" THEN "asleep" ELSE t.kind
          /\ decided' = IF t.kind = "wait" THEN decided ELSE t.next
      BY <1>4, <2>2 DEF Look, NothingArmed
    <3>3. pc' \in {"due", "jump"} => decided' > wall
      BY <3>1, <3>2
    <3> QED
      BY <1>4, <3>3 DEF Look, NothingArmed
  <2> QED
    BY <2>1, <2>2
<1>5. CASE RecordClockJump
  BY <1>5 DEF RecordClockJump
<1>6. CASE SpendSlot
  BY <1>6 DEF SpendSlot
<1>7. CASE StartRotation
  BY <1>7 DEF StartRotation
<1>8. CASE SkipRotation
  BY <1>8 DEF SkipRotation
<1>9. CASE RotationEnds
  BY <1>9 DEF RotationEnds
<1>10. CASE ClientStarts
  BY <1>10 DEF ClientStarts
<1>11. CASE ClientEnds
  BY <1>11 DEF ClientEnds
<1>12. CASE Pause
  BY <1>12 DEF Pause
<1>13. CASE Resume
  <2>1. nextAt' \in Int /\ nextAt' > wall
    BY <1>13, AnIntervalLater DEF Resume
  <2> QED
    BY <1>13, <2>1 DEF Resume
<1>14. CASE Restart
  <2>1. nextAt' = nextAt \/ nextAt' = wall + interval'
    BY <1>14 DEF Restart
  <2>2. wall' = wall /\ seen' = wall /\ lastFire' = lastFire /\ pc' = "asleep"
        /\ backSteps' = backSteps /\ interval' \in Intervals
    BY <1>14 DEF Restart
  <2>3. wall + interval' \in Int /\ wall + interval' > wall
    BY <2>2, AnIntervalLater
  <2>4. NoReplay'
    <3>1. CASE nextAt' = nextAt
      BY <2>2, <3>1
    <3>2. CASE nextAt' = wall + interval'
      <4>1. nextAt' \in Int /\ nextAt' > wall
        BY <2>3, <3>2
      <4>2. backSteps' = 0 => lastFire' <= wall
        BY <2>2
      <4> QED
        BY <2>2, <4>1, <4>2
    <3> QED
      BY <2>1, <3>1, <3>2
  <2>5. backSteps' = 0 => lastFire' <= seen' /\ seen' <= wall'
    BY <2>2
  <2>6. ~(pc' \in {"due", "jump"})
    BY <2>2
  <2> QED
    BY <2>4, <2>5, <2>6
<1>15. CASE UNCHANGED vars
  BY <1>15 DEF vars
<1> QED
  BY <1>1, <1>2, <1>3, <1>4, <1>5, <1>6, <1>7, <1>8, <1>9, <1>10, <1>11, <1>12, <1>13, <1>14,
     <1>15 DEF Next

\* While the wall clock is never set back, the deadline in force always lies after
\* the moment the last slot was spent at, whatever the intervals, the pauses, the
\* sleeps and the restarts: no slot is spent twice (scheduler.rs step).
THEOREM SlotSpentOnce == Spec => []NoReplay
<1>1. Spec => []ReplayInv
  BY TypeCorrect, ReplayInit, ReplayStep, PTL DEF Spec
<1>2. ReplayInv => NoReplay
  BY DEF ReplayInv
<1> QED
  BY <1>1, <1>2, PTL

-----------------------------------------------------------------------------
(* The schedule does not stall. *)

\* How far ahead of the clock a deadline may lie after b steps back: each of them
\* may take two intervals without counting as a jump.
Far(b) == MaxInterval * (1 + 2 * b)

\* The same for a step back not observed yet, which its own two intervals are
\* not granted to: they are what the next observation will allow it.
Ahead == IF backSteps = 0 THEN MaxInterval ELSE Far(backSteps - 1)

\* The largest interval exists, and no interval exceeds it.
LEMMA MaxIntervalBounds == MaxInterval \in Nat \ {0} /\ \A i \in Intervals : i <= MaxInterval
<1>1. PICK m \in Intervals : \A j \in Intervals : j <= m
  BY LargestInterval
<1>2. MaxInterval \in Intervals /\ \A j \in Intervals : j <= MaxInterval
  BY <1>1 DEF MaxInterval
<1> QED
  BY <1>2, SchedulerAssumption

\* Far grows by two intervals with each step back, from one interval.
LEMMA FarGrows ==
  ASSUME NEW b \in Nat
  PROVE  Far(b) \in Nat /\ Far(b) >= MaxInterval /\ Far(b + 1) = Far(b) + 2 * MaxInterval
<1>1. MaxInterval \in Nat
  BY MaxIntervalBounds
<1>2. MaxInterval * b \in Nat
  BY <1>1
<1>3. Far(b) = MaxInterval + 2 * (MaxInterval * b)
  BY <1>1 DEF Far
<1>4. Far(b + 1) = MaxInterval + 2 * (MaxInterval * b) + 2 * MaxInterval
  BY <1>1 DEF Far
<1> QED
  BY <1>1, <1>2, <1>3, <1>4

\* The two reaches are numbers, one interval at least, and an observation closes
\* the gap between them with the two intervals of the step it did not see.
LEMMA AheadIsBelowFar ==
  ASSUME TypeOK
  PROVE  /\ Ahead \in Nat /\ Far(backSteps) \in Nat
         /\ Ahead >= MaxInterval /\ Far(backSteps) >= Ahead
         /\ backSteps > 0 => Far(backSteps) = Ahead + 2 * MaxInterval
<1>1. MaxInterval \in Nat /\ backSteps \in Nat
  BY MaxIntervalBounds DEF TypeOK
<1>2. CASE backSteps = 0
  BY <1>1, <1>2, FarGrows DEF Ahead
<1>3. CASE backSteps > 0
  <2>1. backSteps - 1 \in Nat /\ (backSteps - 1) + 1 = backSteps
    BY <1>1, <1>3
  <2>2. Far(backSteps - 1) \in Nat /\ Far(backSteps - 1) >= MaxInterval
        /\ Far(backSteps) = Far(backSteps - 1) + 2 * MaxInterval
    BY <2>1, FarGrows
  <2> QED
    BY <1>1, <1>3, <2>2 DEF Ahead
<1> QED
  BY <1>1, <1>2, <1>3

\* A tick that only waits has seen no passed deadline and no drift of more than
\* two intervals, either way.
LEMMA WaitSawNoJump ==
  ASSUME TypeOK, ~NothingArmed,
         Tick(Previous, Current, nextAt, interval).kind = "wait"
  PROVE  wall < nextAt /\ wall - seen - mono >= -(2 * interval)
<1>1. wall \in Nat /\ mono \in Nat /\ seen \in Nat /\ interval \in Int /\ nextAt \in Int
  BY IntervalsAreInt DEF TypeOK, NothingArmed
<1>2. Drift(Previous, Current) = wall - seen - mono
  BY <1>1 DEF Drift, Previous, Current
<1>3. Current.wall = wall
  BY DEF Current
<1>4. wall < nextAt
  BY <1>1, <1>3 DEF Tick
<1>5. ~JumpBeyond(Drift(Previous, Current), 2 * interval)
  BY <1>1, <1>3, <1>4 DEF Tick
<1> QED
  BY <1>1, <1>2, <1>4, <1>5 DEF JumpBeyond

\* StallBounded speaks of a thread that sleeps and has observed every step back.
\* What makes it inductive: what the thread decided lies an interval at most after
\* what it saw; a clock with no unseen step back has run at least as far as the
\* monotonic one; and a step back not observed yet leaves the deadline within
\* reach of the clock, or of the clock the scheduler would have seen without it.
StallInv ==
  /\ pc \in {"due", "jump"} => decided <= seen + MaxInterval
  /\ unseenStep = "no" \/ backSteps = 0 => wall >= seen + mono
  /\ (~paused /\ pc # "jump" /\ unseenStep = "no") => nextAt <= wall + Far(backSteps)
  /\ (~paused /\ pc # "jump" /\ unseenStep = "yes")
       => nextAt <= wall + Ahead \/ nextAt <= seen + mono + Ahead

LEMMA StallInit == Init => StallInv
<1> SUFFICES ASSUME Init PROVE StallInv
  OBVIOUS
<1>1. wall \in Nat /\ seen = wall /\ mono = 0 /\ backSteps = 0 /\ pc = "asleep"
      /\ unseenStep \in {"no", "lost"}
  BY SchedulerAssumption DEF Init
<1>2. ASSUME ~paused, unseenStep = "no" PROVE nextAt <= wall + Far(backSteps)
  <2>1. nextAt \in Int /\ nextAt # NoDeadline
    BY <1>2, TypeInit DEF TypeOK
  <2>2. PICK i \in Intervals : nextAt <= wall + i
    BY <1>1, <1>2, <2>1, IntervalsAreInt DEF Init, TooFar
  <2>3. i <= MaxInterval /\ MaxInterval \in Nat /\ i \in Int
    BY MaxIntervalBounds, IntervalsAreInt
  <2>4. Far(backSteps) \in Nat /\ Far(backSteps) >= MaxInterval
    BY <1>1, FarGrows
  <2> QED
    BY <1>1, <2>1, <2>2, <2>3, <2>4
<1> QED
  BY <1>1, <1>2 DEF StallInv

LEMMA StallStep == TypeOK /\ TypeOK' /\ StallInv /\ [Next]_vars => StallInv'
<1> SUFFICES ASSUME TypeOK, TypeOK', StallInv, [Next]_vars PROVE StallInv'
  OBVIOUS
<1> DEFINE F == Far(backSteps)
           M == MaxInterval
<1>1. /\ M \in Nat /\ Ahead \in Nat /\ F \in Nat /\ Ahead >= M /\ F >= Ahead
      /\ backSteps > 0 => F = Ahead + 2 * M
  BY MaxIntervalBounds, AheadIsBelowFar
<1>2. /\ wall \in Nat /\ mono \in Nat /\ seen \in Nat /\ decided \in Int /\ backSteps \in Nat
      /\ interval \in Int /\ interval <= M
      /\ ~paused => nextAt \in Int
      /\ unseenStep \in {"no", "yes", "lost"}
  BY MaxIntervalBounds, IntervalsAreInt DEF TypeOK
<1>3. ASSUME UNCHANGED backSteps PROVE Ahead' = Ahead /\ Far(backSteps)' = F
  BY <1>3 DEF Ahead, Far
<1> USE DEF StallInv, clocks, thread
<1> HIDE DEF F, M
<1>4. CASE TimePasses
  BY <1>1, <1>2, <1>3, <1>4 DEF TimePasses
<1>5. CASE WallForward
  BY <1>1, <1>2, <1>3, <1>5 DEF WallForward
\* A step back adds two intervals to what is allowed, and an unseen one leaves
\* the reach it found: the clock the scheduler would have seen is seen + mono.
<1>6. CASE WallBack
  <2>1. /\ wall' \in Nat /\ wall' < wall /\ backSteps' = backSteps + 1
        /\ UNCHANGED <<mono, seen, paused, nextAt, pc, decided>>
    BY <1>2, <1>6, SchedulerAssumption DEF WallBack, TypeOK
  <2>2. unseenStep' = IF unseenStep = "lost" \/ wall - seen - mono > 0 THEN "lost" ELSE "yes"
    BY <1>2, <1>6 DEF WallBack, Drift, Previous, Current
  <2>3. Ahead' = F
    BY <1>2, <2>1 DEF Ahead, F, Far
  <2>4. ASSUME ~paused', pc' # "jump", unseenStep' = "yes"
        PROVE  nextAt' <= seen' + mono' + Ahead'
    <3>1. unseenStep \in {"no", "yes"} /\ wall <= seen + mono
      BY <1>2, <2>2, <2>4
    <3>2. nextAt <= wall + F \/ nextAt <= wall + Ahead \/ nextAt <= seen + mono + Ahead
      BY <2>1, <2>4, <3>1 DEF F
    <3> QED
      BY <1>1, <1>2, <2>1, <2>3, <2>4, <3>1, <3>2
  <2>5. unseenStep' # "no" /\ backSteps' # 0
    BY <1>2, <2>1, <2>2
  <2> QED
    BY <2>1, <2>4, <2>5
<1>7. CASE Look
  <2>1. /\ seen' = wall /\ mono' = 0 /\ unseenStep' = IF unseenStep = "lost" THEN "lost" ELSE "no"
        /\ UNCHANGED <<wall, backSteps, paused, nextAt, interval>>
    BY <1>7 DEF Look
  <2>2. Far(backSteps)' = F
    BY <1>3, <2>1
  <2>3. pc = "asleep" /\ unseenStep' \in {"no", "lost"} /\ wall' >= seen' + mono'
    BY <1>2, <1>7, <2>1 DEF Look
  <2>4. CASE NothingArmed
    <3>1. pc' = "asleep" /\ paused'
      BY <1>7, <2>1, <2>4 DEF Look, NothingArmed, TypeOK
    <3> QED
      BY <2>1, <2>3, <3>1
  <2>5. CASE ~NothingArmed
    <3> DEFINE t == Tick(Previous, Current, nextAt, interval)
    <3>1. /\ pc' = IF t.kind = "wait" THEN "asleep" ELSE t.kind
          /\ decided' = IF t.kind = "wait" THEN decided ELSE t.next
      BY <1>7, <2>5 DEF Look
    <3>2. nextAt \in Int /\ interval \in Intervals /\ ~paused
      BY <2>5 DEF NothingArmed, TypeOK
    <3>3. t.kind \in {"due", "jump", "wait"} /\ t.next \in Int
          /\ (t.kind # "wait" => t.next <= wall + StepOf(interval))
      BY <1>2, <3>2, TickMovesForward DEF Previous, Current
    <3>4. pc' \in {"due", "jump"} => decided' <= seen' + MaxInterval
      BY <1>1, <1>2, <2>1, <3>1, <3>2, <3>3, IntervalsAreInt DEF M
    <3>5. CASE t.kind = "wait"
      <4>1. wall - seen - mono >= -(2 * interval)
        BY <2>5, <3>5, WaitSawNoJump
      <4>2. ASSUME unseenStep' = "no" PROVE nextAt' <= wall' + F
        <5>1. CASE unseenStep = "no"
          BY <2>1, <2>3, <3>2, <5>1 DEF F
        <5>2. CASE unseenStep = "yes" /\ backSteps = 0
          BY <1>1, <1>2, <2>1, <2>3, <3>2, <5>2
        <5>3. CASE unseenStep = "yes" /\ backSteps > 0
          BY <1>1, <1>2, <2>1, <2>3, <3>2, <4>1, <5>3
        <5> QED
          BY <1>2, <2>1, <4>2, <5>1, <5>2, <5>3
      <4> QED
        BY <2>1, <2>2, <2>3, <3>4, <4>2
    <3>6. CASE t.kind = "due"
      <4>1. nextAt <= wall
        BY <1>2, <3>2, <3>6 DEF Tick, Current
      <4>2. nextAt' <= wall' + F
        BY <1>1, <1>2, <2>1, <3>2, <4>1
      <4> QED
        BY <2>2, <2>3, <3>4, <4>2
    <3>7. CASE t.kind = "jump"
      BY <2>3, <3>1, <3>4, <3>7
    <3> QED
      BY <3>3, <3>5, <3>6, <3>7
  <2> QED
    BY <2>4, <2>5
\* What the thread decided reaches an interval past what it saw, so it lies within
\* reach of the clock it did see, set back or not.
<1>8. CASE RecordClockJump \/ SpendSlot
  <2>1. /\ nextAt' = decided /\ pc' \in {"asleep", "claim"} /\ nextAt' <= seen + M
        /\ unseenStep' = IF unseenStep = "lost" THEN "yes" ELSE unseenStep
        /\ UNCHANGED <<wall, mono, seen, backSteps, paused>>
    BY <1>8 DEF RecordClockJump, SpendSlot, M
  <2>2. nextAt' \in Int
    BY <1>2, <2>1
  <2> QED
    BY <1>1, <1>2, <1>3, <2>1, <2>2
<1>9. CASE StartRotation \/ SkipRotation \/ RotationEnds
  <2>1. /\ pc \in {"claim", "rotation"} /\ pc' \in {"rotation", "asleep"}
        /\ UNCHANGED <<clocks, paused, nextAt, seen, decided, unseenStep>>
    BY <1>9 DEF StartRotation, SkipRotation, RotationEnds
  <2> QED
    BY <1>3, <2>1
<1>10. CASE ClientStarts \/ ClientEnds
  <2>1. UNCHANGED <<clocks, thread, paused, nextAt, unseenStep>>
    BY <1>10 DEF ClientStarts, ClientEnds
  <2> QED
    BY <1>3, <2>1
<1>11. CASE Pause
  BY <1>11 DEF Pause
<1>12. CASE Resume
  <2>1. /\ UNCHANGED <<clocks, thread>>
        /\ unseenStep' = IF unseenStep = "lost" THEN "yes" ELSE unseenStep
    BY <1>12 DEF Resume
  <2>2. interval \in Intervals /\ nextAt' = wall + interval
    BY <1>12, IntervalsAreInt DEF Resume, RearmedFrom, TypeOK
  <2>3. nextAt' \in Int /\ nextAt' <= wall + M
    BY <1>1, <1>2, <2>2
  <2> QED
    BY <1>1, <1>2, <1>3, <2>1, <2>3
<1>13. CASE Restart
  <2>1. /\ mono' = 0 /\ seen' = wall /\ pc' = "asleep" /\ UNCHANGED <<wall, paused, backSteps>>
        /\ unseenStep' = IF unseenStep = "yes" \/ pc = "jump" THEN "lost" ELSE unseenStep
        /\ nextAt' = IF nextAt = NoDeadline /\ ~paused THEN wall + interval' ELSE nextAt
    BY <1>13 DEF Restart
  <2>2. ~paused => nextAt' = nextAt
    BY <2>1 DEF TypeOK
  <2> QED
    BY <1>2, <1>3, <2>1, <2>2
<1>14. CASE UNCHANGED vars
  BY <1>3, <1>14 DEF vars
<1> QED
  BY <1>4, <1>5, <1>6, <1>7, <1>8, <1>9, <1>10, <1>11, <1>12, <1>13, <1>14 DEF Next

\* Once the scheduler has observed the clock, the deadline of a schedule that is
\* not paused is at most one interval away, and two more for each time the clock
\* was set back, whatever the intervals, the clients and the restarts: a backward
\* jump never stalls the schedule for its own length (schedule.rs tick).
THEOREM ScheduleNeverStalls == Spec => []StallBounded
<1>1. Spec => []StallInv
  BY TypeCorrect, StallInit, StallStep, PTL DEF Spec
<1>2. TypeOK /\ StallInv => StallBounded
  <2> SUFFICES ASSUME TypeOK, StallInv, unseenStep = "no", pc = "asleep", ~paused
               PROVE  nextAt - wall <= Far(backSteps)
    BY DEF StallBounded, Far
  <2> QED
    BY FarGrows, SchedulerAssumption DEF TypeOK, StallInv
<1> QED
  BY TypeCorrect, <1>1, <1>2, PTL
-----------------------------------------------------------------------------
(* The grid. *)

\* The closed form of the advance is what the loop leaves, for any step.
LEMMA GridIsTheLoop ==
  ASSUME NEW next \in Int, NEW now \in Int, NEW i \in Int
  PROVE  LoopLeaves(next, now, StepOf(i), OnGridAfter(next, now, i))
<1> DEFINE s == StepOf(i)
           q == (now - next) \div s
<1>1. s \in Int /\ s >= 1
  BY DEF StepOf
<1>2. CASE next > now
  <2>1. OnGridAfter(next, now, i) = next + 0 * s /\ next + 0 * s > now
    BY <1>1, <1>2 DEF OnGridAfter
  <2>2. \A m \in 0 .. 0 - 1 : FALSE
    OBVIOUS
  <2>3. 0 \in 0 .. IF next <= now THEN now - next + 1 ELSE 0
    BY <1>2
  <2> QED
    BY <2>1, <2>2, <2>3, Zenon DEF LoopLeaves
<1>3. CASE next <= now
  <2>1. q \in Int /\ s * q <= now - next /\ now - next < s * q + s
    BY <1>1
  <2>2. OnGridAfter(next, now, i) = next + (q + 1) * s
    BY <1>3 DEF OnGridAfter
  <2> HIDE DEF s, q
  <2>3. (q + 1) * s = s * q + s
    BY <1>1, <2>1
  <2>4. q >= 0
    <3>1. q <= -1 => s * q <= s * (-1)
      BY <1>1, <2>1
    <3> QED
      BY <1>1, <1>3, <2>1, <3>1
  <2>5. q <= now - next
    <3>1. q <= s * q
      BY <1>1, <2>1, <2>4
    <3> QED
      BY <1>1, <2>1, <3>1
  <2>6. ASSUME NEW m \in 0 .. (q + 1) - 1 PROVE next + m * s <= now
    <3>1. m * s <= s * q
      BY <1>1, <2>1, <2>6
    <3> QED
      BY <1>1, <2>1, <2>6, <3>1
  <2>7. q + 1 \in 0 .. IF next <= now THEN now - next + 1 ELSE 0
    BY <1>3, <2>1, <2>4, <2>5
  <2>8. next + (q + 1) * s > now
    BY <1>1, <2>1, <2>3
  <2> QED
    BY <2>2, <2>6, <2>7, <2>8, Zenon DEF LoopLeaves, s
<1> QED
  BY <1>2, <1>3

\* The deadline a slot leaves is the one the loop leaves, at every moment and for every
\* legal interval and zero, for every set of intervals and every clock (schedule.rs,
\* on_grid_after).
THEOREM GridIsKept == Spec => []GridMatchesLoop
<1>1. TypeOK => GridMatchesLoop
  <2>1. \A i \in Intervals \cup {0} : i \in Int
    BY SchedulerAssumption
  <2> QED
    BY <2>1, GridIsTheLoop DEF TypeOK, GridMatchesLoop
<1> QED
  BY TypeCorrect, <1>1, PTL
=============================================================================
