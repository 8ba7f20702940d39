--------------------------- MODULE Rotation_proofs ---------------------------
(***************************************************************************)
(* Theorems of Rotation, for every set of clients and images, every bound  *)
(* of the history and any number of slots.                                 *)
(***************************************************************************)
EXTENDS Rotation, WellFoundedInduction, TLAPS

-----------------------------------------------------------------------------
(* The history ring. *)

\* A push puts the entry in front and keeps the ring inside its bound.
LEMMA PushKeepsBound ==
  ASSUME NEW h \in Seq(Images), NEW i \in Images, Len(h) <= HistoryEntries
  PROVE  /\ Push(h, i) \in Seq(Images)
         /\ Len(Push(h, i)) <= HistoryEntries
         /\ Push(h, i) # <<>> /\ Head(Push(h, i)) = i
<1> DEFINE longer == <<i>> \o h
           kept   == IF Len(h) < HistoryEntries THEN Len(h) + 1 ELSE HistoryEntries
<1>1. longer \in Seq(Images) /\ Len(longer) = Len(h) + 1 /\ longer[1] = i
  OBVIOUS
<1>2. kept \in 1..Len(longer) /\ kept <= HistoryEntries
  BY <1>1, RotationAssumption
<1>3. Push(h, i) = SubSeq(longer, 1, kept)
  BY DEF Push
<1>4. Push(h, i) \in Seq(Images) /\ Len(Push(h, i)) = kept /\ Push(h, i)[1] = longer[1]
  <2> HIDE DEF longer, kept
  <2> QED
    BY <1>1, <1>2, <1>3
<1> QED
  BY <1>1, <1>2, <1>4

-----------------------------------------------------------------------------
(* Type correctness, together with what a worker that has set an image left. *)

\* A worker at its setter has chosen an image, and past it the screen shows that
\* image: while the worker is there only a stray tool can have changed it.
WorkerKnows ==
  \A t \in Threads :
    /\ worker[t] \in {"setting", "set", "ok"} => picked[t] \in Images
    /\ worker[t] \in {"set", "ok"} /\ ~stray => shown = picked[t]

LEMMA TypeInit == Init => TypeOK
<1> SUFFICES ASSUME Init PROVE TypeOK
  OBVIOUS
<1>1. want \in [Threads -> Request]
  BY DEF Init, Request, Anything
<1>2. orphans \subseteq Nat \X Images
  BY DEF Init
<1>3. history \in Seq(Images) /\ Len(history) <= HistoryEntries
  BY RotationAssumption DEF Init
<1>4. run \in [Threads -> Nat] /\ picked \in [Threads -> Images \cup {NoImage}]
  BY DEF Init, NoRun
<1>5. shown \in Images \cup {NoImage} /\ stray \in BOOLEAN /\ current \in Images \cup {NoImage}
  BY DEF Init
<1>6. slot \in Nat \ {0} /\ running \in Nat /\ rotationCount \in Nat
  BY DEF Init, NoRun
<1> QED
  BY <1>1, <1>2, <1>3, <1>4, <1>5, <1>6 DEF Init, TypeOK

LEMMA AskTyped ==
  ASSUME TypeOK, NEW t \in Threads, NEW request \in Request, Ask(t, request)
  PROVE  TypeOK'
  BY DEF TypeOK, Ask, state, screen

LEMMA TypeStep == TypeOK /\ WorkerKnows /\ [Next]_vars => TypeOK'
<1> SUFFICES ASSUME TypeOK, WorkerKnows, [Next]_vars PROVE TypeOK'
  OBVIOUS
<1>1. Scheduler \in Threads /\ Clients \subseteq Threads /\ Anything \in Request
  BY DEF Threads, Anything, Request
<1>2. CASE SlotDue
  BY <1>1, <1>2, AskTyped DEF SlotDue
<1>3. ASSUME NEW c \in Clients, ClientRequest(c) PROVE TypeOK'
  <2>1. CASE AskNext(c)
    BY <1>1, <2>1, AskTyped DEF AskNext
  <2>2. CASE AskSet(c)
    BY <1>1, <2>2, AskTyped DEF AskSet, Request
  <2>3. CASE AskPrev(c)
    <3>1. PICK k \in DOMAIN history : Ask(c, [via |-> "prev", target |-> history[k]])
      BY <2>3 DEF AskPrev
    <3>2. [via |-> "prev", target |-> history[k]] \in Request
      BY DEF TypeOK, Request
    <3> QED
      BY <1>1, <3>1, <3>2, AskTyped
  <2>4. CASE ConfigCheck(c)
    BY <2>4 DEF ConfigCheck, TypeOK, screen
  <2>5. CASE ReadOnly(c)
    BY <2>5 DEF ReadOnly, TypeOK, vars, state, screen
  <2> QED
    BY <1>3, <2>1, <2>2, <2>3, <2>4, <2>5 DEF ClientRequest
<1>4. ASSUME NEW t \in Threads, ThreadStep(t) PROVE TypeOK'
  <2> USE <1>1 DEF TypeOK, state, screen, NoRun
  <2>1. CASE Start(t)
    BY <2>1 DEF Start
  <2>2. CASE Refuse(t)
    BY <2>2 DEF Refuse
  <2>3. CASE WriteQueued(t)
    BY <2>3 DEF WriteQueued
  <2>4. CASE ClientGone(t)
    BY <2>4 DEF ClientGone
  <2>5. CASE Reconfigure(t)
    BY <2>5 DEF Reconfigure
  <2>6. CASE Spawn(t)
    BY <2>6 DEF Spawn
  <2>7. CASE Deadline(t)
    BY <2>7 DEF Deadline
  <2>8. CASE Terminate(t)
    BY <2>8 DEF Terminate, LeaveTool, WorkerKnows
  <2>9. CASE RecordSuccess(t)
    <3>1. picked[t] \in Images
      BY <2>9 DEF RecordSuccess, WorkerKnows
    <3>2. history' \in Seq(Images) /\ Len(history') <= HistoryEntries
      BY <2>9, <3>1, PushKeepsBound DEF RecordSuccess
    <3> QED
      BY <2>9, <3>1, <3>2 DEF RecordSuccess, Forget
  <2>10. CASE RecordFailure(t)
    BY <2>10 DEF RecordFailure, Forget
  <2>11. CASE TakeSweep(t)
    BY <2>11 DEF TakeSweep
  <2>12. CASE DeferSweep(t)
    BY <2>12 DEF DeferSweep
  <2>13. CASE EndSweep(t)
    BY <2>13 DEF EndSweep
  <2> QED
    BY <1>4, <2>1, <2>2, <2>3, <2>4, <2>5, <2>6, <2>7, <2>8, <2>9, <2>10, <2>11, <2>12, <2>13
       DEF ThreadStep
<1>5. ASSUME NEW t \in Threads, ProcessStep(t) PROVE TypeOK'
  <2> USE <1>1 DEF TypeOK, state, screen, WorkerStep
  <2>1. CASE WorkerTakesLock(t)
    BY <2>1 DEF WorkerTakesLock
  <2>2. CASE WorkerBusy(t)
    BY <2>2 DEF WorkerBusy
  <2>3. CASE WorkerFails(t)
    BY <2>3 DEF WorkerFails, LeaveTool, WorkerKnows
  <2>4. CASE WorkerSets(t)
    BY <2>4 DEF WorkerSets, WorkerKnows
  <2>5. CASE WorkerExits(t)
    BY <2>5 DEF WorkerExits
  <2>6. CASE WorkerDies(t)
    BY <2>6 DEF WorkerDies
  <2>7. CASE WorkerAims(t)
    <3>1. PICK i \in IF want[t].target = NoImage THEN Images ELSE {want[t].target} :
            picked' = [picked EXCEPT ![t] = i]
      BY <2>7 DEF WorkerAims
    <3>2. want[t] \in Request
      OBVIOUS
    <3>3. i \in Images
      BY <3>2 DEF Request
    <3> QED
      BY <2>7, <3>1, <3>3 DEF WorkerAims
  <2> QED
    BY <1>5, <2>1, <2>2, <2>3, <2>4, <2>5, <2>6, <2>7 DEF ProcessStep
<1>6. CASE OrphanSets
  BY <1>6 DEF TypeOK, OrphanSets, state
<1>7. CASE UNCHANGED vars
  BY <1>7 DEF TypeOK, vars, state, screen
<1> QED
  BY <1>2, <1>3, <1>4, <1>5, <1>6, <1>7 DEF Next

-----------------------------------------------------------------------------
(* One rotation at a time. *)

LEMMA SingleFlightInit == Init => SingleFlight
  BY DEF Init, SingleFlight, InRun

LEMMA SingleFlightStep == TypeOK /\ SingleFlight /\ [Next]_vars => SingleFlight'
<1> SUFFICES ASSUME TypeOK, SingleFlight, [Next]_vars PROVE SingleFlight'
  OBVIOUS
<1> USE DEF TypeOK, SingleFlight, InRun, state
<1>1. ASSUME NEW t \in Threads, NEW request, Ask(t, request) PROVE SingleFlight'
  BY <1>1 DEF Ask
<1>2. CASE SlotDue
  BY <1>1, <1>2 DEF SlotDue, Threads
<1>3. ASSUME NEW c \in Clients, ClientRequest(c) PROVE SingleFlight'
  <2>1. CASE ConfigCheck(c)
    BY <2>1 DEF ConfigCheck
  <2>2. CASE ReadOnly(c)
    BY <2>2 DEF ReadOnly, vars
  <2> QED
    BY <1>1, <1>3, <2>1, <2>2 DEF ClientRequest, AskNext, AskSet, AskPrev, Threads
<1>4. ASSUME NEW t \in Threads, ThreadStep(t) PROVE SingleFlight'
  <2>1. CASE Start(t)
    <3>1. ~InRun(t) /\ \A u \in Threads : ~InRun(u)
      BY <2>1 DEF Start
    <3>2. \A u \in Threads \ {t} : pc'[u] = pc[u] /\ run'[u] = run[u]
      BY <2>1 DEF Start
    <3>3. run'[t] = running' /\ running' # NoRun
      BY <2>1 DEF Start, NoRun
    <3>4. pc'[t] \in {"queued", "reload"} /\ worker' = worker
      BY <2>1 DEF Start
    <3> QED
      BY <3>1, <3>2, <3>3, <3>4
  <2>2. CASE Refuse(t)
    BY <2>2 DEF Refuse
  <2>3. CASE WriteQueued(t)
    BY <2>3 DEF WriteQueued
  <2>4. CASE ClientGone(t)
    BY <2>4 DEF ClientGone
  <2>5. CASE Reconfigure(t)
    BY <2>5 DEF Reconfigure
  <2>6. CASE Spawn(t)
    BY <2>6 DEF Spawn
  <2>7. CASE Deadline(t)
    BY <2>7 DEF Deadline
  <2>8. CASE Terminate(t)
    BY <2>8 DEF Terminate
  <2>9. CASE RecordSuccess(t)
    BY <2>9 DEF RecordSuccess, Forget
  <2>10. CASE RecordFailure(t)
    BY <2>10 DEF RecordFailure, Forget
  <2>11. CASE TakeSweep(t)
    BY <2>11 DEF TakeSweep
  <2>12. CASE DeferSweep(t)
    BY <2>12 DEF DeferSweep
  <2>13. CASE EndSweep(t)
    BY <2>13 DEF EndSweep
  <2> QED
    BY <1>4, <2>1, <2>2, <2>3, <2>4, <2>5, <2>6, <2>7, <2>8, <2>9, <2>10, <2>11, <2>12, <2>13
       DEF ThreadStep
<1>5. ASSUME NEW t \in Threads, ProcessStep(t) PROVE SingleFlight'
  <2>1. worker[t] # "none" /\ UNCHANGED <<state, pc, run, want>>
        /\ \A u \in Threads : worker'[u] # "none" => worker[u] # "none"
    BY <1>5 DEF ProcessStep, WorkerTakesLock, WorkerBusy, WorkerFails, WorkerSets, WorkerExits,
                WorkerAims, WorkerDies, WorkerStep
  <2> QED
    BY <2>1
<1>6. CASE OrphanSets
  BY <1>6 DEF OrphanSets
<1>7. CASE UNCHANGED vars
  BY <1>7 DEF vars
<1> QED
  BY <1>2, <1>3, <1>4, <1>5, <1>6, <1>7 DEF Next

-----------------------------------------------------------------------------
(* The anchor, the ring and the screen. *)

LEMMA WorkerKnowsInit == Init => WorkerKnows
  BY DEF Init, WorkerKnows

LEMMA WorkerKnowsStep ==
  TypeOK /\ SingleFlight /\ WorkerKnows /\ [Next]_vars => WorkerKnows'
<1> SUFFICES ASSUME TypeOK, SingleFlight, WorkerKnows, [Next]_vars PROVE WorkerKnows'
  OBVIOUS
<1>1. CASE UNCHANGED <<worker, picked, shown, stray>>
  BY <1>1 DEF WorkerKnows
<1>2. ASSUME NEW t \in Threads,
             \/ Spawn(t) \/ Terminate(t) \/ RecordSuccess(t) \/ RecordFailure(t)
             \/ WorkerTakesLock(t) \/ WorkerBusy(t) \/ WorkerFails(t) \/ WorkerDies(t)
      PROVE  WorkerKnows'
  <2>1. shown' = shown /\ stray' = stray /\ worker'[t] \notin {"setting", "set", "ok"}
        /\ \A u \in Threads \ {t} : worker'[u] = worker[u] /\ picked'[u] = picked[u]
    BY <1>2 DEF TypeOK, Spawn, Terminate, RecordSuccess, RecordFailure, Forget, WorkerTakesLock,
                WorkerBusy, WorkerFails, WorkerDies, WorkerStep, screen
  <2> QED
    BY <2>1 DEF WorkerKnows
<1>3. ASSUME NEW t \in Threads, WorkerAims(t) PROVE WorkerKnows'
  <2>1. PICK i \in IF want[t].target = NoImage THEN Images ELSE {want[t].target} :
          picked' = [picked EXCEPT ![t] = i]
    BY <1>3 DEF WorkerAims
  <2>2. want[t] \in Request
    BY DEF TypeOK
  <2>3. i \in Images
    BY <2>2 DEF Request
  <2> QED
    BY <1>3, <2>1, <2>3 DEF TypeOK, WorkerKnows, WorkerAims, WorkerStep, screen
<1>4. ASSUME NEW t \in Threads, WorkerSets(t) PROVE WorkerKnows'
  <2>1. picked[t] \in Images /\ shown' = picked[t] /\ picked' = picked
    BY <1>4 DEF WorkerSets, WorkerStep, WorkerKnows
  <2>2. \A u \in Threads \ {t} : worker'[u] = "none"
    BY <1>4 DEF TypeOK, SingleFlight, InRun, WorkerSets, WorkerStep
  <2> QED
    BY <2>1, <2>2 DEF WorkerKnows
<1>5. ASSUME NEW t \in Threads, WorkerExits(t) PROVE WorkerKnows'
  BY <1>5 DEF TypeOK, WorkerKnows, WorkerExits, WorkerStep, screen
<1>6. CASE SlotDue
  BY <1>1, <1>6 DEF SlotDue, Ask, screen
<1>7. ASSUME NEW c \in Clients, ClientRequest(c) PROVE WorkerKnows'
  BY <1>1, <1>7 DEF ClientRequest, AskNext, AskSet, AskPrev, Ask, ConfigCheck, ReadOnly, vars,
                    screen
<1>8. ASSUME NEW t \in Threads, ThreadStep(t) PROVE WorkerKnows'
  BY <1>1, <1>2, <1>8 DEF ThreadStep, Start, Refuse, WriteQueued, ClientGone, Reconfigure,
                          Deadline, TakeSweep, DeferSweep, EndSweep, screen
<1>9. ASSUME NEW t \in Threads, ProcessStep(t) PROVE WorkerKnows'
  BY <1>2, <1>3, <1>4, <1>5, <1>9 DEF ProcessStep
<1>10. CASE OrphanSets
  BY <1>10 DEF OrphanSets, WorkerKnows
<1>11. CASE UNCHANGED vars
  BY <1>1, <1>11 DEF vars, screen
<1> QED
  BY <1>6, <1>7, <1>8, <1>9, <1>10, <1>11 DEF Next

\* The five parts of the inductive invariant.
RotationInv ==
  TypeOK /\ SingleFlight /\ WorkerKnows /\ AnchorIsNewest /\ CleanStatusMeansAnchorShown

LEMMA AnchorStep ==
  TypeOK /\ WorkerKnows /\ AnchorIsNewest /\ [Next]_vars => AnchorIsNewest'
<1> SUFFICES ASSUME TypeOK, WorkerKnows, AnchorIsNewest, [Next]_vars PROVE AnchorIsNewest'
  OBVIOUS
<1>1. CASE UNCHANGED <<current, history>>
  BY <1>1 DEF AnchorIsNewest
<1>2. ASSUME NEW t \in Threads, RecordSuccess(t) PROVE AnchorIsNewest'
  <2>1. picked[t] \in Images
    BY <1>2 DEF RecordSuccess, WorkerKnows
  <2>2. history' # <<>> /\ Head(history') = picked[t] /\ current' = picked[t]
    BY <1>2, <2>1, PushKeepsBound DEF RecordSuccess, TypeOK
  <2> QED
    BY <2>1, <2>2, RotationAssumption DEF AnchorIsNewest
<1>3. CASE SlotDue
  BY <1>1, <1>3 DEF SlotDue, Ask, state
<1>4. ASSUME NEW c \in Clients, ClientRequest(c) PROVE AnchorIsNewest'
  BY <1>1, <1>4 DEF ClientRequest, AskNext, AskSet, AskPrev, Ask, ConfigCheck, ReadOnly, vars,
                    state
<1>5. ASSUME NEW t \in Threads, ThreadStep(t) PROVE AnchorIsNewest'
  BY <1>1, <1>2, <1>5 DEF ThreadStep, Start, Refuse, WriteQueued, ClientGone, Reconfigure, Spawn,
       Deadline, Terminate, RecordFailure, TakeSweep, DeferSweep, EndSweep, state
<1>6. ASSUME NEW t \in Threads, ProcessStep(t) PROVE AnchorIsNewest'
  BY <1>1, <1>6 DEF ProcessStep, WorkerTakesLock, WorkerBusy, WorkerFails, WorkerAims, WorkerSets,
                    WorkerExits,
                    WorkerDies, WorkerStep, state
<1>7. CASE OrphanSets
  BY <1>1, <1>7 DEF OrphanSets, state
<1>8. CASE UNCHANGED vars
  BY <1>1, <1>8 DEF vars, state
<1> QED
  BY <1>3, <1>4, <1>5, <1>6, <1>7, <1>8 DEF Next

LEMMA CleanStatusStep ==
  TypeOK /\ SingleFlight /\ WorkerKnows /\ CleanStatusMeansAnchorShown /\ [Next]_vars
    => CleanStatusMeansAnchorShown'
<1> SUFFICES ASSUME TypeOK, SingleFlight, WorkerKnows, CleanStatusMeansAnchorShown, [Next]_vars
             PROVE  CleanStatusMeansAnchorShown'
  OBVIOUS
<1> DEFINE Watched(t) == pc[t] \in {"wait", "kill"}
\* A step that leaves the screen and the anchor, adds no clean status and lets
\* no thread out of its wait.
<1>1. ASSUME shown' = shown, stray' = stray, current' = current, lastError' = "none" => lastError = "none",
             \A t \in Threads : Watched(t) => pc'[t] \in {"wait", "kill"}
      PROVE  CleanStatusMeansAnchorShown'
  BY <1>1 DEF CleanStatusMeansAnchorShown
<1>2. ASSUME NEW t \in Threads, NEW request, Ask(t, request) PROVE CleanStatusMeansAnchorShown'
  BY <1>1, <1>2 DEF TypeOK, Ask, state, screen, screen
<1>3. CASE SlotDue
  BY <1>2, <1>3 DEF SlotDue, Threads
<1>4. ASSUME NEW c \in Clients, ClientRequest(c) PROVE CleanStatusMeansAnchorShown'
  <2>1. CASE ConfigCheck(c)
    BY <1>1, <2>1 DEF ConfigCheck, screen
  <2>2. CASE ReadOnly(c)
    BY <1>1, <2>2 DEF ReadOnly, vars, state, screen
  <2> QED
    BY <1>2, <1>4, <2>1, <2>2 DEF ClientRequest, AskNext, AskSet, AskPrev, Threads
<1>5. ASSUME NEW t \in Threads, ThreadStep(t) PROVE CleanStatusMeansAnchorShown'
  <2>1. CASE RecordSuccess(t)
    BY <2>1 DEF RecordSuccess, screen, WorkerKnows, CleanStatusMeansAnchorShown
  <2>2. CASE RecordFailure(t)
    BY <2>2 DEF RecordFailure, TypeOK, CleanStatusMeansAnchorShown
  <2>3. CASE Reconfigure(t)
    BY <1>1, <2>3 DEF Reconfigure, TypeOK, screen
  <2>4. CASE Start(t) \/ Refuse(t) \/ WriteQueued(t) \/ ClientGone(t) \/ Spawn(t)
    BY <1>1, <2>4 DEF TypeOK, Start, Refuse, WriteQueued, ClientGone, Spawn, state,
                       screen
  <2>5. CASE Deadline(t) \/ Terminate(t) \/ TakeSweep(t) \/ DeferSweep(t) \/ EndSweep(t)
    BY <1>1, <2>5 DEF TypeOK, Deadline, Terminate, TakeSweep, DeferSweep, EndSweep, state,
                       screen
  <2> QED
    BY <1>5, <2>1, <2>2, <2>3, <2>4, <2>5 DEF ThreadStep
<1>6. ASSUME NEW t \in Threads, ProcessStep(t) PROVE CleanStatusMeansAnchorShown'
  <2>1. pc' = pc /\ Watched(t)
    BY <1>6 DEF ProcessStep, WorkerTakesLock, WorkerBusy, WorkerFails, WorkerAims, WorkerSets,
                    WorkerExits,
                WorkerDies, WorkerStep, SingleFlight
  <2> QED
    BY <2>1 DEF CleanStatusMeansAnchorShown
<1>7. CASE OrphanSets
  BY <1>7 DEF OrphanSets, CleanStatusMeansAnchorShown
<1>8. CASE UNCHANGED vars
  BY <1>1, <1>8 DEF vars, state, screen
<1> QED
  BY <1>3, <1>4, <1>5, <1>6, <1>7, <1>8 DEF Next

-----------------------------------------------------------------------------
(* The theorems. *)

LEMMA Invariance == Spec => []RotationInv
<1>1. Init => RotationInv
  BY TypeInit, SingleFlightInit, WorkerKnowsInit
     DEF Init, RotationInv, AnchorIsNewest, CleanStatusMeansAnchorShown
<1>2. RotationInv /\ [Next]_vars => RotationInv'
  BY TypeStep, SingleFlightStep, WorkerKnowsStep, AnchorStep, CleanStatusStep DEF RotationInv
<1> QED
  BY <1>1, <1>2, PTL DEF Spec

\* The state of the rotations is well typed in every reachable state, and the
\* history never outgrows its bound (HistoryRing).
THEOREM TypeCorrect == Spec => []TypeOK
  BY Invariance, PTL DEF RotationInv

\* However many clients there are, at most one rotation is in flight, its thread
\* works under the slot `running` names, and no worker outlives its rotation
\* (start_rotation and the outcomes of rotation).
THEOREM OneRotationAtATime == Spec => []SingleFlight
  BY Invariance, PTL DEF RotationInv

\* The anchor is the newest entry of the history, and there is one exactly when
\* there is the other (record_success).
THEOREM AnchorHeadsTheRing == Spec => []AnchorIsNewest
  BY Invariance, PTL DEF RotationInv

\* A status that shows no error and no worker at work has the wallpaper right,
\* whatever workers were killed before (record_success, record_failure), unless a
\* setter tool outlived its worker and landed last.
THEOREM CleanStatusIsTrue == Spec => []CleanStatusMeansAnchorShown
  BY Invariance, PTL DEF RotationInv

-----------------------------------------------------------------------------
(* The walk of `prev`. *)

LEMMA LeastOf ==
  ASSUME NEW s, s \subseteq Nat, s # {}
  PROVE  Least(s) \in s /\ \A j \in s : Least(s) <= j
<1> DEFINE R == OpToRel(<, Nat)
<1>1. IsWellFoundedOn(R, Nat)
  BY NatLessThanWellFounded
<1>2. \A j, k \in Nat : j < k => <<j, k>> \in R
  BY SMT DEF OpToRel
<1> HIDE DEF R
<1>3. PICK k \in s : \A j \in s : ~ (<<j, k>> \in R)
  BY <1>1, WFMin
<1>4. ASSUME NEW j \in s PROVE k <= j
  <2>1. ~ (j < k)
    BY <1>2, <1>3
  <2> QED
    BY <2>1
<1> QED
  BY <1>4 DEF Least

\* Which entry of a ring the walk finds, for any anchor.
LEMMA PrevIsFound ==
  ASSUME NEW h \in Seq(Images), NEW anchor, NEW k \in DOMAIN h
  PROVE  LET at == {j \in DOMAIN h : h[j] = anchor}
             start == IF at = {} THEN 1 ELSE Least(at)
             others == {j \in start .. Len(h) : h[j] # anchor}
         IN  PrevEntry(h, anchor, k) <=> others # {} /\ k = Least(others)
<1> DEFINE at == {j \in DOMAIN h : h[j] = anchor}
           start == IF at = {} THEN 1 ELSE Least(at)
           others == {j \in start .. Len(h) : h[j] # anchor}
<1>1. DOMAIN h = 1 .. Len(h) /\ Len(h) \in Nat /\ k \in 1 .. Len(h)
  OBVIOUS
<1>2. /\ at = {} => start = 1
      /\ at # {} => start \in at /\ \A j \in at : start <= j
  <2>1. at \subseteq Nat
    BY <1>1
  <2> HIDE DEF at
  <2> QED
    BY <2>1, LeastOf
<1> HIDE DEF start
<1>3. start \in Nat \ {0} /\ \A j \in 1 .. (start - 1) : j \in DOMAIN h => h[j] # anchor
  BY <1>1, <1>2
<1>4. others \subseteq Nat
  BY <1>3
<1>5. k \in others /\ (\A j \in others : k <= j) <=> others # {} /\ k = Least(others)
  <2>1. ASSUME k \in others, \A j \in others : k <= j PROVE k = Least(others)
    <3>1. Least(others) \in others /\ Least(others) <= k
      BY <1>4, <2>1, LeastOf
    <3> HIDE DEF others
    <3>2. Least(others) \in Nat /\ k \in Nat /\ k <= Least(others)
      BY <1>1, <1>4, <2>1, <3>1
    <3> QED
      BY <3>1, <3>2
  <2> QED
    BY <1>4, <2>1, LeastOf
<1>6. ASSUME PrevEntry(h, anchor, k) PROVE k \in others /\ \A j \in others : k <= j
  <2>1. CASE k = 1 /\ \A j \in DOMAIN h : h[j] # anchor
    <3>1. start = 1
      BY <1>2, <2>1
    <3> QED
      BY <1>1, <1>6, <2>1, <3>1 DEF PrevEntry
  <2>2. ASSUME NEW s \in 1 .. (k - 1), \A j \in 1 .. (s - 1) : h[j] # anchor,
               \A j \in s .. (k - 1) : h[j] = anchor
        PROVE  k \in others /\ \A j \in others : k <= j
    <3>1. s \in at /\ h[s] = anchor
      BY <1>1, <2>2
    <3>2. start = s
      BY <1>1, <1>2, <2>2, <3>1
    <3> QED
      BY <1>1, <1>6, <2>2, <3>2 DEF PrevEntry
  <2> QED
    BY <1>6, <2>1, <2>2 DEF PrevEntry
<1>7. ASSUME k \in others, \A j \in others : k <= j PROVE PrevEntry(h, anchor, k)
  <2>1. k >= start /\ h[k] # anchor /\ \A j \in start .. (k - 1) : h[j] = anchor
    BY <1>1, <1>3, <1>7
  <2>2. CASE at = {}
    <3>1. start = 1 /\ \A j \in DOMAIN h : h[j] # anchor
      BY <1>2, <2>2
    <3> QED
      BY <1>1, <2>1, <3>1 DEF PrevEntry
  <2>3. CASE at # {}
    <3>1. h[start] = anchor /\ start \in 1 .. (k - 1)
      BY <1>1, <1>2, <1>3, <2>1, <2>3
    <3> QED
      BY <1>1, <1>3, <2>1, <3>1 DEF PrevEntry
  <2> QED
    BY <2>2, <2>3
<1> QED
  BY <1>5, <1>6, <1>7 DEF start

\* For any ring and any anchor, what `prev` sets is what the iterator of the code finds
\* (HistoryRing::prev_from).
THEOREM PrevWalks == Spec => []PrevIsTheWalk
<1>1. TypeOK => PrevIsTheWalk
  <2> SUFFICES ASSUME TypeOK, NEW anchor \in Images \cup {NoImage}, NEW k \in DOMAIN history
               PROVE  LET at == {j \in DOMAIN history : history[j] = anchor}
                          start == IF at = {} THEN 1 ELSE Least(at)
                          others == {j \in start .. Len(history) : history[j] # anchor}
                      IN  PrevEntry(history, anchor, k) <=> others # {} /\ k = Least(others)
    BY DEF PrevIsTheWalk
  <2>1. history \in Seq(Images)
    BY DEF TypeOK
  <2> QED
    BY <2>1, PrevIsFound
<1> QED
  BY <1>1, TypeCorrect, PTL

-----------------------------------------------------------------------------
(* The refinement of RotationService. *)

LEMMA InitRefines == Init => RS!Init
  BY DEF Init, RS!Init, NoRun, RS!NoRun

LEMMA StepRefines ==
  TypeOK /\ SingleFlight /\ WorkerKnows /\ [Next]_vars => [RS!Next]_(RS!service)
<1> SUFFICES ASSUME TypeOK, SingleFlight, WorkerKnows, [Next]_vars
             PROVE  RS!Next \/ UNCHANGED RS!service
  OBVIOUS
<1>1. CASE UNCHANGED <<slot, running, rotationCount, current, history>>
  BY <1>1 DEF RS!service
<1>2. ASSUME NEW t \in Threads, Start(t) PROVE RS!Start
  BY <1>2 DEF Start, RS!Start, NoRun, RS!NoRun
<1>3. ASSUME NEW t \in Threads, RecordSuccess(t) PROVE RS!Succeed
  <2>1. running # NoRun
    BY <1>3 DEF RecordSuccess, SingleFlight, InRun
  <2>2. current' \in Images /\ history' = RS!PushTo(history, current')
    BY <1>3 DEF RecordSuccess, WorkerKnows, Push, RS!PushTo
  <2> QED
    BY <1>3, <2>1, <2>2 DEF RecordSuccess, RS!Succeed, NoRun, RS!NoRun
<1>4. ASSUME NEW t \in Threads, RecordFailure(t) PROVE RS!Fail
  <2>1. running # NoRun
    BY <1>4 DEF RecordFailure, SingleFlight, InRun
  <2> QED
    BY <1>4, <2>1 DEF RecordFailure, RS!Fail, NoRun, RS!NoRun
<1>5. CASE SlotDue
  BY <1>1, <1>5 DEF SlotDue, Ask, state
<1>6. ASSUME NEW c \in Clients, ClientRequest(c) PROVE RS!Next \/ UNCHANGED RS!service
  <2>1. CASE ConfigCheck(c)
    BY <2>1 DEF ConfigCheck, RS!Check, RS!Next
  <2> QED
    BY <1>1, <1>6, <2>1 DEF ClientRequest, AskNext, AskSet, AskPrev, Ask, ReadOnly, vars, state
<1>7. ASSUME NEW t \in Threads, ThreadStep(t) PROVE RS!Next \/ UNCHANGED RS!service
  BY <1>1, <1>2, <1>3, <1>4, <1>7 DEF RS!Next, ThreadStep, Refuse, WriteQueued, ClientGone,
       Reconfigure, Spawn, Deadline, Terminate, TakeSweep, DeferSweep, EndSweep, state
<1>8. ASSUME NEW t \in Threads, ProcessStep(t) PROVE RS!Next \/ UNCHANGED RS!service
  BY <1>1, <1>8 DEF ProcessStep, WorkerTakesLock, WorkerBusy, WorkerFails, WorkerAims, WorkerSets,
                    WorkerExits,
                    WorkerDies, WorkerStep, state
<1>9. CASE OrphanSets
  BY <1>1, <1>9 DEF OrphanSets, state
<1>10. CASE UNCHANGED vars
  BY <1>1, <1>10 DEF vars, state
<1> QED
  BY <1>5, <1>6, <1>7, <1>8, <1>9, <1>10 DEF Next

\* Threads, workers, locks and sweeps together keep the promise of
\* RotationService, for any number of clients.
THEOREM ImplementsService == Spec => Implements
<1>1. Spec => [](TypeOK /\ SingleFlight /\ WorkerKnows)
  BY Invariance, PTL DEF RotationInv
<1> QED
  BY <1>1, InitRefines, StepRefines, PTL DEF Spec, Implements, RS!Spec
=============================================================================
