-------------------------- MODULE Components_proofs --------------------------
(***************************************************************************)
(* Theorems of the components that share no state: DaemonLock, ReportVerb, *)
(* Configuration, Setters, Conversation, HeadWindow and Supervision, each  *)
(* for every value of its constants.                                       *)
(***************************************************************************)
EXTENDS DaemonLock, ReportVerb, Configuration, Setters, Conversation, Supervision,
        HeadWindow, SequenceTheorems, FiniteSetTheorems, WellFoundedInduction, TLAPS

\* Every set of naturals with a member has a least one.
LEMMA LeastNatural ==
  ASSUME NEW S \in SUBSET Nat, S # {}
  PROVE  Min(S) \in S /\ \A y \in S : Min(S) <= y
<1> DEFINE R == OpToRel(<, Nat)
<1>1. IsWellFoundedOn(R, Nat)
  BY NatLessThanWellFounded
<1>2. \A x, y \in Nat : y < x => <<y, x>> \in R
  BY SMT DEF OpToRel
<1>3. PICK x \in S : \A y \in S : ~ (<<y, x>> \in R)
  <2> HIDE DEF R
  <2> QED BY <1>1, WFMin
<1> HIDE DEF R
<1>4. ASSUME NEW y \in S PROVE x <= y
  <2>1. ~ (y < x)
    BY <1>2, <1>3
  <2> QED BY <2>1
<1> QED
  BY <1>4 DEF Min

LEMMA UpToIsNatural == \A n \in Nat : 1 .. n \subseteq Nat
OBVIOUS

-----------------------------------------------------------------------------
(* DaemonLock *)

\* What the lock is, under each primitive: the kernel names the one process that has it,
\* or the file is there because of the one process that created it.
KernelKnows == \A d \in Daemons : at[d] \in Holding => kernelLock = d
Made(d) == at[d] \in Holding \cup {"created"}
FileKnows == /\ kernelLock = NoDaemon
             /\ \A d \in Daemons : Made(d) => lockThere
             /\ \A d, e \in Daemons : Made(d) /\ Made(e) => d = e
LockIsHeld == /\ lockMode = "flock" => KernelKnows
              /\ lockMode = "excl_file" => FileKnows

\* What the socket is: open listeners belong to processes that run, and the one that runs
\* is at the path.
SocketIsTheRunners ==
  /\ \A d \in Daemons : d \in listening <=> at[d] = "runs"
  /\ \A d \in Daemons : at[d] = "runs" => socketFile = d

IInv == DaemonTypeOK /\ LockIsHeld /\ SocketIsTheRunners

-----------------------------------------------------------------------------
LEMMA Exclusive ==
  ASSUME DaemonTypeOK, LockIsHeld, NEW d \in Daemons, NEW e \in Daemons,
         at[d] \in Holding, at[e] \in Holding
  PROVE  d = e
  BY DEF DaemonTypeOK, LockIsHeld, KernelKnows, FileKnows, Made

LEMMA TypeStep == DaemonTypeOK /\ [DaemonNext]_lockVars => DaemonTypeOK'
<1> SUFFICES ASSUME DaemonTypeOK, [DaemonNext]_lockVars PROVE DaemonTypeOK'
  OBVIOUS
<1>1. CASE UNCHANGED lockVars
  BY <1>1 DEF DaemonTypeOK, lockVars
<1>2. ASSUME NEW d \in Daemons, DaemonStep(d) PROVE DaemonTypeOK'
  <2> USE <1>2 DEF DaemonTypeOK, Goto, Unlocked, Places
  <2>1. CASE OpenExclusive(d)
    BY <2>1 DEF OpenExclusive
  <2>2. CASE OpenExisting(d)
    BY <2>2 DEF OpenExisting
  <2>3. CASE Acquire(d)
    BY <2>3 DEF Acquire
  <2>4. CASE RefuseHeld(d)
    BY <2>4 DEF RefuseHeld
  <2>5. CASE Truncate(d)
    BY <2>5 DEF Truncate
  <2>6. CASE WriteRecord(d)
    BY <2>6 DEF WriteRecord
  <2>7. CASE RecordFails(d)
    BY <2>7 DEF RecordFails
  <2>8. CASE Resolve(d)
    BY <2>8 DEF Resolve
  <2>9. CASE ProbeSocket(d)
    BY <2>9 DEF ProbeSocket
  <2>10. CASE UnlinkSocket(d)
    BY <2>10 DEF UnlinkSocket
  <2>11. CASE BindSocket(d)
    BY <2>11 DEF BindSocket
  <2>12. CASE StartupFails(d)
    BY <2>12 DEF StartupFails
  <2>13. CASE KillDaemon(d)
    BY <2>13 DEF KillDaemon
  <2> QED
    BY <2>1, <2>2, <2>3, <2>4, <2>5, <2>6, <2>7, <2>8, <2>9, <2>10, <2>11, <2>12, <2>13
       DEF DaemonStep
<1> QED
  BY <1>1, <1>2 DEF DaemonNext

\* A process that ends gives up what it held, and of the fallback nothing but its own file
\* goes with it.
LEMMA Leaves ==
  ASSUME DaemonTypeOK, LockIsHeld, NEW d \in Daemons,
         Goto(d, "dead"), Unlocked(d), lockMode' = lockMode,
         lockThere' = lockThere \/ at[d] \in Holding
  PROVE  LockIsHeld'
<1>1. \A e \in Daemons : at'[e] # "dead" => at'[e] = at[e] /\ e # d
  BY DEF DaemonTypeOK, Goto
<1>2. \A e \in Daemons : at'[e] \in Holding \cup {"created"} => at'[e] = at[e] /\ e # d
  BY <1>1 DEF Holding
<1>3. lockMode = "flock" => KernelKnows'
  BY <1>2 DEF LockIsHeld, KernelKnows, Unlocked
<1>4. lockMode = "excl_file" => FileKnows'
  BY <1>2 DEF LockIsHeld, FileKnows, Made, Unlocked
<1> QED
  BY <1>3, <1>4 DEF LockIsHeld

\* Both primitives: who is past the lock is its only holder.
LEMMA LockStep == DaemonTypeOK /\ LockIsHeld /\ [DaemonNext]_lockVars => LockIsHeld'
<1> SUFFICES ASSUME DaemonTypeOK, LockIsHeld, [DaemonNext]_lockVars PROVE LockIsHeld'
  OBVIOUS
<1>1. CASE UNCHANGED lockVars
  BY <1>1 DEF LockIsHeld, KernelKnows, FileKnows, Made, lockVars
<1>2. ASSUME NEW d \in Daemons, DaemonStep(d) PROVE LockIsHeld'
  <2> USE <1>2, DaemonAssumption DEF DaemonTypeOK, LockIsHeld, KernelKnows, FileKnows, Made, Holding, Goto,
         Unlocked
  <2>1. CASE OpenExclusive(d)
    BY <2>1 DEF OpenExclusive
  <2>2. CASE OpenExisting(d)
    BY <2>2 DEF OpenExisting
  <2>3. CASE Acquire(d)
    BY <2>3 DEF Acquire
  <2>4. CASE RefuseHeld(d)
    BY <2>4 DEF RefuseHeld
  <2>5. CASE Truncate(d)
    BY <2>5 DEF Truncate
  <2>6. CASE WriteRecord(d)
    BY <2>6 DEF WriteRecord
  <2>7. CASE RecordFails(d)
    BY <2>7, Leaves DEF RecordFails
  <2>8. CASE Resolve(d)
    BY <2>8 DEF Resolve
  <2>9. CASE ProbeSocket(d)
    BY <2>9 DEF ProbeSocket
  <2>10. CASE UnlinkSocket(d)
    BY <2>10 DEF UnlinkSocket
  <2>11. CASE BindSocket(d)
    BY <2>11 DEF BindSocket
  <2>12. CASE StartupFails(d)
    BY <2>12, Leaves DEF StartupFails
  <2>13. CASE KillDaemon(d)
    BY <2>13, Leaves DEF KillDaemon
  <2> QED
    BY <2>1, <2>2, <2>3, <2>4, <2>5, <2>6, <2>7, <2>8, <2>9, <2>10, <2>11, <2>12, <2>13
       DEF DaemonStep
<1> QED
  BY <1>1, <1>2 DEF DaemonNext

\* A path that is unlinked or bound has no live listener: its owner would hold the lock.
LEMMA SocketStep == IInv /\ [DaemonNext]_lockVars => SocketIsTheRunners'
<1> SUFFICES ASSUME IInv, [DaemonNext]_lockVars PROVE SocketIsTheRunners'
  OBVIOUS
<1> USE DEF IInv
<1>1. CASE UNCHANGED lockVars
  BY <1>1 DEF SocketIsTheRunners, lockVars
<1>2. ASSUME NEW d \in Daemons, DaemonStep(d) PROVE SocketIsTheRunners'
  <2>0. \A e \in Daemons : at[d] \in Holding /\ at[e] = "runs" => e = d
    BY Exclusive DEF Holding
  <2> USE <1>2 DEF DaemonTypeOK, SocketIsTheRunners, Goto
  <2>1. CASE OpenExclusive(d)
    BY <2>1 DEF OpenExclusive
  <2>2. CASE OpenExisting(d)
    BY <2>2 DEF OpenExisting
  <2>3. CASE Acquire(d)
    BY <2>3 DEF Acquire
  <2>4. CASE RefuseHeld(d)
    BY <2>4 DEF RefuseHeld
  <2>5. CASE Truncate(d)
    BY <2>5 DEF Truncate
  <2>6. CASE WriteRecord(d)
    BY <2>6 DEF WriteRecord
  <2>7. CASE RecordFails(d)
    BY <2>7 DEF RecordFails
  <2>8. CASE Resolve(d)
    BY <2>8 DEF Resolve
  <2>9. CASE ProbeSocket(d)
    BY <2>9 DEF ProbeSocket
  <2>10. CASE UnlinkSocket(d)
    BY <2>0, <2>10 DEF UnlinkSocket, Holding
  <2>11. CASE BindSocket(d)
    BY <2>0, <2>11 DEF BindSocket, Holding
  <2>12. CASE StartupFails(d)
    BY <2>12 DEF StartupFails
  <2>13. CASE KillDaemon(d)
    BY <2>13 DEF KillDaemon
  <2> QED
    BY <2>1, <2>2, <2>3, <2>4, <2>5, <2>6, <2>7, <2>8, <2>9, <2>10, <2>11, <2>12, <2>13
       DEF DaemonStep
<1> QED
  BY <1>1, <1>2 DEF DaemonNext

LEMMA InvInit == DaemonInit => IInv
<1> SUFFICES ASSUME DaemonInit PROVE IInv
  OBVIOUS
<1>1. DaemonTypeOK
  BY DEF DaemonInit, DaemonTypeOK, Places
<1>2. \A d \in Daemons : at[d] = "new"
  BY DEF DaemonInit
<1>3. LockIsHeld
  <2>1. \A d \in Daemons : at[d] \notin Holding \cup {"created"}
    BY <1>2 DEF Holding
  <2>2. KernelKnows /\ FileKnows
    BY <2>1 DEF DaemonInit, KernelKnows, FileKnows, Made
  <2> QED
    BY <2>2 DEF LockIsHeld
<1>4. SocketIsTheRunners
  BY <1>2 DEF DaemonInit, SocketIsTheRunners
<1> QED
  BY <1>1, <1>3, <1>4 DEF IInv

LEMMA InvHolds == DaemonSpec => []IInv
<1>1. IInv /\ [DaemonNext]_lockVars => IInv'
  BY TypeStep, LockStep, SocketStep DEF IInv
<1> QED
  BY InvInit, <1>1, PTL DEF DaemonSpec

-----------------------------------------------------------------------------
\* The startup keeps its types: pids in the record, places, one socket path.
THEOREM DaemonTypes == DaemonSpec => []DaemonTypeOK
<1>1. IInv => DaemonTypeOK
  BY DEF IInv
<1> QED
  BY InvHolds, <1>1, PTL

\* However many processes are started and killed wherever, under flock and under the
\* fallback, one of them at most is past daemon.lock, and the control socket is the one's
\* that runs (lock.rs take_with; main.rs run; socket.rs bind).
THEOREM OneDaemon == DaemonSpec => []OneDaemonServes
<1>1. IInv => OneDaemonServes
  <2> SUFFICES ASSUME IInv PROVE OneDaemonServes
    OBVIOUS
  <2>1. \A d, e \in Daemons : at[d] \in Holding /\ at[e] \in Holding => d = e
    BY Exclusive DEF IInv
  <2>2. ASSUME NEW d \in Daemons, at[d] = "runs" PROVE socketFile = d /\ listening = {d}
    BY <2>1, <2>2 DEF IInv, SocketIsTheRunners, DaemonTypeOK, Holding
  <2> QED
    BY <2>1, <2>2 DEF OneDaemonServes
<1> QED
  BY InvHolds, <1>1, PTL

-----------------------------------------------------------------------------
\* The record names nobody who has not had the lock.
RecordNamesAHolder ==
  /\ lockRecord # NoDaemon => at[lockRecord] \in (Holding \cup {"dead"}) \ {"truncate", "record"}
  /\ RefusalNamesAHolder

LEMMA RecordStep == IInv /\ RecordNamesAHolder /\ [DaemonNext]_lockVars => RecordNamesAHolder'
<1> SUFFICES ASSUME IInv, RecordNamesAHolder, [DaemonNext]_lockVars PROVE RecordNamesAHolder'
  OBVIOUS
<1> USE DEF IInv, RecordNamesAHolder, RefusalNamesAHolder
<1>1. CASE UNCHANGED lockVars
  BY <1>1 DEF lockVars
<1>2. ASSUME NEW d \in Daemons, DaemonStep(d) PROVE RecordNamesAHolder'
  <2> USE <1>2, DaemonAssumption DEF DaemonTypeOK, Holding, Goto
  <2>1. CASE OpenExclusive(d)
    BY <2>1 DEF OpenExclusive
  <2>2. CASE OpenExisting(d)
    BY <2>2 DEF OpenExisting
  <2>3. CASE Acquire(d)
    BY <2>3 DEF Acquire
  <2>4. CASE RefuseHeld(d)
    BY <2>4 DEF RefuseHeld
  <2>5. CASE Truncate(d)
    BY <2>5 DEF Truncate
  <2>6. CASE WriteRecord(d)
    BY <2>6 DEF WriteRecord
  <2>7. CASE RecordFails(d)
    BY <2>7 DEF RecordFails
  <2>8. CASE Resolve(d)
    BY <2>8 DEF Resolve
  <2>9. CASE ProbeSocket(d)
    BY <2>9 DEF ProbeSocket
  <2>10. CASE UnlinkSocket(d)
    BY <2>10 DEF UnlinkSocket
  <2>11. CASE BindSocket(d)
    BY <2>11 DEF BindSocket
  <2>12. CASE StartupFails(d)
    BY <2>12 DEF StartupFails
  <2>13. CASE KillDaemon(d)
    BY <2>13 DEF KillDaemon
  <2> QED
    BY <2>1, <2>2, <2>3, <2>4, <2>5, <2>6, <2>7, <2>8, <2>9, <2>10, <2>11, <2>12, <2>13
       DEF DaemonStep
<1> QED
  BY <1>1, <1>2 DEF DaemonNext

\* The refusal of a start names a process that had the lock (lock.rs held_message).
THEOREM RefusalIsTrue == DaemonSpec => []RefusalNamesAHolder
<1>1. DaemonInit => RecordNamesAHolder
  BY DEF DaemonInit, RecordNamesAHolder, RefusalNamesAHolder
<1>2. RecordNamesAHolder => RefusalNamesAHolder
  BY DEF RecordNamesAHolder
<1> QED
  BY InvHolds, RecordStep, <1>1, <1>2, PTL DEF DaemonSpec

-----------------------------------------------------------------------------
(* ReportVerb *)

Fine(s) == \A i \in DOMAIN s : s[i] = ""
Verdict == {"", "refused", "usage"}

LEMMA FirstOfNone ==
  ASSUME NEW s \in Seq(Verdict), FirstOf(s) = ""
  PROVE  Fine(s)
<1> DEFINE bad == {i \in DOMAIN s : s[i] # ""}
<1>1. bad \in SUBSET Nat
  <2>1. DOMAIN s = 1 .. Len(s) /\ Len(s) \in Nat
    BY LenProperties
  <2>2. DOMAIN s \subseteq Nat
    BY UpToIsNatural, <2>1, Zenon
  <2>3. bad \subseteq DOMAIN s
    OBVIOUS
  <2> QED BY <2>2, <2>3
<1>2. bad # {} => Min(bad) \in bad
  <2> HIDE DEF bad
  <2> QED BY <1>1, LeastNatural
<1>3. bad = {}
  <2>1. FirstOf(s) = IF bad = {} THEN "" ELSE s[Min(bad)]
    BY DEF FirstOf
  <2> QED BY <1>2, <2>1
<1> QED
  BY <1>3 DEF Fine

LEMMA FineParts ==
  ASSUME NEW s \in Seq(Verdict), NEW t \in Seq(Verdict)
  PROVE  s \o t \in Seq(Verdict) /\ (Fine(s \o t) => Fine(s) /\ Fine(t))
<1> DEFINE n == Len(s)  m == Len(t)  u == s \o t
<1>1. /\ n \in Nat /\ m \in Nat /\ DOMAIN s = 1 .. n /\ DOMAIN t = 1 .. m
      /\ u \in Seq(Verdict) /\ DOMAIN u = 1 .. n + m
      /\ \A i \in 1 .. n + m : u[i] = IF i <= n THEN s[i] ELSE t[i - n]
  <2>1. n \in Nat /\ m \in Nat /\ DOMAIN s = 1 .. n /\ DOMAIN t = 1 .. m
    BY LenProperties
  <2>2. u \in Seq(Verdict) /\ Len(u) = n + m
    BY ConcatProperties
  <2>3. DOMAIN u = 1 .. n + m
    BY <2>2, LenProperties
  <2>4. \A i \in 1 .. n + m : u[i] = IF i <= n THEN s[i] ELSE t[i - n]
    BY ConcatProperties
  <2> QED BY <2>1, <2>2, <2>3, <2>4
<1> HIDE DEF n, m, u
<1>2. ASSUME NEW i \in 1 .. n, Fine(u) PROVE s[i] = ""
  <2>1. i \in 1 .. n + m /\ u[i] = s[i]
    BY <1>1
  <2> QED BY <2>1, <1>1, <1>2 DEF Fine
<1>3. ASSUME NEW i \in 1 .. m, Fine(u) PROVE t[i] = ""
  <2>1. n + i \in 1 .. n + m /\ ~ (n + i <= n) /\ (n + i) - n = i
    BY <1>1
  <2>2. u[n + i] = t[i]
    BY <1>1, <2>1
  <2> QED BY <2>1, <2>2, <1>1, <1>3 DEF Fine
<1>4. Fine(u) => Fine(s) /\ Fine(t)
  BY <1>1, <1>2, <1>3 DEF Fine
<1> QED
  BY <1>1, <1>4 DEF u

LEMMA FineTriple ==
  ASSUME NEW x, NEW y, NEW z, Fine(<<x, y, z>>)
  PROVE  x = "" /\ y = ""
<1>1. 1 \in DOMAIN <<x, y, z>> /\ 2 \in DOMAIN <<x, y, z>>
  OBVIOUS
<1> QED
  BY <1>1 DEF Fine

LEMMA VerdictsOfRules ==
  ASSUME NEW f
  PROVE  /\ \A holds \in BOOLEAN : Run(holds) \in Verdict /\ Usage(holds) \in Verdict
         /\ \A flag : Required(f, flag) \in Verdict
         /\ \A flag, words : OneOf(f, flag, words) \in Verdict
  BY DEF Run, Usage, Verdict, Required, OneOf

LEMMA Strings ==
  \A x, y, z \in Verdict : <<x>> \in Seq(Verdict) /\ <<x, y>> \in Seq(Verdict) /\ <<x, y, z>> \in Seq(Verdict)
OBVIOUS

LEMMA EightRequired == DOMAIN RequiredFlags = 1 .. 8
BY DEF RequiredFlags

LEMMA ExtraVerdicts ==
  ASSUME NEW f
  PROVE  ExtraFlags(f) \in Seq(Verdict)
<1>1. CASE Platform = "macos"
  <2>1. ExtraFlags(f) = <<OneOf(f, "signed", {"yes", "no"}),
                                 IF f["signed"] = "yes" THEN Run("first-run" \notin DOMAIN f)
                                 ELSE Required(f, "first-run")>>
    BY <1>1 DEF ExtraFlags
  <2>2. \A x, y \in Verdict : <<x, y>> \in Seq(Verdict)
    OBVIOUS
  <2> QED BY <2>1, <2>2, VerdictsOfRules
<1>2. CASE Platform = "windows"
  <2>1. ExtraFlags(f) = <<Usage("signed" \notin DOMAIN f), Required(f, "smartscreen")>>
    BY <1>2 DEF ExtraFlags
  <2>2. \A x, y \in Verdict : <<x, y>> \in Seq(Verdict)
    OBVIOUS
  <2> QED BY <2>1, <2>2, VerdictsOfRules
<1>3. CASE Platform = "linux"
  <2>1. ExtraFlags(f) = <<Usage({"signed", "smartscreen"} \cap DOMAIN f = {})>>
    BY <1>3 DEF ExtraFlags
  <2>2. \A x \in Verdict : <<x>> \in Seq(Verdict)
    OBVIOUS
  <2> QED BY <2>1, <2>2, VerdictsOfRules
<1> QED
  BY <1>1, <1>2, <1>3, ReportAssumption

\* A command line without a mistake names both files.
LEMMA BothNamed ==
  ASSUME NEW f, BadCommandLine(f) = ""
  PROVE  {"out", "row"} \subseteq DOMAIN f
<1> DEFINE a == <<OneOf(f, "checklist", {Platform})>>
           b == [i \in DOMAIN RequiredFlags |-> Required(f, RequiredFlags[i])]
           c == <<Run("at" \in DOMAIN f /\ f["at"] # "no date"), OneOf(f, "backend", {"native", "noop"})>>
           d == IF Platform = "macos" /\ "signed" \notin DOMAIN f THEN <<"refused">> ELSE ExtraFlags(f)
           e == <<Required(f, "out"), Required(f, "row"), Usage(DOMAIN f \subseteq KnownFlags)>>
           g == <<Run("log" \in DOMAIN f /\ f["log"] # "unreadable")>>
           all == a \o b \o c \o d \o e \o g
<1>1. /\ a \in Seq(Verdict) /\ b \in Seq(Verdict) /\ c \in Seq(Verdict) /\ d \in Seq(Verdict)
      /\ e \in Seq(Verdict) /\ g \in Seq(Verdict)
  <2>1. a \in Seq(Verdict)
    BY VerdictsOfRules, Strings
  <2>2. b \in Seq(Verdict)
    <3>1. b \in [1 .. 8 -> Verdict]
      BY EightRequired, VerdictsOfRules
    <3> HIDE DEF b
    <3> QED BY <3>1, SeqDef
  <2>3. c \in Seq(Verdict)
    BY VerdictsOfRules, Strings
  <2>4. d \in Seq(Verdict)
    <3>1. <<"refused">> \in Seq(Verdict)
      BY Strings DEF Verdict
    <3> QED BY <3>1, ExtraVerdicts
  <2>5. e \in Seq(Verdict)
    BY VerdictsOfRules, Strings
  <2>6. g \in Seq(Verdict)
    BY VerdictsOfRules, Strings
  <2> QED BY <2>1, <2>2, <2>3, <2>4, <2>5, <2>6
<1>4. BadCommandLine(f) = FirstOf(all)
  BY DEF BadCommandLine
<1>5. Fine(e)
  <2> HIDE DEF a, b, c, d, e, g
  <2>1. a \o b \in Seq(Verdict)
    BY <1>1, FineParts
  <2>2. a \o b \o c \in Seq(Verdict)
    BY <1>1, <2>1, FineParts
  <2>3. a \o b \o c \o d \in Seq(Verdict)
    BY <1>1, <2>2, FineParts
  <2>4. a \o b \o c \o d \o e \in Seq(Verdict)
    BY <1>1, <2>3, FineParts
  <2>5. all \in Seq(Verdict)
    BY <1>1, <2>4, FineParts
  <2>6. Fine(all)
    BY <1>4, <2>5, FirstOfNone
  <2> QED BY <1>1, <2>3, <2>4, <2>6, FineParts
<1>6. Required(f, "out") = "" /\ Required(f, "row") = ""
  BY <1>5, FineTriple
<1> QED
  BY <1>6 DEF Required, Run
-----------------------------------------------------------------------------
\* What a process has claimed is what it has read.
Claims(s) == \A i \in ChecklistOf[Platform] : s.results[i] # "not-run" =>
               \E n \in DOMAIN s.notes : /\ s.notes[n].item = i /\ s.notes[n].verdict = s.results[i]
                                         /\ s.notes[n].evidence
Built(s) == /\ {"out", "row", "results", "notes"} \subseteq DOMAIN s
            /\ s.out \in Outputs /\ s.row \in Outputs
            /\ Claims(s)
Active == {"row", "out", "undo"}
Whole(r, s) == [by |-> r, whole |-> TRUE, results |-> s.results]

\* A process and the files: its row is its own while it writes the report, both are when
\* it has ended well.
Owns(r, s, files) ==
  /\ {"step", "exit"} \subseteq DOMAIN s
  /\ s.step \in Active \cup {"start"} => s.exit = "none"
  /\ s.step \in Active \/ s.exit = "0" => Built(s)
  /\ s.step \in {"out", "undo"} \/ s.exit = "0" => files[s.row] = Whole(r, s)
  /\ s.exit = "0" => files[s.out] = Whole(r, s)
ReportInv == /\ DOMAIN written = Outputs /\ DOMAIN reporter = Reporters
             /\ \A r \in Reporters : Owns(r, reporter[r], written)

LEMMA FilesDiffer ==
  ASSUME NEW r, NEW q, NEW s, NEW t
  PROVE  Whole(r, s) # NoFile /\ (Whole(r, s) = Whole(q, t) => r = q)
<1>1. "whole" \in DOMAIN Whole(r, s) /\ "whole" \notin DOMAIN NoFile
  BY DEF Whole, NoFile
<1>2. Whole(r, s).by = r /\ Whole(q, t).by = q
  BY DEF Whole
<1> QED
  BY <1>1, <1>2

\* What one process does to the files leaves another's to it: where it wrote there was
\* none, and what it removed was its own.
LEMMA OthersStay ==
  ASSUME NEW q, NEW s, NEW files, NEW later, Owns(q, s, files),
         \A p \in Outputs : files[p] = Whole(q, s) => later[p] = files[p]
  PROVE  Owns(q, s, later)
BY DEF Owns, Built, Active

\* Every way a process goes on keeps what it has built.
Goes(s, t, step, exit) == /\ {"step", "exit"} \subseteq DOMAIN s
                          /\ t = [s EXCEPT !.step = step, !.exit = exit]

LEMMA GoesOn ==
  ASSUME NEW s, NEW step, NEW exit, NEW t, Goes(s, t, step, exit)
  PROVE  /\ {"step", "exit"} \subseteq DOMAIN t /\ t.step = step /\ t.exit = exit
         /\ Built(s) => /\ Built(t) /\ t.out = s.out /\ t.row = s.row
                        /\ \A r : Whole(r, t) = Whole(r, s)
<1>1. /\ DOMAIN t = DOMAIN s /\ t.step = step /\ t.exit = exit
      /\ \A x \in DOMAIN s \ {"step", "exit"} : t[x] = s[x]
  BY DEF Goes
<1>2. ASSUME Built(s)
      PROVE  t.out = s.out /\ t.row = s.row /\ t.results = s.results /\ t.notes = s.notes
  BY <1>1, <1>2 DEF Built
<1>3. Built(s) => Built(t)
  BY <1>1, <1>2 DEF Built, Claims
<1> QED
  BY <1>1, <1>2, <1>3 DEF Whole, Goes

\* A step of one process: how it goes on, and that it leaves the others' files alone.
Moves(r, step, exit) == reporter' = [reporter EXCEPT ![r].step = step, ![r].exit = exit]
Spares(r) == /\ DOMAIN written' = Outputs
             /\ \A q \in Reporters \ {r}, p \in Outputs :
                  written[p] = Whole(q, reporter[q]) => written'[p] = written[p]

LEMMA BuildClaims ==
  ASSUME NEW f \in CommandLines, NEW entries, BadCommandLine(f) = "", Admissible(entries),
         NEW s, s = [step |-> "row", exit |-> "none", out |-> f["out"], row |-> f["row"],
                     results |-> Results(entries), notes |-> entries]
  PROVE  Built(s)
<1>1. {"out", "row"} \subseteq DOMAIN f
  BY BothNamed
<1>2. f["out"] \in Outputs /\ f["row"] \in Outputs
  BY <1>1 DEF Outputs
<1>3. ASSUME NEW i \in ChecklistOf[Platform], Results(entries)[i] # "not-run"
      PROVE  \E n \in DOMAIN entries : /\ entries[n].item = i
                                       /\ entries[n].verdict = Results(entries)[i]
                                       /\ entries[n].evidence
  <2>1. PICK m \in DOMAIN entries : entries[m].item = i
    BY <1>3 DEF Results
  <2> DEFINE e == CHOOSE x \in Range(entries) : x.item = i
  <2>2. e \in Range(entries) /\ e.item = i
    BY <2>1 DEF Range
  <2>3. PICK n \in DOMAIN entries : entries[n] = e
    BY <2>2 DEF Range
  <2>4. Results(entries)[i] = e.verdict
    BY <2>1 DEF Results
  <2>5. Observed(entries[n])
    BY DEF Admissible
  <2> HIDE DEF e
  <2>6. entries[n].evidence
    BY <1>3, <2>3, <2>4, <2>5 DEF Observed
  <2> QED BY <2>2, <2>3, <2>4, <2>6
<1>4. /\ s.results = Results(entries) /\ s.notes = entries /\ s.out = f["out"] /\ s.row = f["row"]
      /\ DOMAIN s = {"step", "exit", "out", "row", "results", "notes"}
  OBVIOUS
<1> QED
  BY <1>2, <1>3, <1>4 DEF Built, Claims

LEMMA ReportStep == ReportInv /\ [ReportNext]_reportVars => ReportInv'
<1> SUFFICES ASSUME ReportInv, [ReportNext]_reportVars PROVE ReportInv'
  OBVIOUS
<1>1. CASE UNCHANGED reportVars
  BY <1>1 DEF reportVars, ReportInv
<1>2. ASSUME NEW r \in Reporters, NEW t, reporter' = [reporter EXCEPT ![r] = t],
             Spares(r), Owns(r, t, written')
      PROVE  ReportInv'
  <2>1. /\ DOMAIN reporter' = Reporters /\ reporter'[r] = t
        /\ \A q \in Reporters \ {r} : reporter'[q] = reporter[q]
    BY <1>2 DEF ReportInv
  <2>2. ASSUME NEW q \in Reporters \ {r} PROVE Owns(q, reporter[q], written')
    <3>1. Owns(q, reporter[q], written)
      BY DEF ReportInv
    <3>2. \A p \in Outputs : written[p] = Whole(q, reporter[q]) => written'[p] = written[p]
      BY <1>2 DEF Spares
    <3> QED BY <3>1, <3>2, OthersStay
  <2>3. \A q \in Reporters : Owns(q, reporter'[q], written')
    BY <1>2, <2>1, <2>2
  <2> QED BY <1>2, <2>1, <2>3 DEF ReportInv, Spares
<1>3. ASSUME NEW r \in Reporters, NEW step, NEW exit, Moves(r, step, exit), Spares(r),
             reporter[r].step \in Active,
             \/ step \in Active /\ exit = "none"
             \/ step = "ended" /\ exit \in {"0", "1", "killed"},
             step \in {"out", "undo"} \/ exit = "0" => written'[reporter[r].row] = Whole(r, reporter[r]),
             exit = "0" => written'[reporter[r].out] = Whole(r, reporter[r])
      PROVE  ReportInv'
  <2> DEFINE s == reporter[r]
             t == [s EXCEPT !.step = step, !.exit = exit]
  <2>1. Owns(r, s, written) /\ Built(s)
    BY <1>3 DEF ReportInv, Owns
  <2>2. /\ {"step", "exit"} \subseteq DOMAIN t /\ t.step = step /\ t.exit = exit
        /\ Built(t) /\ t.out = s.out /\ t.row = s.row /\ Whole(r, t) = Whole(r, s)
    <3>1. Goes(s, t, step, exit)
      BY <2>1 DEF Owns, Goes
    <3> HIDE DEF s, t
    <3> QED BY <2>1, <3>1, GoesOn
  <2>3. reporter' = [reporter EXCEPT ![r] = t]
    BY <1>3 DEF ReportInv, Moves
  <2> HIDE DEF t
  <2>4. Owns(r, t, written')
    BY <1>3, <2>2 DEF Owns, Active
  <2> QED BY <1>2, <1>3, <2>3, <2>4
<1>4. ASSUME NEW r \in Reporters, NEW f \in CommandLines, NEW entries \in Observations,
             Build(r, f, entries)
      PROVE  ReportInv'
  <2> DEFINE s == reporter[r]
             t == [step |-> "row", exit |-> "none", out |-> f["out"], row |-> f["row"],
                   results |-> Results(entries), notes |-> entries]
  <2>1. Spares(r)
    BY <1>4 DEF Build, ReportInv, Spares
  <2>2. CASE BadCommandLine(f) = "" /\ Admissible(entries)
    <3>1. reporter' = [reporter EXCEPT ![r] = t]
      BY <1>4, <2>2 DEF Build
    <3>2. Built(t)
      BY <2>2, BuildClaims
    <3>3. {"step", "exit"} \subseteq DOMAIN t /\ t.step = "row" /\ t.exit = "none"
      OBVIOUS
    <3> HIDE DEF t
    <3>4. Owns(r, t, written')
      BY <3>2, <3>3 DEF Owns, Active
    <3> QED BY <1>2, <2>1, <3>1, <3>4
  <2>3. CASE ~ (BadCommandLine(f) = "" /\ Admissible(entries))
    <3>1. PICK exit \in {"1", "3"} : Exit(r, exit)
      BY <1>4, <2>3 DEF Build
    <3> DEFINE u == [s EXCEPT !.step = "ended", !.exit = exit]
    <3>2. reporter' = [reporter EXCEPT ![r] = u]
      BY <3>1 DEF Exit, ReportInv
    <3>3. {"step", "exit"} \subseteq DOMAIN s
      BY DEF ReportInv, Owns
    <3>4. {"step", "exit"} \subseteq DOMAIN u /\ u.step = "ended" /\ u.exit = exit
      BY <3>3
    <3> HIDE DEF u
    <3>5. Owns(r, u, written')
      BY <3>4 DEF Owns, Active
    <3> QED BY <1>2, <2>1, <3>2, <3>5
  <2> QED BY <2>2, <2>3
\* What a process at work may rely on.
<1>5. ASSUME NEW r \in Reporters, reporter[r].step \in Active
      PROVE  LET s == reporter[r]
             IN  /\ s.row \in Outputs /\ s.out \in Outputs
                 /\ s.step \in {"out", "undo"} => written[s.row] = Whole(r, s)
                 /\ \A step : reporter' = [reporter EXCEPT ![r].step = step] => Moves(r, step, "none")
  <2>1. Owns(r, reporter[r], written) /\ Built(reporter[r])
    BY <1>5 DEF ReportInv, Owns
  <2>2. reporter[r].exit = "none" /\ {"step", "exit"} \subseteq DOMAIN reporter[r]
    BY <1>5, <2>1 DEF Owns
  <2>3. ASSUME NEW step
        PROVE  [reporter EXCEPT ![r].step = step] = [reporter EXCEPT ![r].step = step, ![r].exit = "none"]
    <3>1. [reporter[r] EXCEPT !.step = step] = [reporter[r] EXCEPT !.step = step, !.exit = "none"]
      BY <2>2
    <3> QED BY <3>1, <2>2 DEF ReportInv
  <2> QED BY <2>1, <2>2, <2>3 DEF Owns, Built, Moves
<1>6. ASSUME NEW r \in Reporters, written' = written PROVE Spares(r)
  BY <1>6 DEF Spares, ReportInv
<1>7. ASSUME NEW r \in Reporters, NEW path \in Outputs, NEW whole, CreateNew(r, path, whole)
      PROVE  /\ Spares(r) /\ written'[path] = File(r, whole)
             /\ \A p \in Outputs : written[p] = Whole(r, reporter[r]) => written'[p] = written[p]
  <2>1. written[path] = NoFile /\ written' = [written EXCEPT ![path] = File(r, whole)]
    BY <1>7 DEF CreateNew
  <2>2. \A q : written[path] # Whole(q, reporter[q])
    BY <2>1, FilesDiffer
  <2>3. /\ DOMAIN written' = Outputs /\ written'[path] = File(r, whole)
        /\ \A p \in Outputs \ {path} : written'[p] = written[p]
    BY <2>1 DEF ReportInv
  <2> QED BY <2>2, <2>3 DEF Spares
<1>8. \A r \in Reporters : File(r, TRUE) = Whole(r, reporter[r])
  BY DEF File, Whole
<1>9. ASSUME NEW r \in Reporters, WriteRow(r) PROVE ReportInv'
  <2>1. reporter[r].step \in Active
    BY <1>9 DEF WriteRow, Active
  <2>2. CreateNew(r, reporter[r].row, TRUE) /\ Moves(r, "out", "none")
    BY <1>5, <1>9, <2>1 DEF WriteRow
  <2>3. Spares(r) /\ written'[reporter[r].row] = Whole(r, reporter[r])
    BY <1>5, <1>7, <1>8, <2>1, <2>2
  <2> QED BY <1>3, <2>1, <2>2, <2>3 DEF Active
<1>10. ASSUME NEW r \in Reporters, RowFails(r) PROVE ReportInv'
  <2>1. reporter[r].step \in Active /\ Moves(r, "ended", "1")
    BY <1>10 DEF RowFails, Active, Exit, Moves
  <2>2. written' = written \/ CreateNew(r, reporter[r].row, FALSE)
    BY <1>10 DEF RowFails
  <2>3. Spares(r)
    BY <1>5, <1>6, <1>7, <2>1, <2>2
  <2> QED BY <1>3, <2>1, <2>3
<1>11. ASSUME NEW r \in Reporters, WriteOut(r) PROVE ReportInv'
  <2>1. reporter[r].step \in Active /\ reporter[r].step = "out" /\ Moves(r, "ended", "0")
    BY <1>11 DEF WriteOut, Active, Exit, Moves
  <2>2. CreateNew(r, reporter[r].out, TRUE)
    BY <1>11 DEF WriteOut
  <2>3. reporter[r].row \in Outputs /\ written[reporter[r].row] = Whole(r, reporter[r])
    BY <1>5, <2>1
  <2>4. /\ Spares(r) /\ written'[reporter[r].out] = Whole(r, reporter[r])
        /\ written'[reporter[r].row] = Whole(r, reporter[r])
    BY <1>5, <1>7, <1>8, <2>1, <2>2, <2>3
  <2> QED BY <1>3, <2>1, <2>4
<1>12. ASSUME NEW r \in Reporters, OutFails(r) PROVE ReportInv'
  <2>1. reporter[r].step \in Active /\ reporter[r].step = "out"
    BY <1>12 DEF OutFails, Active
  <2>2. Moves(r, "undo", "none") /\ (written' = written \/ CreateNew(r, reporter[r].out, FALSE))
    BY <1>5, <1>12, <2>1 DEF OutFails
  <2>3. reporter[r].row \in Outputs /\ written[reporter[r].row] = Whole(r, reporter[r])
    BY <1>5, <2>1
  <2>4. Spares(r) /\ written'[reporter[r].row] = Whole(r, reporter[r])
    BY <1>5, <1>6, <1>7, <2>1, <2>2, <2>3
  <2> QED BY <1>3, <2>1, <2>2, <2>4 DEF Active
<1>13. ASSUME NEW r \in Reporters, UndoRow(r) PROVE ReportInv'
  <2>1. /\ reporter[r].step \in Active /\ reporter[r].step = "undo" /\ Moves(r, "ended", "1")
        /\ written' = [written EXCEPT ![reporter[r].row] = NoFile]
    BY <1>13 DEF UndoRow, Active, Exit, Moves
  <2>2. written[reporter[r].row] = Whole(r, reporter[r])
    BY <1>5, <2>1
  <2>3. Spares(r)
    BY <2>1, <2>2, FilesDiffer DEF Spares, ReportInv
  <2> QED BY <1>3, <2>1, <2>3
<1>14. ASSUME NEW r \in Reporters, Killed(r) PROVE ReportInv'
  <2>1. reporter[r].step \in Active /\ Moves(r, "ended", "killed") /\ Spares(r)
    BY <1>6, <1>14 DEF Killed, Active, Exit, Moves
  <2> QED BY <1>3, <2>1
<1> QED
  BY <1>1, <1>4, <1>9, <1>10, <1>11, <1>12, <1>13, <1>14 DEF ReportNext

\* A report that is there is there with its row, and says what was observed, however many
\* are written at once onto the same paths, whatever fails and whoever is killed
\* (report.rs: build, write).
THEOREM ReportAndRow == ReportSpec => []TwoFilesOfOneRun
<1>1. ReportInit => ReportInv
  <2> SUFFICES ASSUME ReportInit PROVE ReportInv
    OBVIOUS
  <2>1. DOMAIN written = Outputs /\ DOMAIN reporter = Reporters
    BY DEF ReportInit
  <2>2. ASSUME NEW r \in Reporters PROVE Owns(r, reporter[r], written)
    <3>1. reporter[r] = [step |-> "start", exit |-> "none"]
      BY DEF ReportInit
    <3> QED BY <3>1 DEF Owns, Active
  <2> QED BY <2>1, <2>2 DEF ReportInv
<1>2. ReportInv => TwoFilesOfOneRun
  <2> SUFFICES ASSUME ReportInv, NEW r \in Reporters, reporter[r].exit = "0"
               PROVE  /\ written[reporter[r].row] = File(r, TRUE) /\ written[reporter[r].out] = File(r, TRUE)
                      /\ Claims(reporter[r])
    BY DEF TwoFilesOfOneRun, Claims
  <2>1. Owns(r, reporter[r], written) /\ File(r, TRUE) = Whole(r, reporter[r])
    BY DEF ReportInv, File, Whole
  <2> QED BY <2>1 DEF Owns, Built
<1> QED
  BY ReportStep, <1>1, <1>2, PTL DEF ReportSpec

-----------------------------------------------------------------------------
(* Configuration *)

\* The worker's environment is the daemon's own answers, from the spawn to the load, and
\* what was resolved at the start stays while the daemon runs.
PlaceInv ==
  /\ "up" \in DOMAIN daemon /\ daemon.up \in BOOLEAN
  /\ daemon.up => {"dir", "backend", "badConfig"} \subseteq DOMAIN daemon
  /\ rotating # "no" => daemon.up
  /\ worker.loaded \in BOOLEAN
  /\ worker.loaded => rotating = "loaded" /\ worker.dir = daemon.dir /\ worker.backend = daemon.backend
  /\ rotating = "spawned" => worker.env = [dir |-> daemon.dir, backend |-> daemon.backend]

LEMMA PlaceStep == PlaceInv /\ [ConfNext]_confVars => PlaceInv'
<1> SUFFICES ASSUME PlaceInv, [ConfNext]_confVars PROVE PlaceInv'
  OBVIOUS
<1> USE DEF PlaceInv
<1>1. CASE UNCHANGED confVars
  BY <1>1 DEF confVars
<1>2. ASSUME NEW name, EditFile(name) PROVE PlaceInv'
  BY <1>2 DEF EditFile
<1>3. ASSUME NEW flags, NEW env, StartDaemon(flags, env) PROVE PlaceInv'
  <2>1. /\ rotating = "no" /\ rotating' = "no" /\ worker' = worker /\ ~ worker.loaded
        /\ \/ daemon' = DaemonDown
           \/ \E c, n, dir, b : daemon' = [up |-> TRUE, config |-> c, read |-> n, dir |-> dir,
                                            backend |-> b, badConfig |-> FALSE]
    BY <1>3 DEF StartDaemon
  <2>2. CASE daemon' = DaemonDown
    BY <2>1, <2>2 DEF DaemonDown
  <2>3. ASSUME NEW c, NEW n, NEW dir, NEW b,
               daemon' = [up |-> TRUE, config |-> c, read |-> n, dir |-> dir, backend |-> b,
                          badConfig |-> FALSE]
        PROVE  PlaceInv'
    BY <2>1, <2>3
  <2> QED BY <2>1, <2>2, <2>3
<1>4. CASE StopDaemon
  BY <1>4 DEF StopDaemon, DaemonDown, NoWorker
<1>5. CASE Reconfigure
  BY <1>5 DEF Reconfigure
<1>6. CASE ReadDeadline
  BY <1>6 DEF ReadDeadline
<1>7. CASE SpawnWith
  BY <1>7 DEF SpawnWith
<1>8. CASE WorkerLoads
  <2> DEFINE config == ReadConfig(file).config
  <2>1. rotating = "spawned" /\ daemon.up
    BY <1>8 DEF WorkerLoads
  <2>2. \/ /\ rotating' = "loaded" /\ daemon' = daemon
           /\ worker' = [loaded |-> TRUE, config |-> config, read |-> file,
                         dir |-> CacheDirOf(worker.env, config), backend |-> BackendOf(worker.env, config)]
        \/ rotating' = "no" /\ worker' = NoWorker /\ daemon' = [daemon EXCEPT !.badConfig = TRUE]
    BY <1>8, Zenon DEF WorkerLoads
  <2>3. CacheDirOf(worker.env, config) = daemon.dir /\ BackendOf(worker.env, config) = daemon.backend
    BY <2>1 DEF CacheDirOf, BackendOf
  <2> HIDE DEF config
  <2>4. CASE rotating' = "loaded"
    <3>1. /\ daemon' = daemon /\ worker'.loaded = TRUE /\ worker'.dir = daemon.dir
          /\ worker'.backend = daemon.backend
      BY <2>2, <2>3, <2>4
    <3> QED BY <2>1, <2>4, <3>1
  <2>5. CASE rotating' = "no"
    <3>1. worker'.loaded = FALSE
      BY <2>2, <2>5 DEF NoWorker
    <3>2. daemon' = [daemon EXCEPT !.badConfig = TRUE]
      BY <2>2, <2>5
    <3> QED BY <2>1, <2>5, <3>1, <3>2
  <2> QED BY <2>2, <2>4, <2>5
<1>9. CASE WorkerEnds
  BY <1>9 DEF WorkerEnds, NoWorker
<1> QED
  BY <1>1, <1>2, <1>3, <1>4, <1>5, <1>6, <1>7, <1>8, <1>9 DEF ConfNext

\* An apply of a worker that had its configuration is put by the backend and into the
\* cache directory that the daemon resolved when it started, whatever the files say by then:
\* the worker resolves again, and the answers it is given in its environment come first
\* (main.rs; worker.rs spawn; config.rs resolve_cache_dir, resolve_backend).
THEOREM OneCacheOneBackend == ConfSpec => []OnePlace
<1>1. ConfInit => PlaceInv
  BY DEF ConfInit, PlaceInv, DaemonDown, NoWorker
<1>2. PlaceInv => OnePlace
  BY DEF PlaceInv, OnePlace
<1> QED
  BY PlaceStep, <1>1, <1>2, PTL DEF ConfSpec

\* Every set of positions with a member has a last one.
LEMMA LastOf ==
  ASSUME NEW n \in Nat, NEW S \in SUBSET (1 .. n), S # {}
  PROVE  Max(S) \in S /\ \A y \in S : y <= Max(S)
<1> DEFINE back == {n - y : y \in S}
<1>1. back \in SUBSET Nat /\ back # {}
  <2>1. \A y \in S : n - y \in Nat
    OBVIOUS
  <2> QED BY <2>1
<1>2. Min(back) \in back /\ \A z \in back : Min(back) <= z
  <2> HIDE DEF back
  <2> QED BY <1>1, LeastNatural
<1>3. PICK x \in S : Min(back) = n - x
  BY <1>2
<1>4. ASSUME NEW y \in S PROVE y <= x
  <2>1. n - y \in back
    OBVIOUS
  <2>2. n - x <= n - y
    BY <1>2, <1>3, <2>1
  <2> QED BY <2>2
<1> QED
  BY <1>4 DEF Max

\* What parse_root relies on of its own table.
CountTypes == {"int", "u32", "u64"}
RatioKeys == {"filters.ratio_tolerance", "filters.target_ratio"}
LEMMA RowsHold ==
  /\ DOMAIN RootRows = 1 .. 35
  /\ \A i \in 1 .. 35 : LET r == RootRows[i] IN
       /\ r[1] = "none" => FALSE
       /\ r[2] \in CountTypes => r[1] \notin RatioKeys
       /\ r[2] \in {"float", "float?"} => r[1] \in RatioKeys
       /\ r[2] \in CountTypes \cup {"float", "float?", "bool", "text", "text?", "objects", "object"}
BY DEF RootRows, CountTypes, RatioKeys
LEMMA EveryKeyHasARow ==
  \A k \in DOMAIN Defaults : \E i \in 1 .. 35 : RootRows[i][1] = k
<1>1. \A r \in DefaultNumbers : \E i \in 1 .. 35 : RootRows[i][1] = r[1]
  <2>1. /\ RootRows[1][1] = "config_schema"
        /\ RootRows[4][1] = "log_max_bytes"
        /\ RootRows[5][1] = "prefetch"
        /\ RootRows[7][1] = "schedule.interval_seconds"
        /\ RootRows[8][1] = "schedule.worker_deadline_seconds"
        /\ RootRows[15][1] = "min_width"
        /\ RootRows[16][1] = "min_height"
        /\ RootRows[18][1] = "filters.max_bytes"
        /\ RootRows[22][1] = "state.history_entries"
        /\ RootRows[24][1] = "dedupe.recent_entries"
        /\ RootRows[29][1] = "cache.max_bytes"
        /\ RootRows[30][1] = "cache.max_files"
        /\ RootRows[32][1] = "cache.grace_seconds"
        /\ RootRows[33][1] = "cache.orphan_grace_seconds"
    BY DEF RootRows
  <2> QED
    BY <2>1 DEF DefaultNumbers
<1>2. \A r \in DefaultOthers : \E i \in 1 .. 35 : RootRows[i][1] = r[1]
  <2>1. /\ RootRows[2][1] = "socket"
        /\ RootRows[3][1] = "log_level"
        /\ RootRows[10][1] = "startup.enabled"
        /\ RootRows[11][1] = "startup.mode"
        /\ RootRows[12][1] = "startup.respect_manual"
        /\ RootRows[14][1] = "display.mode"
        /\ RootRows[19][1] = "filters.ratio_tolerance"
        /\ RootRows[20][1] = "filters.target_ratio"
        /\ RootRows[27][1] = "cache.root"
        /\ RootRows[34][1] = "backend"
        /\ RootRows[35][1] = "sources"
    BY DEF RootRows
  <2>2. ASSUME NEW r \in DefaultOthers
        PROVE  r[1] \in {"socket", "log_level", "startup.enabled", "startup.mode",
                        "startup.respect_manual", "display.mode", "filters.ratio_tolerance", "filters.target_ratio",
                        "cache.root", "backend", "sources"}
    BY DEF DefaultOthers, Null, Bool, Text, Fraction, Objects
  <2> QED
    BY <2>1, <2>2
<1> TAKE k \in DOMAIN Defaults
<1>3. PICK r \in DefaultRows : r[1] = k
  BY DEF Defaults
<1>4. CASE r \in DefaultOthers
  BY <1>2, <1>3, <1>4
<1>5. ASSUME NEW p \in DefaultNumbers, r = <<p[1], Num(p[2])>>
      PROVE  \E i \in 1 .. 35 : RootRows[i][1] = k
  <2>1. \E i \in 1 .. 35 : RootRows[i][1] = p[1]
    BY <1>1
  <2> QED
    BY <1>3, <1>5, <2>1
<1> QED
  BY <1>3, <1>4, <1>5 DEF DefaultRows
LEMMA OtherSpellings ==
  \A i \in 1 .. 35 :
    /\ RootRows[i][1] = "keep" <=> i = 25
    /\ RootRows[i][1] = "cache.root" <=> i = 27
    /\ RootRows[i][1] = "cache.cache_dir" <=> i = 28
    /\ RootRows[i][1] = "cache.max_files" <=> i = 30
    /\ RootRows[i][1] = "cache.keep" <=> i = 31
BY DEF RootRows
LEMMA NumbersAreSmall == \A r \in DefaultNumbers : r[1] \notin RatioKeys /\ r[2] \in 0 .. I64Max
<1> TAKE r \in DefaultNumbers
<1>1. r[1] \notin RatioKeys
  BY DEF DefaultNumbers, RatioKeys
<1>2. r[2] \in {1, 8192, 2, 1800, 300, 1600, 900, 40, 50, 2048, 500, 600}
  BY DEF DefaultNumbers
<1>3. r[2] \in 0 .. I64Max
  BY <1>2 DEF I64Max
<1> QED
  BY <1>1, <1>3
LEMMA SmallStays == \A n \in 0 .. I64Max : Saturated(n) = n
<1> SUFFICES ASSUME NEW n \in 0 .. I64Max PROVE Saturated(n) = n
  OBVIOUS
<1>1. I64Max = 20000
  BY DEF I64Max
<1>2. Max({n, -I64Max - 1}) = n
  <2>1. \A x \in {n, -I64Max - 1} : (\A y \in {n, -I64Max - 1} : x >= y) <=> x = n
    BY <1>1
  <2> QED BY <2>1 DEF Max
<1>3. Min({n, I64Max}) = n
  <2>1. \A x \in {n, I64Max} : (\A y \in {n, I64Max} : x <= y) <=> x = n
    BY <1>1
  <2> QED BY <2>1 DEF Min
<1> QED
  BY <1>2, <1>3 DEF Saturated

LEMMA DefaultsStand ==
  ASSUME NEW k \in DOMAIN Defaults
  PROVE  LET v == Defaults[k] IN v.type = "number" => k \notin RatioKeys /\ Num(Saturated(v.n)) = v
<1>1. PICK r \in DefaultRows : r[1] = k /\ Defaults[k] = r[2]
  BY DEF Defaults
<1>2. ASSUME NEW p \in DefaultNumbers, r = <<p[1], Num(p[2])>>
      PROVE  k \notin RatioKeys /\ Num(Saturated(r[2].n)) = r[2]
  BY <1>1, <1>2, SmallStays, NumbersAreSmall DEF Num
<1>3. CASE r \in DefaultOthers
  <2>1. r[2].type # "number"
    BY <1>3 DEF DefaultOthers, Null, Bool, Text, Fraction, Objects
  <2> QED BY <1>1, <2>1
<1> QED
  BY <1>1, <1>2, <1>3 DEF DefaultRows

\* What a row keeps of a value it takes.
LEMMA KeptOfRow ==
  ASSUME NEW i \in 1 .. 35, NEW v, Fits(RootRows[i][2], v)
  PROVE  Kept(RootRows[i][2], v) = IF v.type = "number" /\ RootRows[i][1] \notin RatioKeys
                                   THEN Num(Saturated(v.n)) ELSE v
<1> DEFINE want == RootRows[i][2]
<1>1. want \in CountTypes \cup {"float", "float?", "bool", "text", "text?", "objects", "object"}
  BY RowsHold
<1>2. want \in CountTypes => RootRows[i][1] \notin RatioKeys
  BY RowsHold
<1>3. want \in {"float", "float?"} => RootRows[i][1] \in RatioKeys
  BY RowsHold
<1> HIDE DEF want
<1>4. CASE want \in CountTypes
  <2>1. v.type = "number"
    BY <1>4 DEF Fits, CountTypes, want
  <2> QED
    BY <1>2, <1>4, <2>1 DEF Kept, CountTypes, want
<1>5. CASE want \in {"float", "float?"}
  BY <1>3, <1>5 DEF Kept, want
<1>6. CASE want \in {"bool", "text", "text?", "objects", "object"}
  <2>1. v.type # "number"
    BY <1>6 DEF Fits, want
  <2> QED
    BY <1>6, <2>1 DEF Kept, want
<1> QED
  BY <1>1, <1>4, <1>5, <1>6

LEMMA TargetIs ==
  \A x : Target(x) = IF x \in {"keep", "cache.keep"} THEN "cache.max_files"
                     ELSE IF x = "cache.cache_dir" THEN "cache.root" ELSE x
BY DEF Target
LEMMA IsReadIs ==
  \A doc, x : IsRead(doc, x) <=>
    /\ x \in DOMAIN doc
    /\ x = "cache.cache_dir" => "cache.root" \notin DOMAIN doc
    /\ x = "cache.keep" => "cache.max_files" \notin DOMAIN doc
BY DEF IsRead, Superseded
LEMMA NotKeys == {"keep", "cache.keep", "cache.cache_dir"} \cap DOMAIN Defaults = {}
<1>1. \A r \in DefaultNumbers : r[1] \notin {"keep", "cache.keep", "cache.cache_dir"}
  BY DEF DefaultNumbers
<1>2. \A r \in DefaultOthers : r[1] \notin {"keep", "cache.keep", "cache.cache_dir"}
  BY DEF DefaultOthers, Null, Bool, Text, Fraction, Objects
<1>3. \A r \in DefaultRows : r[1] \notin {"keep", "cache.keep", "cache.cache_dir"}
  <2> TAKE r \in DefaultRows
  <2>1. ASSUME NEW p \in DefaultNumbers, r = <<p[1], Num(p[2])>> PROVE r[1] = p[1]
    BY <2>1
  <2> QED
    BY <1>1, <1>2, <2>1 DEF DefaultRows
<1> QED
  BY <1>3 DEF Defaults

\* The row whose assignment to a key stays, or none.
RowsGiving(doc, k) == {i \in 1 .. 35 : IsRead(doc, RootRows[i][1]) /\ Target(RootRows[i][1]) = k}
SaidBy(v, k) == IF v.type = "number" /\ k \notin RatioKeys THEN Num(Saturated(v.n)) ELSE v

LEMMA GivenIs ==
  ASSUME NEW doc, NEW k \in DOMAIN Defaults
  PROVE  LET given == RowsGiving(doc, k) IN
         /\ given = {} => Says(doc, k) = Defaults[k]
         /\ given # {} => /\ Max(given) \in given
                          /\ Says(doc, k) = doc[RootRows[Max(given)][1]]
<1> DEFINE given == RowsGiving(doc, k)
           last == Max(given)
<1>1. given \in SUBSET (1 .. 35) /\ (given # {} => last \in given /\ \A i \in given : i <= last)
  <2>1. given \in SUBSET (1 .. 35)
    BY DEF RowsGiving
  <2> HIDE DEF given
  <2> QED
    BY <2>1, LastOf
<1>2. \A i \in 1 .. 35 : i \in given <=> IsRead(doc, RootRows[i][1]) /\ Target(RootRows[i][1]) = k
  BY DEF RowsGiving
<1> HIDE DEF given, last
<1>3. CASE k \notin {"cache.max_files", "cache.root"}
  <2>1. Spellings(k) = <<k>>
    BY <1>3 DEF Spellings
  <2>2. Says(doc, k) = IF k \in DOMAIN doc THEN doc[k] ELSE Defaults[k]
    BY <2>1, LeastNatural DEF Says
  <2>3. k \notin {"keep", "cache.keep", "cache.cache_dir"}
    BY NotKeys
  <2>4. \A x : Target(x) = k <=> x = k
    BY <1>3, <2>3, TargetIs
  <2>5. IsRead(doc, k) <=> k \in DOMAIN doc
    BY <2>3, IsReadIs
  <2>6. PICK i \in 1 .. 35 : RootRows[i][1] = k
    BY EveryKeyHasARow
  <2>7. given = {} <=> k \notin DOMAIN doc
    BY <1>1, <1>2, <2>4, <2>5, <2>6
  <2>8. given # {} => RootRows[last][1] = k
    BY <1>1, <1>2, <2>4
  <2> QED
    BY <1>1, <2>2, <2>7, <2>8 DEF given, last
<1>4. CASE k = "cache.root"
  <2>1. Spellings(k) = <<"cache.root", "cache.cache_dir">>
    BY <1>4 DEF Spellings
  <2>2. Says(doc, k) = IF "cache.root" \in DOMAIN doc THEN doc["cache.root"]
                       ELSE IF "cache.cache_dir" \in DOMAIN doc THEN doc["cache.cache_dir"]
                       ELSE Defaults[k]
    BY <2>1, LeastNatural DEF Says
  <2>3. \A i \in 1 .. 35 : i \in given <=>
          \/ i = 27 /\ "cache.root" \in DOMAIN doc
          \/ i = 28 /\ "cache.cache_dir" \in DOMAIN doc /\ "cache.root" \notin DOMAIN doc
    BY <1>2, <1>4, TargetIs, IsReadIs, OtherSpellings
  <2>4. CASE "cache.root" \in DOMAIN doc
    <3>1. 27 \in given /\ \A i \in given : i = 27
      BY <1>1, <2>3, <2>4
    <3>2. given # {} /\ last = 27
      BY <1>1, <3>1
    <3> QED
      BY <1>1, <2>2, <2>4, <3>2, OtherSpellings DEF given, last
  <2>5. CASE "cache.root" \notin DOMAIN doc /\ "cache.cache_dir" \in DOMAIN doc
    <3>1. 28 \in given /\ \A i \in given : i = 28
      BY <1>1, <2>3, <2>5
    <3>2. given # {} /\ last = 28
      BY <1>1, <3>1
    <3> QED
      BY <1>1, <2>2, <2>5, <3>2, OtherSpellings DEF given, last
  <2>6. CASE "cache.root" \notin DOMAIN doc /\ "cache.cache_dir" \notin DOMAIN doc
    <3>1. given = {}
      BY <1>1, <2>3, <2>6
    <3> QED
      BY <2>2, <2>6, <3>1 DEF given
  <2> QED
    BY <2>4, <2>5, <2>6
<1>5. CASE k = "cache.max_files"
  <2>1. Spellings(k) = <<"cache.max_files", "cache.keep", "keep">>
    BY <1>5 DEF Spellings
  <2>2. Says(doc, k) = IF "cache.max_files" \in DOMAIN doc THEN doc["cache.max_files"]
                       ELSE IF "cache.keep" \in DOMAIN doc THEN doc["cache.keep"]
                       ELSE IF "keep" \in DOMAIN doc THEN doc["keep"]
                       ELSE Defaults[k]
    BY <2>1, LeastNatural DEF Says
  <2>3. \A i \in 1 .. 35 : i \in given <=>
          \/ i = 30 /\ "cache.max_files" \in DOMAIN doc
          \/ i = 31 /\ "cache.keep" \in DOMAIN doc /\ "cache.max_files" \notin DOMAIN doc
          \/ i = 25 /\ "keep" \in DOMAIN doc
    BY <1>2, <1>5, TargetIs, IsReadIs, OtherSpellings
  <2>4. CASE "cache.max_files" \in DOMAIN doc
    <3>1. 30 \in given /\ \A i \in given : i \in {25, 30}
      BY <1>1, <2>3, <2>4
    <3>2. given # {} /\ last = 30
      <4>1. last \in {25, 30} /\ 30 <= last
        BY <1>1, <3>1
      <4> QED
        BY <3>1, <4>1
    <3> QED
      BY <1>1, <2>2, <2>4, <3>2, OtherSpellings DEF given, last
  <2>5. CASE "cache.max_files" \notin DOMAIN doc /\ "cache.keep" \in DOMAIN doc
    <3>1. 31 \in given /\ \A i \in given : i \in {25, 31}
      BY <1>1, <2>3, <2>5
    <3>2. given # {} /\ last = 31
      <4>1. last \in {25, 31} /\ 31 <= last
        BY <1>1, <3>1
      <4> QED
        BY <3>1, <4>1
    <3> QED
      BY <1>1, <2>2, <2>5, <3>2, OtherSpellings DEF given, last
  <2>6. CASE /\ "cache.max_files" \notin DOMAIN doc /\ "cache.keep" \notin DOMAIN doc
             /\ "keep" \in DOMAIN doc
    <3>1. 25 \in given /\ \A i \in given : i = 25
      BY <1>1, <2>3, <2>6
    <3>2. given # {} /\ last = 25
      BY <1>1, <3>1
    <3> QED
      BY <1>1, <2>2, <2>6, <3>2, OtherSpellings DEF given, last
  <2>7. CASE /\ "cache.max_files" \notin DOMAIN doc /\ "cache.keep" \notin DOMAIN doc
             /\ "keep" \notin DOMAIN doc
    <3>1. given = {}
      BY <1>1, <2>3, <2>7
    <3> QED
      BY <2>2, <2>7, <3>1 DEF given
  <2> QED
    BY <2>4, <2>5, <2>6, <2>7
<1> QED
  BY <1>3, <1>4, <1>5

\* A document whose rows all hold has, for each of its keys, what it says.
LEMMA AssembledIsSaid ==
  ASSUME NEW doc, NEW k \in DOMAIN Defaults,
         \A i \in 1 .. 35 : IsRead(doc, RootRows[i][1]) => Fits(RootRows[i][2], doc[RootRows[i][1]])
  PROVE  Assemble(doc)[k] = SaidBy(Says(doc, k), k)
<1> DEFINE given == RowsGiving(doc, k)
           last == RootRows[Max(given)]
<1>1. Assemble(doc)[k] = IF given = {} THEN Defaults[k] ELSE Kept(last[2], doc[last[1]])
  <2>1. DOMAIN RootRows = 1 .. 35
    BY RowsHold
  <2> QED
    BY <2>1 DEF Assemble, Assigned, RowsGiving
<1>2. CASE given = {}
  BY <1>1, <1>2, GivenIs, DefaultsStand DEF SaidBy
<1>3. CASE given # {}
  <2>1. Max(given) \in given /\ Says(doc, k) = doc[last[1]]
    BY <1>3, GivenIs
  <2>2. /\ Max(given) \in 1 .. 35 /\ IsRead(doc, last[1]) /\ Target(last[1]) = k
    BY <2>1 DEF RowsGiving
  <2>3. k \in RatioKeys <=> last[1] \in RatioKeys
    BY <2>2, TargetIs DEF RatioKeys
  <2>4. Kept(last[2], doc[last[1]]) = SaidBy(doc[last[1]], last[1])
    BY <2>2, KeptOfRow DEF SaidBy
  <2> QED
    BY <1>1, <1>3, <2>1, <2>3, <2>4 DEF SaidBy
<1> QED
  BY <1>2, <1>3

\* What an empty answer of the checks means.
LEMMA NoBadRow ==
  ASSUME NEW doc, FirstBad(RootRows, doc, {}, "none") = "none", NEW i \in 1 .. 35,
         IsRead(doc, RootRows[i][1])
  PROVE  Fits(RootRows[i][2], doc[RootRows[i][1]])
<1> DEFINE Bad(r) == IF IsRead(doc, r[1]) THEN ~Fits(r[2], doc[r[1]]) \/ ~Allowed(r[1], doc[r[1]], "none")
                     ELSE r[1] \in {}
           bad == {j \in DOMAIN RootRows : Bad(RootRows[j])}
<1>1. FirstBad(RootRows, doc, {}, "none") = IF bad = {} THEN "none" ELSE RootRows[Min(bad)][1]
  BY DEF FirstBad
<1>2. bad \subseteq 1 .. 35 /\ bad \in SUBSET Nat
  <2>1. bad \subseteq DOMAIN RootRows
    OBVIOUS
  <2> HIDE DEF bad
  <2> QED
    BY <2>1, RowsHold
<1>3. bad = {}
  <2> HIDE DEF bad
  <2>1. bad # {} => Min(bad) \in 1 .. 35
    BY <1>2, LeastNatural
  <2> QED
    BY <1>1, <2>1, RowsHold
<1>4. ~Bad(RootRows[i])
  BY <1>3, RowsHold
<1> QED
  BY <1>4

LEMMA NoLimitBroken ==
  ASSUME NEW c, OffLimits(c) = "none"
  PROVE  \A l \in Range(Limits(c)) : l[2]
<1> DEFINE off == {i \in DOMAIN Limits(c) : ~Limits(c)[i][2]}
<1> HIDE DEF off
<1>1. DOMAIN Limits(c) = 1 .. 7 /\ \A i \in 1 .. 7 : Limits(c)[i][1] # "none"
  <2>1. ASSUME NEW p1, NEW p2, NEW p3, NEW p4, NEW p5, NEW p6, NEW p7, NEW all,
               all = << <<"cache.max_bytes", p1>>, <<"cache.max_files", p2>>,
                        <<"state.history_entries", p3>>, <<"dedupe.recent_entries", p4>>,
                        <<"schedule.interval_seconds", p5>>,
                        <<"schedule.worker_deadline_seconds", p6>>, <<"log_max_bytes", p7>> >>
        PROVE  DOMAIN all = 1 .. 7 /\ \A i \in 1 .. 7 : all[i][1] # "none"
    BY <2>1
  <2> QED
    BY <2>1 DEF Limits
<1> USE DEF off
<1>2. off = {}
  <2>0. off \subseteq DOMAIN Limits(c)
    OBVIOUS
  <2>2. OffLimits(c) = IF off = {} THEN "none" ELSE Limits(c)[Min(off)][1]
    BY DEF OffLimits
  <2> HIDE DEF off
  <2>1. off \subseteq 1 .. 7 /\ off \in SUBSET Nat
    BY <1>1, <2>0
  <2>3. off # {} => Min(off) \in 1 .. 7
    BY <2>1, LeastNatural
  <2> QED
    BY <1>1, <2>2, <2>3
<1> QED
  BY <1>2 DEF Range

LEMMA IdsDiffer ==
  ASSUME NEW doc, SourcesBad(doc) = "none", DOMAIN SourcesOf(doc) \subseteq Nat
  PROVE  IsInjective([i \in DOMAIN SourcesOf(doc) |-> SourcesOf(doc)[i]["id"]])
<1> DEFINE ss == SourcesOf(doc)
           bad == {i \in DOMAIN ss : SourceBad(ss[i]) # "none"}
           differ == IsInjective([i \in DOMAIN ss |-> ss[i]["id"]])
<1>1. SourcesBad(doc) = IF bad # {} THEN SourceBad(ss[Min(bad)]) ELSE IF differ THEN "none" ELSE "id"
  BY DEF SourcesBad
<1>2. bad # {} => Min(bad) \in bad
  <2>1. bad \subseteq Nat
    OBVIOUS
  <2> HIDE DEF bad
  <2> QED
    BY <2>1, LeastNatural
<1>3. bad # {} => SourceBad(ss[Min(bad)]) # "none"
  BY <1>2
<1> HIDE DEF bad, ss, differ
<1>4. differ
  BY <1>1, <1>3
<1> QED
  BY <1>4 DEF differ, ss

\* A document that parses means what it says.
LEMMA ParsedIsMeant ==
  ASSUME NEW doc, ParseDocument(doc).bad = "none",
         "sources" \in DOMAIN doc /\ doc["sources"].type = "objects"
           => doc["sources"].of \in Seq(Range(doc["sources"].of))
  PROVE  Meant(doc, ParseDocument(doc).config)
<1> DEFINE root == FirstBad(RootRows, doc, {}, "none")
           sources == SourcesBad(doc)
           limits == OffLimits(Assemble(doc))
           bad == CASE root # "none" -> root
                    [] root = "none" /\ sources # "none" -> sources
                    [] root = "none" /\ sources = "none" -> limits
<1>1. ParseDocument(doc) = IF bad = "none" THEN [bad |-> "none", config |-> Assemble(doc)] ELSE [bad |-> bad]
  BY DEF ParseDocument
<1>2. bad = "none" /\ ParseDocument(doc).config = Assemble(doc)
  <2> HIDE DEF bad, root, sources, limits
  <2>1. bad # "none" => ParseDocument(doc).bad = bad
    BY <1>1
  <2>2. bad = "none" => ParseDocument(doc).config = Assemble(doc)
    BY <1>1
  <2> QED
    BY <2>1, <2>2
<1>3. root = "none" /\ sources = "none" /\ limits = "none"
  <2> HIDE DEF root, sources, limits
  <2>1. CASE root # "none"
    BY <1>2, <2>1, Zenon
  <2>2. CASE root = "none" /\ sources # "none"
    BY <1>2, <2>2, Zenon
  <2>3. CASE root = "none" /\ sources = "none"
    BY <1>2, <2>3, Zenon
  <2> QED
    BY <2>1, <2>2, <2>3
<1> HIDE DEF bad
<1>4. \A i \in 1 .. 35 : IsRead(doc, RootRows[i][1]) => Fits(RootRows[i][2], doc[RootRows[i][1]])
  BY <1>3, NoBadRow
<1>5. ASSUME NEW k \in DOMAIN Defaults PROVE Assemble(doc)[k] = SaidBy(Says(doc, k), k)
  BY <1>4, AssembledIsSaid
<1>6. DOMAIN SourcesOf(doc) \subseteq Nat
  <2>1. CASE "sources" \in DOMAIN doc
    <3>1. IsRead(doc, RootRows[35][1]) /\ RootRows[35] = <<"sources", "objects">>
      BY <2>1, IsReadIs DEF RootRows
    <3>2. Fits(RootRows[35][2], doc[RootRows[35][1]])
      <4>1. 35 \in 1 .. 35
        OBVIOUS
      <4> QED
        BY <1>4, <3>1, <4>1, Zenon
    <3>3. Fits("objects", doc["sources"])
      BY <3>1, <3>2
    <3>4. doc["sources"].type = "objects"
      BY <3>3 DEF Fits
    <3>5. ASSUME NEW P, NEW s \in Seq(P) PROVE DOMAIN s \subseteq Nat
      OBVIOUS
    <3>6. SourcesOf(doc) = doc["sources"].of
      BY <2>1 DEF SourcesOf
    <3> QED
      BY <2>1, <3>4, <3>5, <3>6
  <2>2. CASE "sources" \notin DOMAIN doc
    <3>1. SourcesOf(doc) = <<>>
      BY <2>2 DEF SourcesOf
    <3>2. \A x \in DOMAIN <<>> : x \in Nat
      OBVIOUS
    <3> QED
      BY <3>1, <3>2
  <2> QED
    BY <2>1, <2>2
<1> QED
  BY <1>2, <1>3, <1>5, <1>6, NoLimitBroken, IdsDiffer DEF Meant, SaidBy, RatioKeys

\* What a process has in force is what one of the documents said when it was read.
InForce(name, config) ==
  /\ name \in DOMAIN Documents
  /\ ParseDocument(Documents[name]).bad = "none"
  /\ config = ParseDocument(Documents[name]).config

ConfigurationInv ==
  /\ "up" \in DOMAIN daemon /\ daemon.up \in BOOLEAN /\ worker.loaded \in BOOLEAN
  /\ rotating # "no" => daemon.up
  /\ daemon.up => /\ {"config", "read", "badConfig"} \subseteq DOMAIN daemon
                  /\ InForce(daemon.read, daemon.config)
  /\ worker.loaded => InForce(worker.read, worker.config)

LEMMA ReadIsInForce ==
  ASSUME NEW name, ReadConfig(name).bad = "none"
  PROVE  InForce(name, ReadConfig(name).config)
<1>1. name \in DOMAIN Documents
  BY DEF ReadConfig
<1> QED
  BY <1>1 DEF ReadConfig, Parsed, InForce

LEMMA ConfigurationStep == ConfigurationInv /\ [ConfNext]_confVars => ConfigurationInv'
<1> SUFFICES ASSUME ConfigurationInv, [ConfNext]_confVars PROVE ConfigurationInv'
  OBVIOUS
<1>a. \A n, c : InForce(n, c)' <=> InForce(n, c)
  BY DEF InForce
<1> USE DEF ConfigurationInv
<1>1. CASE UNCHANGED confVars
  BY <1>1, <1>a DEF confVars
<1>2. ASSUME NEW name, EditFile(name) PROVE ConfigurationInv'
  BY <1>2, <1>a DEF EditFile
<1>3. ASSUME NEW flags, NEW env, StartDaemon(flags, env) PROVE ConfigurationInv'
  <2>1. /\ rotating = "no" /\ rotating' = "no" /\ worker' = worker
        /\ \/ daemon' = DaemonDown
           \/ \E n, dir, b : /\ ReadConfig(n).bad = "none"
                             /\ daemon' = [up |-> TRUE, config |-> ReadConfig(n).config, read |-> n,
                                           dir |-> dir, backend |-> b, badConfig |-> FALSE]
    BY <1>3 DEF StartDaemon
  <2>2. CASE daemon' = DaemonDown
    BY <1>a, <2>1, <2>2 DEF DaemonDown
  <2>3. ASSUME NEW n, NEW dir, NEW b, ReadConfig(n).bad = "none",
               daemon' = [up |-> TRUE, config |-> ReadConfig(n).config, read |-> n, dir |-> dir,
                          backend |-> b, badConfig |-> FALSE]
        PROVE  ConfigurationInv'
    <3>1. InForce(n, ReadConfig(n).config)
      BY <2>3, ReadIsInForce
    <3> QED
      BY <1>a, <2>1, <2>3, <3>1
  <2> QED BY <2>1, <2>2, <2>3
<1>4. CASE StopDaemon
  BY <1>4, <1>a DEF StopDaemon, DaemonDown, NoWorker
<1>5. CASE Reconfigure
  <2>1. /\ rotating = "no" /\ daemon.up /\ worker' = worker
        /\ \/ /\ ReadConfig(file).bad = "none"
              /\ daemon' = [daemon EXCEPT !.config = ReadConfig(file).config, !.read = file]
           \/ daemon' = [daemon EXCEPT !.badConfig = TRUE]
    BY <1>5 DEF Reconfigure
  <2>2. CASE daemon' = [daemon EXCEPT !.badConfig = TRUE]
    BY <1>a, <2>1, <2>2
  <2>3. CASE /\ ReadConfig(file).bad = "none"
             /\ daemon' = [daemon EXCEPT !.config = ReadConfig(file).config, !.read = file]
    <3>1. InForce(file, ReadConfig(file).config)
      BY <2>3, ReadIsInForce
    <3>2. /\ DOMAIN daemon' = DOMAIN daemon /\ daemon'.up = daemon.up
          /\ daemon'.config = ReadConfig(file).config /\ daemon'.read = file
      BY <2>1, <2>3
    <3> QED
      BY <1>a, <2>1, <3>1, <3>2
  <2> QED BY <2>1, <2>2, <2>3
<1>6. CASE ReadDeadline
  BY <1>6, <1>a DEF ReadDeadline
<1>7. CASE SpawnWith
  BY <1>7, <1>a DEF SpawnWith
<1>8. CASE WorkerLoads
  <2>1. /\ daemon.up
        /\ \/ /\ ReadConfig(file).bad = "none" /\ daemon' = daemon
              /\ worker'.loaded = TRUE /\ worker'.read = file /\ worker'.config = ReadConfig(file).config
           \/ rotating' = "no" /\ worker' = NoWorker /\ daemon' = [daemon EXCEPT !.badConfig = TRUE]
    BY <1>8 DEF WorkerLoads
  <2>2. CASE rotating' = "no" /\ worker' = NoWorker /\ daemon' = [daemon EXCEPT !.badConfig = TRUE]
    BY <1>a, <2>1, <2>2 DEF NoWorker
  <2>3. CASE /\ ReadConfig(file).bad = "none" /\ daemon' = daemon
             /\ worker'.loaded = TRUE /\ worker'.read = file /\ worker'.config = ReadConfig(file).config
    BY <1>a, <2>1, <2>3, ReadIsInForce
  <2> QED BY <2>1, <2>2, <2>3
<1>9. CASE WorkerEnds
  BY <1>9, <1>a DEF WorkerEnds, NoWorker
<1> QED
  BY <1>1, <1>2, <1>3, <1>4, <1>5, <1>6, <1>7, <1>8, <1>9 DEF ConfNext

\* What the daemon and the worker have in force is the whole of one document that was in the
\* file: each key has what its nearest spelling says there, or its default, every limit of
\* validate_ordering holds and no two sources share an id, for every set of documents
\* (config.rs, parse_root; state.rs, reconfigure; main.rs, load_config).
THEOREM OneConfigurationInForce == ConfSpec => []OneConfiguration
<1>1. ConfInit => ConfigurationInv
  BY DEF ConfInit, ConfigurationInv, DaemonDown, NoWorker
<1>2. ConfigurationInv => OneConfiguration
  <2>1. ASSUME NEW name, NEW config, InForce(name, config)
        PROVE  Meant(Documents[name], config)
    BY <2>1, ParsedIsMeant, DocumentAssumption DEF InForce
  <2> QED
    BY <2>1 DEF ConfigurationInv, OneConfiguration
<1> QED
  BY ConfigurationStep, <1>1, <1>2, PTL DEF ConfSpec

-----------------------------------------------------------------------------
(* Setters *)

\* All places there are, and all calls.
AllPlaces == Screens \cup {"picture-uri", "picture-uri-dark", "background"}
AllTools == {"gsettings", "plasma-apply-wallpaperimage", "swaymsg", "feh", "xwallpaper", "hsetroot", "shell"}
EveryCall == [tool : AllTools, place : AllPlaces \cup {NullMonitor}]
Desktops == {"gnome", "kde", "sway", "x11", "hyprland", "none"}

\* A call that is still to come shows the image on p.
Covers(left, p) == \E i \in DOMAIN left : left[i].place \in {p, NullMonitor}

LEMMA NamedDesktop ==
  ASSUME NEW names \in Seq(STRING)
  PROVE  Named(names) \in {"gnome", "kde", "hyprland", "none"}
<1> DEFINE known == {i \in DOMAIN names : names[i] \in {"gnome", "kde", "hyprland"}}
<1>1. known \in SUBSET Nat
  <2>1. DOMAIN names = 1 .. Len(names) /\ Len(names) \in Nat
    BY LenProperties
  <2> QED BY UpToIsNatural, <2>1, Zenon
<1>2. known # {} => Min(known) \in known
  <2> HIDE DEF known
  <2> QED BY <1>1, LeastNatural
<1>3. Named(names) = IF known = {} THEN "none" ELSE names[Min(known)]
  BY DEF Named
<1> QED
  BY <1>2, <1>3

LEMMA DesktopOfLinux ==
  ASSUME NEW m \in Machines, m.platform = "linux"
  PROVE  Detect(m.signals) \in Desktops
<1>1. Named(m.signals.names) \in {"gnome", "kde", "hyprland", "none"}
  BY NamedDesktop, MachinesAssumption
<1> QED
  BY <1>1 DEF Detect, Desktops

LEMMA HasAMember ==
  ASSUME NEW s, NEW i \in DOMAIN s
  PROVE  s # <<>>
<1>1. DOMAIN <<>> = {}
  OBVIOUS
<1> QED
  BY <1>1

LEMMA RangeIsCovered ==
  ASSUME NEW s, NEW p \in {c.place : c \in Range(s)}
  PROVE  Covers(s, p)
BY DEF Range, Covers

LEMMA CallIsACall ==
  /\ \A tool \in AllTools, place \in AllPlaces : Call(tool, place) \in EveryCall
  /\ \A tool, place : Call(tool, place).place = place
BY DEF Call, EveryCall

LEMMA ShortSequences ==
  ASSUME NEW T
  PROVE  /\ \A x \in T : <<x>> \in Seq(T) /\ Range(<<x>>) = {x}
         /\ \A x, y \in T : <<x, y>> \in Seq(T) /\ Range(<<x, y>>) = {x, y}
<1>1. \A x \in T : <<x>> \in Seq(T) /\ DOMAIN <<x>> = {1}
  OBVIOUS
<1>2. \A x, y \in T : <<x, y>> \in Seq(T) /\ DOMAIN <<x, y>> = {1, 2}
  OBVIOUS
<1> QED
  BY <1>1, <1>2 DEF Range

\* The calls of a Linux desktop, and that they reach the places it has.
LEMMA CallsReach ==
  ASSUME NEW d \in Desktops
  PROVE  /\ Calls(d) \in Seq(EveryCall)
         /\ d = "gnome" => {c.place : c \in Range(Calls(d))} = {"picture-uri", "picture-uri-dark"}
         /\ d = "x11" => /\ {c.place : c \in Range(Calls(d))} = {"background"}
                         /\ \A i \in DOMAIN Calls(d) : Calls(d)[i].place = "background"
<1>0. \A t \in AllTools, p \in {"picture-uri", "picture-uri-dark", "background"} :
        Call(t, p) \in EveryCall /\ Call(t, p).place = p
  BY CallIsACall DEF AllPlaces
<1>1. CASE d = "gnome"
  <2> DEFINE x == Call("gsettings", "picture-uri")  y == Call("gsettings", "picture-uri-dark")
  <2>1. Calls(d) = <<x, y>>
    BY <1>1 DEF Calls
  <2>2. x \in EveryCall /\ y \in EveryCall /\ x.place = "picture-uri" /\ y.place = "picture-uri-dark"
    BY <1>0 DEF AllTools
  <2> HIDE DEF x, y
  <2>3. Calls(d) \in Seq(EveryCall) /\ Range(Calls(d)) = {x, y}
    BY <2>1, <2>2, ShortSequences
  <2> QED BY <1>1, <2>2, <2>3
<1>2. ASSUME NEW x \in EveryCall, Calls(d) = <<x>> PROVE Calls(d) \in Seq(EveryCall)
  BY <1>2, ShortSequences
<1>3. CASE d = "kde"
  <2>1. Calls(d) = <<Call("plasma-apply-wallpaperimage", "background")>>
    BY <1>3 DEF Calls
  <2> QED BY <1>0, <1>2, <1>3, <2>1 DEF AllTools
<1>4. CASE d = "sway"
  <2>1. Calls(d) = <<Call("swaymsg", "background")>>
    BY <1>4 DEF Calls
  <2> QED BY <1>0, <1>2, <1>4, <2>1 DEF AllTools
<1>5. CASE d = "x11"
  <2> DEFINE three == <<"feh", "xwallpaper", "hsetroot">>
  <2>1. Calls(d) = [i \in 1 .. 3 |-> Call(three[i], "background")]
    BY <1>5 DEF Calls
  <2>2. \A i \in 1 .. 3 : three[i] \in AllTools
    BY DEF AllTools
  <2> HIDE DEF three
  <2>3. \A i \in 1 .. 3 : Calls(d)[i] \in EveryCall /\ Calls(d)[i].place = "background"
    BY <1>0, <2>1, <2>2
  <2>4. DOMAIN Calls(d) = 1 .. 3 /\ Calls(d) \in [1 .. 3 -> EveryCall]
    BY <2>1, <2>3
  <2>5. Calls(d) \in Seq(EveryCall)
    BY <2>4, SeqDef
  <2>6. {c.place : c \in Range(Calls(d))} = {"background"}
    BY <2>3, <2>4 DEF Range
  <2> QED BY <1>5, <2>3, <2>4, <2>5, <2>6
<1>6. CASE d \in {"hyprland", "none"}
  <2>1. Calls(d) = <<>>
    BY <1>6 DEF Calls
  <2> QED BY <1>6, <2>1
<1> QED
  BY <1>1, <1>3, <1>4, <1>5, <1>6 DEF Desktops

-----------------------------------------------------------------------------
Good == setter.result = "ok" /\ machine.platform # "noop"

\* The session: its machine, and the places that are there and undisturbed.
SessionInv ==
  /\ machine \in Machines \/ (machine = NoMachine /\ setter.step = "idle")
  /\ machine = NoMachine => Attached = {}
  /\ Dynamic => Attached \subseteq Screens
  /\ machine.platform = "linux" => Attached = PlacesOf(machine)
  /\ steady \subseteq Attached

\* The set: an undisturbed place shows the image, or a call for it is still to come.
SetterInv ==
  /\ {"step", "result"} \subseteq DOMAIN setter
  /\ setter.step \in {"idle", "calls", "done"}
  /\ setter.step # "done" => setter.result = "none"
  /\ setter.step = "calls" =>
       /\ {"path", "left"} \subseteq DOMAIN setter
       /\ setter.path \in Asked /\ setter.left \in Seq(EveryCall) /\ setter.left # <<>>
       /\ machine.platform \in {"linux", "macos", "windows"}
       /\ \A p \in steady : shows[p] = setter.path \/ Covers(setter.left, p)
       /\ Desktop = "x11" => \A i \in DOMAIN setter.left : setter.left[i].place = "background"
  /\ setter.result = "ok" => setter.path \in Asked
  /\ Good => \A p \in steady : shows[p] = setter.path

\* The readback: what it has read and will read are the places the set left.
ReadInv ==
  /\ readback.step # "idle" => setter.step = "done"
  /\ readback.step = "reads" =>
       /\ {"step", "left", "images"} \subseteq DOMAIN readback /\ readback.left \in Seq(AllPlaces)
       /\ Good /\ calm => /\ readback.images \subseteq {setter.path}
                          /\ \A i \in DOMAIN readback.left : readback.left[i] \in steady
                          /\ readback.left # <<>> \/ readback.images = {setter.path}
  /\ readback.step = "done" /\ Good /\ calm => readback.answer \in {setter.path, "error"}

SettersInv == SessionInv /\ SetterInv /\ ReadInv

LEMMA AllScreens ==
  ASSUME NEW A \in SUBSET Screens, A # {}, NEW s \in SetToSeqs(A)
  PROVE  /\ s \in Seq(A) /\ s # <<>>
         /\ \A p \in A : \E i \in DOMAIN s : s[i] = p
<1> DEFINE n == Cardinality(A)
<1>1. IsFiniteSet(A) /\ n \in Nat /\ n # 0
  BY SettersAssumption, FS_Subset, FS_CardinalityType, FS_EmptySet
<1>2. s \in [1 .. n -> A] /\ \A i, j \in 1 .. n : i # j => s[i] # s[j]
  BY DEF SetToSeqs
<1> HIDE DEF n
<1>3. IsFiniteSet(1 .. n) /\ Cardinality(1 .. n) = n
  BY <1>1, FS_Interval
<1>4. s \in Injection(1 .. n, A)
  BY <1>2 DEF Injection, IsInjective
<1>5. s \in Surjection(1 .. n, A)
  BY <1>1, <1>3, <1>4, FS_Injection DEF n
<1>6. \A p \in A : \E i \in 1 .. n : s[i] = p
  BY <1>5 DEF Surjection
<1>7. DOMAIN s = 1 .. n /\ s \in Seq(A)
  BY <1>1, <1>2, SeqDef
<1>8. s # <<>>
  <2>1. 1 \in 1 .. n
    BY <1>1
  <2>2. 1 \in DOMAIN s
    BY <1>7, <2>1
  <2> QED BY <2>2, HasAMember
<1> QED
  BY <1>6, <1>7, <1>8

LEMMA CoversNext ==
  ASSUME NEW left \in Seq(EveryCall), left # <<>>, NEW p, Covers(left, p),
         Head(left).place \notin {p, NullMonitor}
  PROVE  Tail(left) # <<>> /\ Covers(Tail(left), p)
<1>1. PICK i \in 1 .. Len(left) : left[i].place \in {p, NullMonitor}
  BY DEF Covers
<1>2. i # 1 /\ Head(left) = left[1] /\ Len(left) \in Nat
  BY <1>1
<1>3. DOMAIN Tail(left) = 1 .. Len(left) - 1 /\ \A j \in 1 .. Len(left) - 1 : Tail(left)[j] = left[j + 1]
  BY HeadTailProperties, LenProperties
<1>4. i - 1 \in 1 .. Len(left) - 1 /\ (i - 1) + 1 = i
  BY <1>1, <1>2
<1>5. Tail(left)[i - 1].place \in {p, NullMonitor} /\ i - 1 \in DOMAIN Tail(left)
  BY <1>1, <1>3, <1>4
<1>6. Covers(Tail(left), p)
  BY <1>5 DEF Covers
<1> QED
  BY <1>5, <1>6, HasAMember

\* In an X session there is the one background.
LEMMA OneBackground ==
  ASSUME SessionInv, SetterInv, setter.step = "calls", Desktop = "x11"
  PROVE  Attached = {"background"}
<1>1. machine.platform = "linux"
  BY DEF SetterInv, Desktop
<1>2. machine \in Machines /\ Detect(machine.signals) = "x11"
  BY <1>1 DEF SessionInv, Desktop
<1>3. Attached = {c.place : c \in Range(Calls("x11"))}
  BY <1>1, <1>2 DEF SessionInv, PlacesOf
<1> QED
  BY <1>3, CallsReach DEF Desktops

LEMMA SettersStep == SettersInv /\ [SettersNext]_setterVars => SettersInv'
<1> SUFFICES ASSUME SettersInv, [SettersNext]_setterVars PROVE SettersInv'
  OBVIOUS
<1>0. SessionInv /\ SetterInv /\ ReadInv
  BY DEF SettersInv
<1>1. CASE UNCHANGED setterVars
  BY <1>1 DEF setterVars, SettersInv, SessionInv, SetterInv, ReadInv, Good, Dynamic, Attached, Covers,
       Desktop
<1>2. ASSUME NEW m \in Machines, SessionBegins(m) PROVE SettersInv'
  <2>0. NoMachine \notin Machines /\ m # NoMachine
    BY MachinesAssumption DEF NoMachine
  <2>1. /\ machine' = m /\ setter' = setter /\ steady' = steady /\ readback' = readback /\ calm' = calm
        /\ machine = NoMachine /\ setter.step = "idle" /\ steady = {}
    BY <1>0, <1>2, <2>0 DEF SessionBegins, SessionInv
  <2>2. PICK there \in SUBSET PlacesOf(m) :
          (m.platform \notin {"macos", "windows"} => there = PlacesOf(m)) /\ shows' = [p \in there |-> ""]
    BY <1>2 DEF SessionBegins
  <2>3. Attached' = there
    BY <2>2 DEF Attached
  <2>4. m.platform \in {"macos", "windows"} => PlacesOf(m) = Screens
    BY DEF PlacesOf
  <2>6. SessionInv'
    BY <2>0, <2>1, <2>2, <2>3, <2>4 DEF SessionInv, Dynamic
  <2>7. SetterInv'
    BY <1>0, <2>1 DEF SetterInv, Good
  <2>8. ReadInv'
    BY <1>0, <2>1 DEF ReadInv, SetterInv, Good
  <2> QED BY <2>6, <2>7, <2>8 DEF SettersInv
<1>3. ASSUME NEW path \in Asked, BeginSet(path) PROVE SettersInv'
  <2>1. /\ machine # NoMachine /\ setter.step = "idle" /\ readback.step = "idle" /\ steady' = Attached
        /\ machine' = machine /\ shows' = shows /\ readback' = readback /\ calm' = calm
    BY <1>3 DEF BeginSet
  <2>2. SessionInv'
    BY <1>0, <2>1 DEF SessionInv, Dynamic, Attached, PlacesOf
  <2>3. CASE setter' = [step |-> "done", result |-> "refused"]
    BY <1>0, <2>1, <2>2, <2>3 DEF SettersInv, SetterInv, ReadInv, Good
  <2>4. CASE machine.platform = "noop" /\ setter' = [step |-> "done", result |-> "ok", path |-> path]
    BY <1>0, <2>1, <2>2, <2>4 DEF SettersInv, SetterInv, ReadInv, Good
  <2>5. ASSUME NEW targets \in Seq(EveryCall), targets # <<>>, machine.platform # "noop",
               \A p \in Attached : Covers(targets, p),
               Desktop = "x11" => \A i \in DOMAIN targets : targets[i].place = "background",
               setter' = [step |-> "calls", path |-> path, left |-> targets, result |-> "none"]
        PROVE  SettersInv'
    <3>1. machine.platform \in {"linux", "macos", "windows"}
      BY <1>0, <2>1, <2>5, MachinesAssumption DEF SessionInv
    <3>2. SetterInv' /\ ReadInv'
      BY <1>0, <2>1, <2>5, <3>1 DEF SetterInv, ReadInv, Good, Desktop, Attached
    <3> QED BY <2>2, <3>2 DEF SettersInv
  <2> DEFINE Begins(targets) == setter' = [step |-> "calls", path |-> path, left |-> targets, result |-> "none"]
             Each(s) == [i \in DOMAIN s |-> Call("shell", s[i])]
  <2>6. ASSUME Dynamic, Attached # {}, NEW s \in SetToSeqs(Attached), Begins(Each(s)) PROVE SettersInv'
    <3>1. Attached \in SUBSET Screens /\ Desktop # "x11" /\ machine.platform # "noop"
      BY <1>0, <2>6 DEF SessionInv, Dynamic, Desktop
    <3>2. s \in Seq(Attached) /\ s # <<>> /\ \A p \in Attached : \E i \in DOMAIN s : s[i] = p
      BY <2>6, <3>1, AllScreens
    <3>3. \A i \in DOMAIN s : Each(s)[i] \in EveryCall /\ Each(s)[i].place = s[i]
      BY <3>1, <3>2, CallIsACall DEF AllTools, AllPlaces
    <3>4. Each(s) \in Seq(EveryCall) /\ DOMAIN Each(s) = DOMAIN s
      <4>1. DOMAIN s = 1 .. Len(s) /\ Len(s) \in Nat
        BY <3>2, LenProperties
      <4>2. Each(s) \in [1 .. Len(s) -> EveryCall]
        BY <3>3, <4>1
      <4> HIDE DEF Each
      <4> QED BY <4>1, <4>2, SeqDef
    <3>5. \A p \in Attached : Covers(Each(s), p)
      BY <3>2, <3>3, <3>4 DEF Covers
    <3>6. Each(s) # <<>>
      BY <2>6, <3>5, HasAMember DEF Covers
    <3> HIDE DEF Each
    <3> QED BY <2>5, <2>6, <3>1, <3>4, <3>5, <3>6
  <2>7. CASE machine.platform = "noop"
    BY <1>3, <2>4, <2>7 DEF BeginSet
  <2>8. CASE machine.platform = "linux"
    <3>1. Desktop \in Desktops /\ Attached = {c.place : c \in Range(Calls(Desktop))}
      BY <1>0, <2>1, <2>8, DesktopOfLinux DEF SessionInv, PlacesOf, Desktop
    <3>2. \/ setter' = [step |-> "done", result |-> "refused"]
          \/ Calls(Desktop) # <<>> /\ Begins(Calls(Desktop))
      BY <1>3, <2>8 DEF BeginSet, Refuse
    <3>3. /\ Calls(Desktop) \in Seq(EveryCall)
          /\ Desktop = "x11" => \A i \in DOMAIN Calls(Desktop) : Calls(Desktop)[i].place = "background"
      BY <3>1, CallsReach
    <3>4. \A p \in Attached : Covers(Calls(Desktop), p)
      BY <3>1, RangeIsCovered
    <3> QED BY <2>3, <2>5, <2>8, <3>2, <3>3, <3>4
  <2>9. CASE machine.platform = "macos"
    <3>1. \/ setter' = [step |-> "done", result |-> "refused"]
          \/ Attached # {} /\ \E s \in SetToSeqs(Attached) : Begins(Each(s))
      BY <1>3, <2>9 DEF BeginSet, Refuse
    <3> HIDE DEF Begins, Each
    <3> QED BY <2>3, <2>6, <2>9, <3>1 DEF Dynamic
  <2>10. CASE machine.platform = "windows"
    <3>1. \/ Attached = {} /\ Begins(<<Call("shell", NullMonitor)>>)
          \/ Attached # {} /\ \E s \in SetToSeqs(Attached) : Begins(Each(s))
      BY <1>3, <2>10 DEF BeginSet
    <3>2. ASSUME Attached = {}, Begins(<<Call("shell", NullMonitor)>>) PROVE SettersInv'
      <4>1. Call("shell", NullMonitor) \in EveryCall
        BY DEF Call, EveryCall, AllTools
      <4>2. <<Call("shell", NullMonitor)>> \in Seq(EveryCall) /\ <<Call("shell", NullMonitor)>> # <<>>
        BY <4>1, ShortSequences
      <4> QED BY <2>5, <2>10, <3>2, <4>2 DEF Desktop
    <3> HIDE DEF Begins, Each
    <3> QED BY <2>6, <2>10, <3>1, <3>2 DEF Dynamic
  <2> QED BY <1>0, <2>1, <2>7, <2>8, <2>9, <2>10, MachinesAssumption DEF SessionInv
<1>4. CASE ShellFails
  <2>1. /\ setter' = [step |-> "done", result |-> "refused"] /\ steady' = Attached
        /\ Dynamic /\ readback.step = "idle" /\ setter.step = "idle"
        /\ machine' = machine /\ shows' = shows /\ readback' = readback /\ calm' = calm
    BY <1>4 DEF ShellFails, Refuse
  <2>2. SessionInv'
    BY <1>0, <2>1 DEF SessionInv, Dynamic, Attached, NoMachine
  <2>3. SetterInv' /\ ReadInv'
    BY <1>0, <2>1 DEF SetterInv, ReadInv, Good
  <2> QED BY <2>2, <2>3 DEF SettersInv
<1>5. CASE CallSucceeds
  <2> DEFINE rest == Tail(setter.left)
  <2>1. /\ setter.step = "calls" /\ Paints /\ NextCall.place \in Attached \cup {NullMonitor}
        /\ machine' = machine /\ steady' = steady /\ readback' = readback /\ calm' = calm
        /\ \/ /\ rest = <<>> \/ Desktop = "x11"
              /\ setter' = [step |-> "done", result |-> "ok", path |-> setter.path]
           \/ /\ rest # <<>> /\ Desktop # "x11"
              /\ setter' = [setter EXCEPT !.left = rest]
    BY <1>5 DEF CallSucceeds, Calling
  <2>2. /\ setter.path \in Asked /\ setter.left \in Seq(EveryCall) /\ setter.left # <<>>
        /\ {"step", "result", "path", "left"} \subseteq DOMAIN setter
        /\ machine.platform \in {"linux", "macos", "windows"}
        /\ \A p \in steady : shows[p] = setter.path \/ Covers(setter.left, p)
        /\ setter.result = "none" /\ readback.step = "idle" /\ steady \subseteq Attached
    BY <1>0, <2>1 DEF SetterInv, ReadInv, SessionInv
  <2>3. Attached' = Attached /\ \A p \in Attached : shows'[p] = IF p \in Painted THEN setter.path ELSE shows[p]
    BY <2>1 DEF Paints, Attached
  <2>4. ASSUME NEW p \in steady
        PROVE  shows'[p] = setter.path \/ (rest # <<>> /\ Covers(rest, p))
    <3>1. p \in Painted => shows'[p] = setter.path
      BY <2>2, <2>3
    <3>2. NextCall.place \in {p, NullMonitor} => p \in Painted
      BY <2>2 DEF Painted
    <3>3. NextCall.place \notin {p, NullMonitor} /\ shows[p] # setter.path => rest # <<>> /\ Covers(rest, p)
      BY <2>2, CoversNext DEF NextCall
    <3>4. p \in Attached /\ (p \notin Painted => shows'[p] = shows[p])
      BY <2>2, <2>3
    <3> QED BY <3>1, <3>2, <3>3, <3>4
  <2>5. SessionInv'
    BY <1>0, <2>1, <2>3 DEF SessionInv, Dynamic, NoMachine, PlacesOf
  <2>6. CASE Desktop # "x11" /\ rest # <<>>
    <3>1. rest \in Seq(EveryCall)
      BY <2>2
    <3> HIDE DEF rest
    <3>2. setter' = [setter EXCEPT !.left = rest]
      BY <2>1, <2>6
    <3>3. SetterInv' /\ ReadInv'
      BY <1>0, <2>1, <2>2, <2>4, <2>5, <2>6, <3>1, <3>2 DEF SetterInv, ReadInv, Good, Desktop
    <3> QED BY <2>5, <3>3 DEF SettersInv
  <2>7. CASE Desktop = "x11" \/ rest = <<>>
    <3>1. setter' = [step |-> "done", result |-> "ok", path |-> setter.path]
      BY <2>1, <2>7
    <3>2. ASSUME NEW p \in steady PROVE shows'[p] = setter.path
      <4>1. CASE rest = <<>>
        BY <2>4, <4>1
      <4>2. CASE Desktop = "x11"
        <5>1. Attached = {"background"}
          BY <1>0, <2>1, <4>2, OneBackground
        <5>2. NextCall.place \in {p, NullMonitor} /\ p \in Attached
          BY <2>1, <2>2, <5>1
        <5> QED BY <2>3, <5>2 DEF Painted
      <4> QED BY <2>7, <4>1, <4>2
    <3>3. SetterInv' /\ ReadInv'
      BY <1>0, <2>1, <2>2, <3>1, <3>2 DEF SetterInv, ReadInv, Good
    <3> QED BY <2>5, <3>3 DEF SettersInv
  <2> QED BY <2>6, <2>7
<1>6. CASE CallFails
  <2>1. /\ setter' = [step |-> "done", result |-> "refused"] /\ setter.step = "calls"
        /\ machine' = machine /\ steady' = steady /\ readback' = readback /\ calm' = calm
        /\ shows' = shows \/ Paints
    BY <1>6 DEF CallFails, Refuse, Calling
  <2>2. Attached' = Attached
    BY <2>1 DEF Attached, Paints
  <2>3. SessionInv'
    BY <1>0, <2>1, <2>2 DEF SessionInv, Dynamic, PlacesOf
  <2>4. SetterInv' /\ ReadInv'
    BY <1>0, <2>1 DEF SetterInv, ReadInv, Good
  <2> QED BY <2>3, <2>4 DEF SettersInv
<1>7. CASE ToolMissing
  <2>1. /\ setter.step = "calls" /\ shows' = shows
        /\ machine' = machine /\ steady' = steady /\ readback' = readback /\ calm' = calm
        /\ \/ /\ Desktop = "x11" /\ Tail(setter.left) # <<>>
              /\ setter' = [setter EXCEPT !.left = Tail(@)]
           \/ setter' = [step |-> "done", result |-> "refused"]
    BY <1>7 DEF ToolMissing, Refuse, Calling
  <2>2. SessionInv'
    BY <1>0, <2>1 DEF SessionInv, Dynamic, PlacesOf, Attached
  <2>3. CASE setter' = [step |-> "done", result |-> "refused"]
    <3>1. SetterInv' /\ ReadInv'
      BY <1>0, <2>1, <2>3 DEF SetterInv, ReadInv, Good
    <3> QED BY <2>2, <3>1 DEF SettersInv
  <2>4. CASE Desktop = "x11" /\ Tail(setter.left) # <<>> /\ setter' = [setter EXCEPT !.left = Tail(@)]
    <3> DEFINE rest == Tail(setter.left)
    <3>1. /\ setter.path \in Asked /\ setter.left \in Seq(EveryCall) /\ setter.left # <<>>
          /\ {"step", "result", "path", "left"} \subseteq DOMAIN setter
          /\ machine.platform \in {"linux", "macos", "windows"}
          /\ \A p \in steady : shows[p] = setter.path \/ Covers(setter.left, p)
          /\ \A i \in DOMAIN setter.left : setter.left[i].place = "background"
          /\ setter.result = "none" /\ readback.step = "idle" /\ steady \subseteq Attached
      BY <1>0, <2>1, <2>4 DEF SetterInv, ReadInv, SessionInv
    <3>2. rest \in Seq(EveryCall) /\ \A i \in DOMAIN rest : rest[i].place = "background"
      BY <3>1, HeadTailProperties
    <3>3. \A p \in steady : shows[p] = setter.path \/ Covers(rest, p)
      <4>1. Attached = {"background"}
        BY <1>0, <2>1, <2>4, OneBackground
      <4>2. 1 \in DOMAIN rest
        BY <2>4, <3>2
      <4>3. Covers(rest, "background")
        BY <3>2, <4>2 DEF Covers
      <4> QED BY <3>1, <4>1, <4>3
    <3> HIDE DEF rest
    <3>4. /\ setter'.step = "calls" /\ setter'.result = "none" /\ setter'.path = setter.path
          /\ setter'.left = rest /\ DOMAIN setter' = DOMAIN setter /\ rest # <<>>
      BY <2>1, <2>4, <3>1 DEF rest
    <3>5. SetterInv' /\ ReadInv'
      BY <1>0, <2>1, <3>1, <3>2, <3>3, <3>4 DEF SetterInv, ReadInv, Good, Desktop
    <3> QED BY <2>2, <3>5 DEF SettersInv
  <2> QED BY <2>1, <2>3, <2>4
<1>8. CASE BeginReadback
  <2>1. /\ setter.step = "done" /\ readback.step = "idle" /\ machine \in Machines
        /\ machine' = machine /\ shows' = shows /\ setter' = setter /\ steady' = steady
        /\ calm' => steady = Attached /\ Attached # {}
    BY <1>0, <1>8 DEF BeginReadback, SessionInv
  <2>2. SessionInv' /\ SetterInv'
    BY <1>0, <2>1 DEF SessionInv, SetterInv, Good, Dynamic, Attached, Desktop, PlacesOf
  <2>3. Good' = Good
    BY <2>1 DEF Good
  <2>4. ASSUME Answer("error") PROVE SettersInv'
    BY <2>1, <2>2, <2>4 DEF Answer, SettersInv, ReadInv
  <2>5. ASSUME Answer("none"), ~ Good \/ Attached = {} PROVE SettersInv'
    BY <2>1, <2>2, <2>3, <2>5 DEF Answer, SettersInv, ReadInv
  <2>6. ASSUME NEW left \in Seq(AllPlaces), left # <<>>, \A i \in DOMAIN left : calm' => left[i] \in steady,
               readback' = [step |-> "reads", left |-> left, images |-> {}]
        PROVE  SettersInv'
    <3>1. /\ readback'.step = "reads" /\ readback'.left = left /\ readback'.images = {}
          /\ {"step", "left", "images"} \subseteq DOMAIN readback'
      BY <2>6
    <3> QED BY <2>1, <2>2, <2>6, <3>1 DEF SettersInv, ReadInv
  <2>7. CASE Desktop = "noop"
    <3>1. machine.platform = "noop"
      BY <2>1, <2>7, DesktopOfLinux DEF Desktop, Desktops
    <3>2. Desktop # "gnome" /\ ~ Dynamic
      BY <2>7, <3>1 DEF Dynamic
    <3>3. Answer("none")
      BY <1>8, <2>7, <3>2 DEF BeginReadback
    <3> QED BY <2>5, <3>1, <3>3 DEF Good
  <2>8. CASE Desktop = "gnome" /\ "gsettings" \in machine.tools
    <3>0. Desktop # "noop" /\ ~ Dynamic
      BY <2>1, <2>8, MachinesAssumption DEF Desktop, Dynamic
    <3>1. readback' = [step |-> "reads", left |-> <<"picture-uri">>, images |-> {}]
      BY <1>8, <2>8, <3>0 DEF BeginReadback
    <3>2. machine.platform = "linux" /\ Attached = {"picture-uri", "picture-uri-dark"}
      <4>1. machine.platform = "linux"
        BY <2>1, <2>8, MachinesAssumption DEF Desktop
      <4>2. Attached = {c.place : c \in Range(Calls("gnome"))}
        BY <1>0, <2>8, <4>1 DEF SessionInv, PlacesOf, Desktop
      <4> QED BY <4>1, <4>2, CallsReach DEF Desktops
    <3>3. \A x \in AllPlaces : <<x>> \in Seq(AllPlaces) /\ <<x>> # <<>> /\ \A i \in DOMAIN <<x>> : <<x>>[i] = x
      OBVIOUS
    <3>4. "picture-uri" \in AllPlaces
      BY DEF AllPlaces
    <3> DEFINE left == <<"picture-uri">>
    <3>5. left \in Seq(AllPlaces) /\ left # <<>> /\ \A i \in DOMAIN left : left[i] = "picture-uri"
      BY <3>3, <3>4
    <3> HIDE DEF left
    <3> QED BY <2>1, <2>6, <3>1, <3>2, <3>5 DEF left
  <2>9. CASE Dynamic /\ Attached = {}
    <3>1. Desktop \notin {"noop", "gnome"}
      BY <2>9 DEF Dynamic, Desktop
    <3>2. Answer("none") \/ Answer("error")
      BY <1>8, <2>9, <3>1 DEF BeginReadback
    <3> QED BY <2>4, <2>5, <2>9, <3>2
  <2>10. CASE Dynamic /\ Attached # {}
    <3>1. Desktop \notin {"noop", "gnome"} /\ Attached \in SUBSET Screens
      BY <1>0, <2>10 DEF Dynamic, Desktop, SessionInv
    <3>2. PICK s \in SetToSeqs(Attached) :
            readback' = [step |-> "reads", images |-> {},
                         left |-> IF machine.platform = "macos" THEN <<Head(s)>> ELSE s]
      BY <1>8, <2>10, <3>1 DEF BeginReadback
    <3>3. s \in Seq(Attached) /\ s # <<>>
      BY <2>10, <3>1, AllScreens
    <3>4. Head(s) \in Attached
      BY <3>3
    <3> DEFINE left == IF machine.platform = "macos" THEN <<Head(s)>> ELSE s
    <3>5. left \in Seq(Attached) /\ left # <<>>
      BY <3>3, <3>4
    <3> HIDE DEF left
    <3>6. \A i \in DOMAIN left : left[i] \in Attached
      BY <3>5
    <3>7. left \in Seq(AllPlaces)
      BY <3>1, <3>5 DEF AllPlaces
    <3>8. readback' = [step |-> "reads", left |-> left, images |-> {}]
      BY <3>2 DEF left
    <3> QED BY <2>1, <2>6, <3>5, <3>6, <3>7, <3>8
  <2>11. CASE Desktop # "noop" /\ ~ (Desktop = "gnome" /\ "gsettings" \in machine.tools) /\ ~ Dynamic
    BY <1>8, <2>4, <2>11 DEF BeginReadback
  <2> QED BY <2>7, <2>8, <2>9, <2>10, <2>11
<1>9. CASE ReadsPlace
  <2> DEFINE p == Head(readback.left)  rest == Tail(readback.left)
             image == IF p \in Attached THEN {shows[p]} \ {""} ELSE {}
  <2>1. /\ readback.step = "reads" /\ readback.left # <<>>
        /\ machine' = machine /\ shows' = shows /\ setter' = setter /\ steady' = steady /\ calm' = calm
        /\ \/ readback' = [readback EXCEPT !.left = rest, !.images = @ \cup image]
           \/ Answer("error")
    BY <1>9 DEF ReadsPlace
  <2>2. SessionInv' /\ SetterInv' /\ Good' = Good
    BY <1>0, <2>1 DEF SessionInv, SetterInv, Good, Dynamic, Attached, Desktop, PlacesOf
  <2>3. CASE Answer("error")
    BY <1>0, <2>1, <2>2, <2>3 DEF Answer, SettersInv, ReadInv
  <2>4. CASE readback' = [readback EXCEPT !.left = rest, !.images = @ \cup image]
    <3>1. {"step", "left", "images"} \subseteq DOMAIN readback /\ readback.left \in Seq(AllPlaces)
      BY <1>0, <2>1 DEF ReadInv
    <3>2. p = readback.left[1] /\ 1 \in DOMAIN readback.left /\ rest \in Seq(AllPlaces)
          /\ \A i \in DOMAIN rest : i + 1 \in DOMAIN readback.left /\ rest[i] = readback.left[i + 1]
      BY <2>1, <3>1, HeadTailProperties
    <3>3. /\ readback'.step = "reads" /\ readback'.left = rest /\ readback'.images = readback.images \cup image
          /\ DOMAIN readback' = DOMAIN readback
      BY <2>1, <2>4, <3>1
    <3>4. ASSUME Good, calm
          PROVE  /\ readback'.images = {setter.path}
                 /\ \A i \in DOMAIN rest : rest[i] \in steady
      <4>1. /\ readback.images \subseteq {setter.path}
            /\ \A i \in DOMAIN readback.left : readback.left[i] \in steady
        BY <1>0, <2>1, <3>4 DEF ReadInv
      <4>2. p \in steady /\ p \in Attached /\ shows[p] = setter.path
        BY <1>0, <3>2, <3>4, <4>1 DEF SetterInv, SessionInv
      <4>3. setter.path # ""
        BY <1>0, <3>4, SettersAssumption DEF SetterInv, Good
      <4>4. image = {setter.path}
        BY <4>2, <4>3
      <4> QED BY <3>2, <3>3, <4>1, <4>4
    <3> HIDE DEF p, rest, image
    <3>5. ReadInv'
      BY <1>0, <2>1, <2>2, <3>1, <3>2, <3>3, <3>4 DEF ReadInv
    <3> QED BY <2>2, <3>5 DEF SettersInv
  <2> QED BY <2>1, <2>3, <2>4
<1>10. CASE ReadRefused
  <2>1. /\ readback.step = "reads" /\ Answer("error")
        /\ machine' = machine /\ shows' = shows /\ setter' = setter /\ steady' = steady /\ calm' = calm
    BY <1>10 DEF ReadRefused
  <2>2. SessionInv' /\ SetterInv'
    BY <1>0, <2>1 DEF SessionInv, SetterInv, Good, Dynamic, Attached, Desktop, PlacesOf
  <2> QED BY <1>0, <2>1, <2>2 DEF Answer, SettersInv, ReadInv
<1>11. CASE AnchorFrom
  <2> DEFINE answer == CASE readback.images = {} -> "none"
                         [] Cardinality(readback.images) = 1 -> CHOOSE x \in readback.images : TRUE
                         [] OTHER -> "error"
  <2>1. /\ readback.step = "reads" /\ readback.left = <<>> /\ Answer(answer)
        /\ machine' = machine /\ shows' = shows /\ setter' = setter /\ steady' = steady /\ calm' = calm
    BY <1>11 DEF AnchorFrom
  <2>2. SessionInv' /\ SetterInv' /\ Good' = Good
    BY <1>0, <2>1 DEF SessionInv, SetterInv, Good, Dynamic, Attached, Desktop, PlacesOf
  <2>3. ASSUME Good, calm PROVE answer = setter.path
    <3>1. readback.images = {setter.path}
      BY <1>0, <2>1, <2>3 DEF ReadInv
    <3>2. Cardinality({setter.path}) = 1
      BY FS_Singleton
    <3> QED BY <3>1, <3>2
  <2> HIDE DEF answer
  <2>4. readback'.step = "done" /\ readback'.answer = answer
    BY <2>1 DEF Answer
  <2> QED BY <1>0, <2>1, <2>2, <2>3, <2>4 DEF SettersInv, ReadInv
<1>12. ASSUME NEW p \in Screens, PlugIn(p) PROVE SettersInv'
  <2>1. PICK image : shows' = [q \in Attached \cup {p} |-> IF q = p THEN image ELSE shows[q]]
    BY <1>12 DEF PlugIn
  <2>2. /\ Dynamic /\ p \notin Attached /\ machine' = machine /\ machine # NoMachine
        /\ setter' = setter /\ steady' = steady /\ readback' = readback /\ calm' = calm
    BY <1>12 DEF PlugIn, Happens
  <2>3. Attached' = Attached \cup {p} /\ \A q \in Attached : shows'[q] = shows[q]
    BY <2>1, <2>2 DEF Attached
  <2>4. SessionInv'
    BY <1>0, <2>2, <2>3 DEF SessionInv, Dynamic
  <2>5. SetterInv' /\ ReadInv'
    BY <1>0, <2>2, <2>3 DEF SetterInv, ReadInv, SessionInv, Good, Desktop
  <2> QED BY <2>4, <2>5 DEF SettersInv
<1>13. ASSUME NEW p \in Screens, Unplug(p) PROVE SettersInv'
  <2>1. /\ Dynamic /\ machine' = machine /\ machine # NoMachine /\ setter' = setter /\ readback' = readback
        /\ steady' = steady \ {p} /\ calm' = FALSE /\ shows' = [q \in Attached \ {p} |-> shows[q]]
    BY <1>13 DEF Unplug, Happens
  <2>2. Attached' = Attached \ {p} /\ \A q \in Attached \ {p} : shows'[q] = shows[q]
    BY <2>1 DEF Attached
  <2>3. SessionInv'
    BY <1>0, <2>1, <2>2 DEF SessionInv, Dynamic
  <2>4. SetterInv' /\ ReadInv'
    BY <1>0, <2>1, <2>2 DEF SetterInv, ReadInv, SessionInv, Good, Desktop
  <2> QED BY <2>3, <2>4 DEF SettersInv
<1>14. ASSUME NEW p \in Attached, OthersSet(p) PROVE SettersInv'
  <2>1. PICK image : shows' = [shows EXCEPT ![p] = image]
    BY <1>14 DEF OthersSet
  <2>2. /\ machine' = machine /\ machine # NoMachine /\ setter' = setter /\ readback' = readback
        /\ steady' = steady \ {p} /\ calm' = FALSE
    BY <1>14 DEF OthersSet, Happens
  <2>3. Attached' = Attached /\ \A q \in Attached \ {p} : shows'[q] = shows[q]
    BY <2>1 DEF Attached
  <2>4. SessionInv'
    BY <1>0, <2>2, <2>3 DEF SessionInv, Dynamic, PlacesOf
  <2>5. SetterInv' /\ ReadInv'
    BY <1>0, <2>2, <2>3 DEF SetterInv, ReadInv, SessionInv, Good, Desktop
  <2> QED BY <2>4, <2>5 DEF SettersInv
<1> QED
  BY <1>1, <1>2, <1>3, <1>4, <1>5, <1>6, <1>7, <1>8, <1>9, <1>10, <1>11, <1>12, <1>13, <1>14
     DEF SettersNext

\* A set that was accepted is on every place that was there at its begin and that nobody
\* else has changed, and a readback that finds all places so answers that image or that it
\* cannot say (backend: macos.rs, windows.rs, linux.rs, noop.rs set and current).
THEOREM OneImageEverywhere == SettersSpec => []AcceptedIsEverywhere
<1>1. SettersInit => SettersInv
  <2> SUFFICES ASSUME SettersInit PROVE SettersInv
    OBVIOUS
  <2>1. /\ machine = NoMachine /\ Attached = {} /\ steady = {}
        /\ setter.step = "idle" /\ setter.result = "none" /\ {"step", "result"} \subseteq DOMAIN setter
        /\ readback.step = "idle"
    BY DEF SettersInit, Attached
  <2> QED BY <2>1 DEF SettersInv, SessionInv, SetterInv, ReadInv, Good, Dynamic, NoMachine
<1>2. SettersInv => AcceptedIsEverywhere
  BY DEF SettersInv, SetterInv, ReadInv, Good, AcceptedIsEverywhere
<1> QED
  BY SettersStep, <1>1, <1>2, PTL DEF SettersSpec

-----------------------------------------------------------------------------
(* Conversation *)

\* The requests a command line stands for.
Sendable(r) ==
  \/ \E v \in Bare \ {"close"} : r = Req(v, NoArg)
  \/ \E v \in {"subscribe", "config path", "config check"} : r = Req(v, NoArg)
  \/ \E n \in 1 .. MaxHistoryCount : r = Req("history", n)
  \/ \E w : \/ w \in Absolute /\ r = Req("set path", w)
            \/ r = Req("set id", w)
            \/ r = Req("favorite", w)
            \/ r = Req("unfavorite", w)

LEMMA Clamped == \A n \in Nat : Clamp(n) \in 1 .. MaxHistoryCount
BY DEF Clamp, MaxHistoryCount

LEMMA WhatIsAsked ==
  ASSUME NEW words
  PROVE  LET r == Invocation(words) IN r \in {Req("usage", NoArg), Req("help", NoArg)} \/ Sendable(r)
<1> DEFINE verb == Head(words)
           args == Tail(words)
           r == Invocation(words)
           g1 == words \in {<<v>> : v \in Bare \ {"close"}}
           g2 == words = <<"idle">>
           g3 == verb = "set" /\ Len(args) = 1
           g4 == words = <<"history">>
           g5 == verb = "history" /\ Len(args) = 1 /\ args[1] \in DOMAIN CountOf
           g6 == words = <<"favorite">>
           g7 == verb \in {"favorite", "unfavorite"} /\ Len(args) = 1
           g8 == words \in {<<"config", "path">>, <<"config", "check">>}
           g9 == words = <<"help">>
           e1 == Req(verb, NoArg)
           e2 == Req("subscribe", NoArg)
           e3 == Req(IF args[1] \in Absolute THEN "set path" ELSE "set id", args[1])
           e4 == Req("history", DefaultHistoryCount)
           e5 == Req("history", Clamp(CountOf[args[1]]))
           e6 == Req("favorite", NoArg)
           e7 == Req(verb, args[1])
           e8 == Config(args[1])
           e9 == Req("help", NoArg)
<1>0. r = CASE g1 -> e1 [] g2 -> e2 [] g3 -> e3 [] g4 -> e4 [] g5 -> e5
            [] g6 -> e6 [] g7 -> e7 [] g8 -> e8 [] g9 -> e9 [] OTHER -> Req("usage", NoArg)
  BY DEF Invocation
<1>1. \/ g1 /\ r = e1
      \/ g2 /\ r = e2
      \/ g3 /\ r = e3
      \/ g4 /\ r = e4
      \/ g5 /\ r = e5
      \/ g6 /\ r = e6
      \/ g7 /\ r = e7
      \/ g8 /\ r = e8
      \/ g9 /\ r = e9
      \/ r = Req("usage", NoArg)
  <2>1. g1 \in BOOLEAN /\ g2 \in BOOLEAN /\ g3 \in BOOLEAN /\ g4 \in BOOLEAN /\ g5 \in BOOLEAN
        /\ g6 \in BOOLEAN /\ g7 \in BOOLEAN /\ g8 \in BOOLEAN /\ g9 \in BOOLEAN
    OBVIOUS
  <2> HIDE DEF g1, g2, g3, g4, g5, g6, g7, g8, g9, e1, e2, e3, e4, e5, e6, e7, e8, e9, r
  <2> QED BY <1>0, <2>1
<1>2. CASE g1 /\ r = Req(verb, NoArg)
  <2>1. PICK v \in Bare \ {"close"} : words = <<v>>
    BY <1>2
  <2>2. verb = v
    BY <2>1
  <2> QED BY <1>2, <2>2 DEF Sendable
<1>3. CASE g3 /\ r = Req(IF args[1] \in Absolute THEN "set path" ELSE "set id", args[1])
  BY <1>3 DEF Sendable
<1>4. CASE g5 /\ r = Req("history", Clamp(CountOf[args[1]]))
  <2>1. Clamp(CountOf[args[1]]) \in 1 .. MaxHistoryCount
    BY <1>4, Clamped, GrammarAssumption
  <2> QED BY <1>4, <2>1 DEF Sendable
<1>5. CASE r = Req("history", DefaultHistoryCount)
  <2>1. DefaultHistoryCount \in 1 .. MaxHistoryCount
    BY DEF DefaultHistoryCount, MaxHistoryCount
  <2> QED BY <1>5, <2>1 DEF Sendable
<1>6. CASE g7 /\ r = Req(verb, args[1])
  BY <1>6 DEF Sendable
<1>7. CASE r = Config(args[1])
  BY <1>7 DEF Sendable, Config
<1>8. CASE r = Req("favorite", NoArg)
  BY <1>8 DEF Sendable
<1>9. CASE r = Req("subscribe", NoArg)
  BY <1>9 DEF Sendable
<1> QED
  BY <1>1, <1>2, <1>3, <1>4, <1>5, <1>6, <1>7, <1>8, <1>9

\* What the daemon reads is what the client wrote, or it refuses it.
LEMMA RoundTrip ==
  ASSUME NEW r, Sendable(r)
  PROVE  ParseRequest(EncodeRequest(r)) \in {r, BadArgs}
<1>a. ASSUME NEW x PROVE Head(<<x>>) = x /\ Tail(<<x>>) = <<>>
  OBVIOUS
<1>b. ASSUME NEW x, NEW y
      PROVE  Head(<<x, y>>) = x /\ Tail(<<x, y>>) = <<y>> /\ Len(<<y>>) = 1 /\ <<y>>[1] = y /\ <<y>> # <<>>
  OBVIOUS
<1>c. ASSUME NEW x, NEW y, NEW z
      PROVE  /\ Head(<<x, y, z>>) = x /\ Tail(<<x, y, z>>) = <<y, z>>
             /\ Len(<<y, z>>) = 2 /\ <<y, z>>[1] = y /\ <<y, z>>[2] = z
  OBVIOUS
<1>d. ASSUME NEW v \in Bare PROVE Parse(v, <<>>) = Req(v, NoArg)
  BY DEF Parse, Bare, Given
<1>e. Parse("subscribe", <<>>) = Req("subscribe", NoArg)
  BY DEF Parse, Bare
<1>f. ASSUME NEW w \in {"path", "check"} PROVE Parse("config", <<w>>) = Config(w)
  BY <1>b DEF Parse, Bare, Given
<1>g. ASSUME NEW n \in 1 .. MaxHistoryCount PROVE Parse("history", <<Decimal[n]>>) = Req("history", n)
  <2>1. Decimal[n] \in DOMAIN CountOf /\ CountOf[Decimal[n]] = n
    BY GrammarAssumption
  <2> QED BY <1>b, <2>1 DEF Parse, Bare, Given, Counts
<1>h. ASSUME NEW w PROVE Parse("set", <<"id", w>>) \in {Req("set id", w), BadArgs}
  BY <1>c DEF Parse, Bare, Given
<1>i. ASSUME NEW w \in Absolute PROVE Parse("set", <<"path", w>>) \in {Req("set path", w), BadArgs}
  BY <1>c DEF Parse, Bare, Given
<1>j. ASSUME NEW v \in {"favorite", "unfavorite"}, NEW w PROVE Parse(v, <<w>>) \in {Req(v, w), BadArgs}
  BY <1>b DEF Parse, Bare, Given
<1>k. ASSUME NEW v \in {"favorite", "unfavorite"} PROVE Parse(v, <<>>) \in {Req(v, NoArg), BadArgs}
  BY DEF Parse, Bare, Given, One
<1>1. ASSUME NEW v \in Bare \ {"close"}, r = Req(v, NoArg) PROVE ParseRequest(EncodeRequest(r)) = r
  <2>1. EncodeRequest(r) = <<v>>
    BY <1>1 DEF EncodeRequest, Req, Bare
  <2> QED BY <1>1, <1>a, <1>d, <2>1 DEF ParseRequest
<1>2. ASSUME r = Req("subscribe", NoArg) PROVE ParseRequest(EncodeRequest(r)) = r
  <2>1. EncodeRequest(r) = <<"subscribe">>
    BY <1>2 DEF EncodeRequest, Req
  <2> QED BY <1>2, <1>a, <1>e, <2>1 DEF ParseRequest
<1>3. ASSUME r = Req("config path", NoArg) PROVE ParseRequest(EncodeRequest(r)) = r
  <2>1. EncodeRequest(r) = <<"config", "path">> /\ r = Config("path")
    BY <1>3 DEF EncodeRequest, Req, Config
  <2> QED BY <1>b, <1>f, <2>1 DEF ParseRequest
<1>4. ASSUME r = Req("config check", NoArg) PROVE ParseRequest(EncodeRequest(r)) = r
  <2>1. EncodeRequest(r) = <<"config", "check">> /\ r = Config("check")
    BY <1>4 DEF EncodeRequest, Req, Config
  <2> QED BY <1>b, <1>f, <2>1 DEF ParseRequest
<1>5. ASSUME NEW n \in 1 .. MaxHistoryCount, r = Req("history", n) PROVE ParseRequest(EncodeRequest(r)) = r
  <2>1. EncodeRequest(r) = <<"history", Decimal[n]>>
    BY <1>5 DEF EncodeRequest, Req
  <2> QED BY <1>5, <1>b, <1>g, <2>1 DEF ParseRequest
<1>6. ASSUME NEW w \in Absolute, r = Req("set path", w) PROVE ParseRequest(EncodeRequest(r)) \in {r, BadArgs}
  <2>1. EncodeRequest(r) = <<"set", "path", w>>
    BY <1>6 DEF EncodeRequest, Req
  <2>2. ParseRequest(<<"set", "path", w>>) = Parse("set", <<"path", w>>)
    <3>1. Head(<<"set", "path", w>>) = "set"
      OBVIOUS
    <3>2. Tail(<<"set", "path", w>>) = <<"path", w>>
      OBVIOUS
    <3> QED BY <3>1, <3>2 DEF ParseRequest
  <2> QED BY <1>6, <2>2, <1>i, <2>1
<1>7. ASSUME NEW w, r = Req("set id", w) PROVE ParseRequest(EncodeRequest(r)) \in {r, BadArgs}
  <2>1. EncodeRequest(r) = <<"set", "id", w>>
    BY <1>7 DEF EncodeRequest, Req
  <2>2. ParseRequest(<<"set", "id", w>>) = Parse("set", <<"id", w>>)
    <3>1. Head(<<"set", "id", w>>) = "set"
      OBVIOUS
    <3>2. Tail(<<"set", "id", w>>) = <<"id", w>>
      OBVIOUS
    <3> QED BY <3>1, <3>2 DEF ParseRequest
  <2> QED BY <1>7, <2>2, <1>h, <2>1
<1>8. ASSUME NEW v \in {"favorite", "unfavorite"}, NEW w, r = Req(v, w)
      PROVE  ParseRequest(EncodeRequest(r)) \in {r, BadArgs}
  <2>1. EncodeRequest(r) = IF w = NoArg THEN <<v>> ELSE <<v, w>>
    BY <1>8 DEF EncodeRequest, Req
  <2>2. CASE w = NoArg
    BY <1>8, <1>a, <1>k, <2>1, <2>2 DEF ParseRequest
  <2>3. CASE w # NoArg
    BY <1>8, <1>b, <1>j, <2>1, <2>3 DEF ParseRequest
  <2> QED BY <2>2, <2>3
<1> QED
  BY <1>1, <1>2, <1>3, <1>4, <1>5, <1>6, <1>7, <1>8 DEF Sendable
Kinds == {"OK", "ERR", "event", "queued", "data", "malformed", "greeting", "other greeting"}
AnswerLines == [kind : Kinds, cut : BOOLEAN]
Served == server.request.verb # ""

\* What is on its way to the client is of the request being served, and its OK is the last.
Fit(list, request, ended) ==
  \A i \in DOMAIN list : /\ list[i].kind = "OK" => ended = "done" /\ i = Len(list)
                         /\ list[i].kind = "queued" => Works(request)
                         /\ list[i].kind = "event" => request.verb = "subscribe"

Fields == /\ DOMAIN cli = {"step", "request", "printed", "waits", "closed", "exit"}
          /\ DOMAIN server = {"step", "request", "ended", "seen"}
          /\ answers \in Seq(AnswerLines) /\ cli.printed \in Seq(Kinds)

\* The client, up to its request and after it.
Asking ==
  /\ cli.step \in {"start", "connect", "greet", "read", "ended"}
  /\ cli.exit = "0" => cli.step = "ended"
  /\ cli.step = "start" => cli.request.verb = ""
  /\ cli.step \in {"start", "connect", "greet"} => asked = <<>> /\ ~Served
  /\ cli.step \in {"start", "connect"} => server.step = "idle"
  /\ cli.step \in {"connect", "greet", "read"} \/ Served => Sendable(cli.request)
  /\ cli.closed => Contains(cli.printed, "event")
  /\ cli.waits => SetsTheWallpaper(server.request)

\* What is on its way to the daemon: the request, and after an event `close`.
Sent ==
  \/ asked = <<>>
  \/ ~Served /\ asked = <<EncodeRequest(cli.request)>> /\ Sendable(cli.request) /\ server.step \in {"ready", "gone"}
  \/ /\ asked = <<<<"close">>>> /\ server.request.verb = "subscribe"
     /\ cli.closed \/ (cli.step = "ended" /\ server.step = "gone")

\* The daemon's end: it serves this request, and has done with it when it has answered OK.
Serving ==
  /\ server.step \in {"idle", "accepting", "ready", "working", "stream", "gone"}
  /\ server.step \in {"idle", "accepting"} => ~Served /\ asked = <<>> /\ answers = <<>>
  /\ Served => server.request \in {cli.request, BadArgs}
  /\ server.step = "working" => Works(server.request)
  /\ server.step = "stream" => server.request.verb = "subscribe"
  /\ server.request.verb = "subscribe" => server.step \in {"stream", "gone"}
  /\ server.ended = "done" =>
       /\ Served /\ server.request = cli.request /\ asked = <<>> /\ server.step \in {"ready", "gone"}
       /\ server.request.verb = "subscribe" => cli.closed

Told ==
  /\ Fit(answers, server.request, server.ended)
  /\ cli.exit = "0" /\ cli.request.verb # "" => server.ended = "done" /\ answers = <<>>

ConvoInv == Fields /\ Asking /\ Sent /\ Serving /\ Told

LEMMA WritesFit ==
  ASSUME NEW list \in Seq(AnswerLines), NEW lines \in Seq(Kinds), NEW before, NEW was, NEW request, NEW ended,
         Fit(list, before, was), was # "done",
         Works(before) => Works(request),
         before.verb = "subscribe" => request.verb = "subscribe",
         \A i \in DOMAIN lines : /\ lines[i] = "OK" => ended = "done" /\ i = Len(lines)
                                 /\ lines[i] = "queued" => Works(request)
                                 /\ lines[i] = "event" => request.verb = "subscribe"
  PROVE  LET more == [i \in DOMAIN lines |-> Line(lines[i])]
         IN  list \o more \in Seq(AnswerLines) /\ Fit(list \o more, request, ended)
<1> DEFINE n == Len(list)  m == Len(lines)
           more == [i \in DOMAIN lines |-> Line(lines[i])]
           all == list \o more
<1>1. n \in Nat /\ m \in Nat /\ DOMAIN list = 1 .. n /\ DOMAIN lines = 1 .. m
  BY LenProperties
<1>2. more \in Seq(AnswerLines) /\ Len(more) = m
  <2>1. \A i \in 1 .. m : Line(lines[i]) \in AnswerLines
    BY <1>1 DEF Line, AnswerLines
  <2>2. more \in [1 .. m -> AnswerLines]
    BY <1>1, <2>1
  <2> HIDE DEF more
  <2>3. more \in Seq(AnswerLines)
    BY <1>1, <2>2, SeqDef
  <2>4. DOMAIN more = 1 .. m /\ DOMAIN more = 1 .. Len(more) /\ Len(more) \in Nat
    BY <2>2, <2>3, LenProperties
  <2> QED BY <1>1, <2>3, <2>4
<1>3. \A i \in 1 .. m : more[i].kind = lines[i]
  BY <1>1 DEF Line
<1> HIDE DEF more
<1>4. /\ all \in Seq(AnswerLines) /\ Len(all) = n + m /\ DOMAIN all = 1 .. n + m
      /\ \A i \in 1 .. n + m : all[i] = IF i <= n THEN list[i] ELSE more[i - n]
  <2>0. Len(list \o more) = Len(list) + Len(more) /\ list \o more \in Seq(AnswerLines)
    BY <1>2, ConcatProperties
  <2>1. all \in Seq(AnswerLines) /\ Len(all) = n + m
    BY <1>2, <2>0
  <2>2. DOMAIN all = 1 .. n + m
    BY <2>1, LenProperties
  <2>3. \A i \in 1 .. n + m : all[i] = IF i <= n THEN list[i] ELSE more[i - n]
    BY <1>2, ConcatProperties
  <2> QED BY <2>1, <2>2, <2>3
<1> HIDE DEF n, m, all
<1>5. ASSUME NEW i \in 1 .. n + m
      PROVE  /\ all[i].kind = "OK" => ended = "done" /\ i = Len(all)
             /\ all[i].kind = "queued" => Works(request)
             /\ all[i].kind = "event" => request.verb = "subscribe"
  <2>1. CASE i <= n
    <3>1. i \in DOMAIN list /\ all[i] = list[i]
      BY <1>1, <1>4, <2>1
    <3> QED BY <3>1 DEF Fit
  <2>2. CASE ~ (i <= n)
    <3>1. i - n \in 1 .. m /\ all[i] = more[i - n] /\ (i - n = m => i = n + m)
      BY <1>1, <1>4, <2>2
    <3>2. all[i].kind = lines[i - n] /\ i - n \in DOMAIN lines
      BY <1>1, <1>3, <3>1
    <3> QED BY <1>4, <3>1, <3>2 DEF m
  <2> QED BY <2>1, <2>2
<1>6. Fit(all, request, ended)
  BY <1>4, <1>5 DEF Fit
<1> QED
  BY <1>4, <1>6 DEF all, more

LEMMA ReadFits ==
  ASSUME NEW list \in Seq(AnswerLines), list # <<>>, NEW request, NEW ended, Fit(list, request, ended)
  PROVE  /\ Head(list) \in AnswerLines /\ Tail(list) \in Seq(AnswerLines)
         /\ Fit(Tail(list), request, ended)
         /\ Head(list).kind = "OK" => ended = "done" /\ Tail(list) = <<>>
         /\ Head(list).kind = "queued" => Works(request)
         /\ Head(list).kind = "event" => request.verb = "subscribe"
<1> DEFINE n == Len(list)  rest == Tail(list)
<1>1. n \in Nat /\ n > 0 /\ DOMAIN list = 1 .. n
  BY LenProperties, EmptySeq
<1>2. /\ Head(list) = list[1] /\ Head(list) \in AnswerLines
      /\ rest \in Seq(AnswerLines) /\ DOMAIN rest = 1 .. n - 1 /\ Len(rest) = n - 1
      /\ \A i \in 1 .. n - 1 : rest[i] = list[i + 1]
  BY <1>1, HeadTailProperties, LenProperties
<1> HIDE DEF rest, n
<1>3. Fit(rest, request, ended)
  <2> SUFFICES ASSUME NEW i \in 1 .. n - 1
               PROVE  /\ rest[i].kind = "OK" => ended = "done" /\ i = Len(rest)
                      /\ rest[i].kind = "queued" => Works(request)
                      /\ rest[i].kind = "event" => request.verb = "subscribe"
    BY <1>2 DEF Fit
  <2>1. rest[i] = list[i + 1] /\ i + 1 \in 1 .. n /\ (i + 1 = n => i = n - 1)
    BY <1>1, <1>2
  <2> QED BY <1>1, <1>2, <2>1 DEF Fit, n
<1>4. 1 \in DOMAIN list
  BY <1>1
<1>5. Head(list).kind = "OK" => ended = "done" /\ n = 1
  BY <1>2, <1>4 DEF Fit, n
<1>6. n = 1 => rest = <<>>
  BY <1>2, EmptySeq
<1> QED
  BY <1>2, <1>3, <1>4, <1>5, <1>6 DEF Fit, rest

LEMMA ConvoStep == ConvoInv /\ [ConvoNext]_convoVars => ConvoInv'
<1> SUFFICES ASSUME ConvoInv, [ConvoNext]_convoVars PROVE ConvoInv'
  OBVIOUS
<1>1. CASE UNCHANGED convoVars
  BY <1>1 DEF convoVars, ConvoInv, Fields, Asking, Sent, Serving, Told, Served
\* A client that ends changes nothing else, but for the line it has read.
<1>2. ASSUME NEW code, cli' = Ended(code), asked' = asked, server' = server,
             answers' = answers \/ (answers # <<>> /\ answers' = Tail(answers)),
             code = "0" => cli.request.verb = "" \/ (server.ended = "done" /\ answers' = <<>>)
      PROVE  ConvoInv'
  <2>1. /\ DOMAIN cli' = DOMAIN cli /\ cli'.step = "ended" /\ cli'.exit = code
        /\ cli'.request = cli.request /\ cli'.printed = cli.printed
        /\ cli'.closed = cli.closed /\ cli'.waits = cli.waits
    BY <1>2 DEF Ended, ConvoInv, Fields
  <2>2. answers' \in Seq(AnswerLines) /\ Fit(answers', server'.request, server'.ended)
    BY <1>2, ReadFits DEF ConvoInv, Fields, Told
  <2>3. Fields' /\ Asking' /\ Sent' /\ Told'
    BY <1>2, <2>1, <2>2 DEF ConvoInv, Fields, Asking, Sent, Told, Served
  <2>4. Serving'
    BY <1>2, <2>1 DEF ConvoInv, Serving, Served
  <2> QED BY <2>3, <2>4 DEF ConvoInv
<1>3. ASSUME NEW words, Invoke(words) PROVE ConvoInv'
  <2> DEFINE r == Invocation(words)
  <2>1. cli.step = "start" /\ asked' = asked /\ answers' = answers /\ server' = server
    BY <1>3 DEF Invoke
  <2>2. \/ cli' = Ended("3") \/ cli' = Ended("0")
        \/ r.verb \notin {"usage", "help"} /\ cli' = [cli EXCEPT !.step = "connect", !.request = r]
    BY <1>3 DEF Invoke
  <2>3. CASE cli' = Ended("3") \/ cli' = Ended("0")
    BY <1>2, <2>1, <2>3 DEF ConvoInv, Asking
  <2>4. CASE r.verb \notin {"usage", "help"} /\ cli' = [cli EXCEPT !.step = "connect", !.request = r]
    <3>1. Sendable(r)
      BY <2>4, WhatIsAsked DEF Req
    <3> HIDE DEF r
    <3>2. /\ DOMAIN cli' = DOMAIN cli /\ cli'.step = "connect" /\ cli'.exit = cli.exit
          /\ cli'.request = r /\ cli'.printed = cli.printed
          /\ cli'.closed = cli.closed /\ cli'.waits = cli.waits
      BY <2>4 DEF ConvoInv, Fields
    <3>3. server.step = "idle" /\ ~Served /\ asked = <<>>
      BY <2>1 DEF ConvoInv, Asking
    <3>4. Fields' /\ Asking' /\ Sent' /\ Serving' /\ Told'
      BY <2>1, <3>1, <3>2, <3>3 DEF ConvoInv, Fields, Asking, Sent, Serving, Told, Served
    <3> QED BY <3>4 DEF ConvoInv
  <2> QED BY <2>2, <2>3, <2>4
<1>4. CASE CannotConnect
  BY <1>2, <1>4 DEF CannotConnect
<1>5. CASE Connect
  <2>1. /\ cli.step = "connect" /\ server.step = "idle" /\ asked' = asked /\ answers' = answers
        /\ cli' = [cli EXCEPT !.step = "greet"] /\ server' = [server EXCEPT !.step = "accepting"]
    BY <1>5 DEF Connect
  <2>2. /\ DOMAIN cli' = DOMAIN cli /\ cli'.step = "greet" /\ cli'.exit = cli.exit
        /\ cli'.request = cli.request /\ cli'.printed = cli.printed
        /\ cli'.closed = cli.closed /\ cli'.waits = cli.waits
        /\ DOMAIN server' = DOMAIN server /\ server'.step = "accepting"
        /\ server'.request = server.request /\ server'.ended = server.ended
    BY <2>1 DEF ConvoInv, Fields
  <2>3. Fields' /\ Asking' /\ Sent' /\ Serving' /\ Told'
    BY <2>1, <2>2 DEF ConvoInv, Fields, Asking, Sent, Serving, Told, Served
  <2> QED BY <2>3 DEF ConvoInv
<1>6. CASE Greet
  <2>1. cli.step = "greet" /\ answers # <<>> /\ answers' = Tail(answers) /\ server' = server
    BY <1>6 DEF Greet
  <2>2. \/ asked' = asked /\ (cli' = Ended("3") \/ cli' = Ended("1"))
        \/ cli' = [cli EXCEPT !.step = "read"] /\ asked' = <<EncodeRequest(cli.request)>>
    BY <1>6 DEF Greet
  <2>3. CASE asked' = asked /\ (cli' = Ended("3") \/ cli' = Ended("1"))
    BY <1>2, <2>1, <2>3
  <2>4. CASE cli' = [cli EXCEPT !.step = "read"] /\ asked' = <<EncodeRequest(cli.request)>>
    <3>1. /\ DOMAIN cli' = DOMAIN cli /\ cli'.step = "read" /\ cli'.exit = cli.exit
          /\ cli'.request = cli.request /\ cli'.printed = cli.printed
          /\ cli'.closed = cli.closed /\ cli'.waits = cli.waits
      BY <2>4 DEF ConvoInv, Fields
    <3>2. answers' \in Seq(AnswerLines) /\ Fit(answers', server'.request, server'.ended)
      BY <2>1, ReadFits DEF ConvoInv, Fields, Told
    <3>3. Sendable(cli.request) /\ ~Served /\ server.step \in {"ready", "gone"} /\ server.ended # "done"
      BY <2>1 DEF ConvoInv, Asking, Serving, Works, SetsTheWallpaper, Served
    <3>4. Fields' /\ Asking' /\ Sent' /\ Serving' /\ Told'
      BY <2>1, <2>4, <3>1, <3>2, <3>3 DEF ConvoInv, Fields, Asking, Sent, Serving, Told, Served
    <3> QED BY <3>4 DEF ConvoInv
  <2> QED BY <2>2, <2>3, <2>4
<1>e. Works(server.request) => Served /\ server.request = cli.request /\ server.request.verb # "subscribe"
  <2>1. ~ Works(BadArgs)
    BY DEF Works, SetsTheWallpaper, BadArgs, Req
  <2>2. Works(server.request) => server.request.verb \notin {"", "subscribe"}
    BY DEF Works, SetsTheWallpaper
  <2>3. Served => server.request \in {cli.request, BadArgs}
    BY DEF ConvoInv, Serving
  <2> QED BY <2>1, <2>2, <2>3 DEF Served
<1>7. CASE ReadLine
  <2> DEFINE line == Head(answers)
             answer == VerdictOn(line)
             printed == Append(cli.printed, line.kind)
             closes == answer = "event" /\ cli.request.verb = "subscribe" /\ ~cli.closed
             waits == answer = "interim" /\ SetsTheWallpaper(cli.request)
             onward == [cli EXCEPT !.printed = printed, !.closed = @ \/ closes, !.waits = @ \/ waits]
  <2>1. /\ cli.step = "read" /\ answers # <<>> /\ answers' = Tail(answers) /\ server' = server
        /\ asked' = IF closes THEN Append(asked, <<"close">>) ELSE asked
    BY <1>7 DEF ReadLine
  <2>2. \/ cli' = CASE answer = "done" -> Ended("0")
                    [] answer = "refused" -> Ended("1")
                    [] answer = "malformed" -> Ended("3")
                    [] OTHER -> onward
        \/ closes /\ server.step = "gone" /\ cli' = Ended("1")
    BY <1>7, Zenon DEF ReadLine
  <2>3. /\ line \in AnswerLines /\ answers' \in Seq(AnswerLines)
        /\ Fit(answers', server'.request, server'.ended)
        /\ line.kind = "OK" => server.ended = "done" /\ answers' = <<>>
        /\ line.kind = "queued" => Works(server.request)
        /\ line.kind = "event" => server.request.verb = "subscribe"
    BY <2>1, ReadFits DEF ConvoInv, Fields, Told
  <2>4. /\ answer = "done" <=> line.kind = "OK"
        /\ answer = "interim" <=> line.kind = "queued"
        /\ answer = "event" <=> line.kind = "event"
    BY DEF VerdictOn
  <2> HIDE DEF answer, closes, waits, line, printed
  <2>5. closes => /\ Served /\ cli.request.verb = "subscribe" /\ server.request.verb = "subscribe"
                  /\ asked = <<>> /\ server.ended # "done" /\ line.kind = "event"
    BY <2>1, <2>3, <2>4 DEF ConvoInv, Sent, Serving, Served, closes
  <2>6. asked' = IF closes THEN <<<<"close">>>> ELSE asked
    <3>1. Append(<<>>, <<"close">>) = <<<<"close">>>>
      OBVIOUS
    <3>2. CASE closes
      BY <2>1, <2>5, <3>1, <3>2
    <3>3. CASE ~closes
      BY <2>1, <3>3
    <3> QED BY <3>2, <3>3
  <2>7. CASE ~closes /\ answer \in {"done", "refused", "malformed"}
    <3>1. cli' = Ended("0") \/ cli' = Ended("1") \/ cli' = Ended("3")
      BY <2>2, <2>7
    <3>2. cli' = Ended("0") => answer = "done"
      BY <2>2, <2>7 DEF ConvoInv, Fields, Ended
    <3> QED BY <1>2, <2>1, <2>3, <2>4, <2>6, <2>7, <3>1, <3>2
  <2>8. CASE answer \notin {"done", "refused", "malformed"} /\ cli' = onward
    <3>1. /\ DOMAIN cli' = DOMAIN cli /\ cli'.step = "read" /\ cli'.exit = cli.exit
          /\ cli'.request = cli.request /\ cli'.printed = printed
          /\ cli'.closed = (cli.closed \/ closes) /\ cli'.waits = (cli.waits \/ waits)
      BY <2>1, <2>8 DEF ConvoInv, Fields
    <3>2. /\ printed \in Seq(Kinds)
          /\ Contains(cli.printed, "event") \/ closes => Contains(printed, "event")
      <4> DEFINE n == Len(cli.printed)
      <4>1. /\ cli.printed \in Seq(Kinds) /\ line.kind \in Kinds /\ n \in Nat
        BY <2>3, LenProperties DEF ConvoInv, Fields, AnswerLines
      <4>2. /\ printed \in Seq(Kinds) /\ Len(printed) = n + 1 /\ printed[n + 1] = line.kind
            /\ \A i \in 1 .. n : printed[i] = cli.printed[i]
        BY <4>1, AppendProperties DEF printed
      <4> HIDE DEF n
      <4>3. n + 1 \in 1 .. n + 1 /\ \A i \in 1 .. n : i \in 1 .. n + 1
        BY <4>1
      <4>4. ASSUME Contains(cli.printed, "event") PROVE Contains(printed, "event")
        BY <4>2, <4>3, <4>4 DEF Contains, n
      <4>5. ASSUME closes PROVE Contains(printed, "event")
        BY <2>5, <4>2, <4>3, <4>5 DEF Contains
      <4> QED BY <4>2, <4>4, <4>5
    <3>3. waits => SetsTheWallpaper(server.request)
      BY <1>e, <2>3, <2>4 DEF waits
    <3>4. Fields'
      BY <2>1, <2>3, <3>1, <3>2 DEF ConvoInv, Fields
    <3>5. Asking'
      BY <2>1, <3>1, <3>2, <3>3 DEF ConvoInv, Asking, Served
    <3>6. Sent'
      <4>1. CASE closes
        BY <2>1, <2>5, <2>6, <3>1, <4>1 DEF Sent
      <4>2. CASE ~closes
        BY <2>1, <2>6, <3>1, <4>2 DEF ConvoInv, Sent, Served
      <4> QED BY <4>1, <4>2
    <3>7. Serving'
      <4>1. closes => Served /\ server.ended # "done"
        BY <2>5
      <4> QED BY <2>1, <2>6, <3>1, <4>1 DEF ConvoInv, Serving, Served
    <3>8. Told'
      BY <2>1, <2>3, <3>1 DEF ConvoInv, Asking, Told
    <3> QED BY <3>4, <3>5, <3>6, <3>7, <3>8 DEF ConvoInv
  <2>9. CASE closes /\ server.step = "gone" /\ cli' = Ended("1")
    <3>1. /\ DOMAIN cli' = DOMAIN cli /\ cli'.step = "ended" /\ cli'.exit = "1"
          /\ cli'.request = cli.request /\ cli'.printed = cli.printed
          /\ cli'.closed = cli.closed /\ cli'.waits = cli.waits
      BY <2>9 DEF Ended, ConvoInv, Fields
    <3>2. asked' = <<<<"close">>>>
      BY <2>6, <2>9
    <3>3. Fields' /\ Asking' /\ Sent' /\ Told'
      BY <2>1, <2>3, <2>5, <2>9, <3>1, <3>2 DEF ConvoInv, Fields, Asking, Sent, Told, Served
    <3>4. Serving'
      BY <2>1, <2>5, <2>9, <3>1, <3>2 DEF ConvoInv, Serving, Served
    <3> QED BY <3>3, <3>4 DEF ConvoInv
  <2>10. closes => answer = "event"
    BY DEF closes
  <2> HIDE DEF onward
  <2> QED BY <2>2, <2>7, <2>8, <2>9, <2>10
<1>8. CASE ReadEnd
  BY <1>2, <1>8 DEF ReadEnd
\* What the daemon's end writes of the request it serves, or of none.
<1>a. ASSUME NEW lines \in Seq(Kinds), Writes(lines), cli' = cli, DOMAIN server' = DOMAIN server,
             server.ended # "done", Works(server.request) => Works(server'.request),
             server.request.verb = "subscribe" => server'.request.verb = "subscribe",
             \A i \in DOMAIN lines :
               /\ lines[i] = "OK" => server'.ended = "done" /\ i = Len(lines)
               /\ lines[i] = "queued" => Works(server'.request)
               /\ lines[i] = "event" => server'.request.verb = "subscribe"
      PROVE  Fields' /\ Told'
  <2> DEFINE more == [i \in DOMAIN lines |-> Line(lines[i])]
  <2>1. answers' = answers \o more
    BY <1>a DEF Writes
  <2>2. answers \o more \in Seq(AnswerLines) /\ Fit(answers \o more, server'.request, server'.ended)
    BY <1>a, WritesFit DEF ConvoInv, Fields, Told
  <2> HIDE DEF more
  <2>3. ~ (cli.exit = "0" /\ cli.request.verb # "")
    BY <1>a DEF ConvoInv, Told
  <2> QED BY <1>a, <2>1, <2>2, <2>3 DEF ConvoInv, Fields, Told
\* One line, or data and OK.
<1>b. ASSUME NEW kind \in Kinds
      PROVE  /\ <<kind>> \in Seq(Kinds) /\ DOMAIN <<kind>> = {1} /\ Len(<<kind>>) = 1 /\ <<kind>>[1] = kind
  OBVIOUS
<1>c. /\ <<"data", "OK">> \in Seq(Kinds) /\ DOMAIN <<"data", "OK">> = {1, 2} /\ Len(<<"data", "OK">>) = 2
      /\ <<"data", "OK">>[1] = "data" /\ <<"data", "OK">>[2] = "OK"
  BY DEF Kinds
<1>d. ASSUME NEW step, NEW how, Reaches(step, how)
      PROVE  /\ DOMAIN server' = DOMAIN server /\ server'.step = step /\ server'.ended = how
             /\ server'.request = server.request
  BY <1>d DEF Reaches, ConvoInv, Fields
<1>9. CASE AcceptClient
  <2>1. server.step = "accepting" /\ cli' = cli /\ asked' = asked
    BY <1>9 DEF AcceptClient
  <2>2. ~Served /\ asked = <<>> /\ answers = <<>> /\ server.ended # "done"
    BY <2>1 DEF ConvoInv, Serving
  <2>3. PICK kind \in {"greeting", "ERR", "other greeting"} :
          /\ Writes(<<kind>>)
          /\ DOMAIN server' = DOMAIN server /\ server'.request = server.request
          /\ server'.step \in {"ready", "gone"} /\ server'.ended # "done"
    <3>1. \/ Writes(<<"greeting">>) /\ server' = [server EXCEPT !.step = "ready"]
          \/ Writes(<<"ERR">>) /\ Reaches("gone", "refused")
          \/ Writes(<<"other greeting">>) /\ server' = [server EXCEPT !.step = "gone"]
      BY <1>9 DEF AcceptClient
    <3>2. ASSUME NEW step \in {"ready", "gone"}, server' = [server EXCEPT !.step = step]
          PROVE  /\ DOMAIN server' = DOMAIN server /\ server'.request = server.request
                 /\ server'.step \in {"ready", "gone"} /\ server'.ended # "done"
      BY <2>2, <3>2 DEF ConvoInv, Fields
    <3>3. CASE Writes(<<"greeting">>) /\ server' = [server EXCEPT !.step = "ready"]
      BY <3>2, <3>3
    <3>4. CASE Writes(<<"ERR">>) /\ Reaches("gone", "refused")
      <4>1. /\ DOMAIN server' = DOMAIN server /\ server'.request = server.request
            /\ server'.step = "gone" /\ server'.ended = "refused"
        BY <1>d, <3>4
      <4> QED BY <3>4, <4>1
    <3>5. CASE Writes(<<"other greeting">>) /\ server' = [server EXCEPT !.step = "gone"]
      BY <3>2, <3>5
    <3> QED BY <3>1, <3>3, <3>4, <3>5
  <2>4. Fields' /\ Told'
    BY <1>a, <1>b, <2>1, <2>2, <2>3 DEF Kinds
  <2>5. Asking' /\ Sent' /\ Serving'
    BY <2>1, <2>2, <2>3 DEF ConvoInv, Asking, Sent, Serving, Served
  <2> QED BY <2>4, <2>5 DEF ConvoInv
<1>10. CASE Dispatch
  <2> DEFINE r == ParseRequest(Head(asked))
             now(step, how) == server' = [server EXCEPT !.step = step, !.ended = how, !.request = r]
             does(lines, step, how) == Writes(lines) /\ now(step, how)
  <2>1. server.step = "ready" /\ asked # <<>> /\ asked' = Tail(asked) /\ cli' = cli
    BY <1>10 DEF Dispatch
  <2>2. \/ Refuses(r) /\ does(<<"ERR">>, "ready", "refused")
        \/ Works(r) /\ does(<<"queued">>, "working", "no")
        \/ r.verb = "subscribe" /\ does(<<"data">>, "stream", "no")
        \/ r.verb = "close" /\ does(<<"OK">>, "gone", "done")
        \/ r.verb \in {"ping", "pause", "resume"} /\ does(<<"OK">>, "ready", "done")
        \/ /\ r.verb \notin {"ERR", "subscribe", "close", "ping", "pause", "resume"} /\ ~Works(r)
           /\ does(<<"data", "OK">>, "ready", "done")
    BY <1>10, Zenon DEF Dispatch
  <2>3. /\ ~Served /\ Sendable(cli.request) /\ server.ended # "done"
        /\ asked = <<EncodeRequest(cli.request)>>
    BY <2>1 DEF ConvoInv, Sent, Serving
  <2>4. r \in {cli.request, BadArgs} /\ asked' = <<>>
    <3>1. Head(asked) = EncodeRequest(cli.request) /\ Tail(asked) = <<>>
      BY <2>3
    <3> QED BY <2>1, <2>3, <3>1, RoundTrip
  <2>5. r.verb \notin {"", "close"} /\ (r.verb # "ERR" => r = cli.request)
    <3>1. BadArgs.verb = "ERR"
      BY DEF BadArgs, Req
    <3>2. cli.request.verb \notin {"", "close"}
      <4>1. \A v, arg : Req(v, arg).verb = v
        BY DEF Req
      <4>2. ASSUME NEW v \in Bare \ {"close"} PROVE v # ""
        BY DEF Bare
      <4>3. \/ \E v \in Bare \ {"close"} : cli.request = Req(v, NoArg)
            \/ \E v \in {"subscribe", "config path", "config check"} : cli.request = Req(v, NoArg)
            \/ \E v \in {"history", "set path", "set id", "favorite", "unfavorite"} :
                 \E arg : cli.request = Req(v, arg)
        BY <2>3, Zenon DEF Sendable
      <4>4. CASE \E v \in Bare \ {"close"} : cli.request = Req(v, NoArg)
        BY <4>1, <4>2, <4>4
      <4>5. CASE \E v \in {"subscribe", "config path", "config check"} : cli.request = Req(v, NoArg)
        BY <4>1, <4>5
      <4>6. CASE \E v \in {"history", "set path", "set id", "favorite", "unfavorite"} :
                   \E arg : cli.request = Req(v, arg)
        BY <4>1, <4>6
      <4> QED BY <4>3, <4>4, <4>5, <4>6
    <3> QED BY <2>4, <3>1, <3>2
  <2>6. ~ Works(server.request) /\ server.request.verb # "subscribe" /\ ~cli.waits
    BY <2>3 DEF ConvoInv, Asking, Works, SetsTheWallpaper, Served
  <2>7. /\ Refuses(r) => r.verb # "subscribe"
        /\ Works(r) => r.verb \notin {"ERR", "subscribe"}
    BY DEF Refuses, Works, SetsTheWallpaper
  <2> HIDE DEF r
  <2>8. ASSUME NEW step, NEW how, now(step, how)
        PROVE  /\ DOMAIN server' = DOMAIN server /\ server'.step = step /\ server'.ended = how
               /\ server'.request = r
    BY <2>8 DEF ConvoInv, Fields
  <2>9. ASSUME NEW lines \in Seq(Kinds), NEW step \in {"ready", "working", "stream"}, NEW how,
               does(lines, step, how),
               step = "working" => Works(r), step = "stream" <=> r.verb = "subscribe",
               how = "done" => step = "ready" /\ r.verb # "ERR",
               \A i \in DOMAIN lines : /\ lines[i] = "OK" => how = "done" /\ i = Len(lines)
                                       /\ lines[i] = "queued" => Works(r)
                                       /\ lines[i] # "event"
        PROVE  ConvoInv'
    <3>1. /\ DOMAIN server' = DOMAIN server /\ server'.step = step /\ server'.ended = how
          /\ server'.request = r
      BY <2>8, <2>9
    <3>2. Fields' /\ Told'
      BY <1>a, <2>1, <2>3, <2>6, <2>9, <3>1
    <3>3. Asking' /\ Sent'
      BY <2>1, <2>3, <2>4, <2>5, <2>6, <3>1 DEF ConvoInv, Asking, Sent, Served
    <3>4. Serving'
      BY <2>1, <2>4, <2>5, <2>9, <3>1 DEF ConvoInv, Serving, Served
    <3> QED BY <3>2, <3>3, <3>4 DEF ConvoInv
  <2> HIDE DEF does
  <2>10. CASE Refuses(r) /\ does(<<"ERR">>, "ready", "refused")
    BY <1>b, <2>7, <2>9, <2>10 DEF Kinds
  <2>11. CASE Works(r) /\ does(<<"queued">>, "working", "no")
    BY <1>b, <2>7, <2>9, <2>11 DEF Kinds
  <2>12. CASE r.verb = "subscribe" /\ does(<<"data">>, "stream", "no")
    BY <1>b, <2>9, <2>12 DEF Kinds
  <2>13. CASE r.verb \in {"ping", "pause", "resume"} /\ does(<<"OK">>, "ready", "done")
    BY <1>b, <2>9, <2>13 DEF Kinds
  <2>14. CASE r.verb \notin {"ERR", "subscribe"} /\ does(<<"data", "OK">>, "ready", "done")
    BY <1>c, <2>9, <2>14
  <2> QED BY <2>2, <2>5, <2>10, <2>11, <2>12, <2>13, <2>14
<1>11. CASE WorkDone
  <2>1. server.step = "working" /\ cli' = cli /\ asked' = asked
    BY <1>11 DEF WorkDone
  <2>2. Served /\ Works(server.request) /\ server.request.verb # "subscribe" /\ server.ended # "done" /\ asked = <<>>
        /\ server.request = cli.request
    BY <1>e, <2>1 DEF ConvoInv, Serving, Sent
  <2>3. \/ Writes(<<"data", "OK">>) /\ Reaches("ready", "done")
        \/ Writes(<<"ERR">>) /\ Reaches("ready", "refused")
    BY <1>11 DEF WorkDone
  <2>4. /\ DOMAIN server' = DOMAIN server /\ server'.step = "ready" /\ server'.request = server.request
    BY <1>d, <2>3
  <2>5. Fields' /\ Told'
    <3>1. CASE Writes(<<"data", "OK">>) /\ Reaches("ready", "done")
      BY <1>a, <1>c, <1>d, <2>1, <2>2, <2>4, <3>1
    <3>2. CASE Writes(<<"ERR">>)
      BY <1>a, <1>b, <2>1, <2>2, <2>4, <3>2 DEF Kinds
    <3> QED BY <2>3, <3>1, <3>2
  <2>6. Asking' /\ Sent' /\ Serving'
    BY <2>1, <2>2, <2>4 DEF ConvoInv, Asking, Sent, Serving, Served
  <2> QED BY <2>5, <2>6 DEF ConvoInv
<1>12. CASE StreamEvent
  <2>1. /\ server.step = "stream" /\ Writes(<<"event">>) /\ cli' = cli /\ asked' = asked
        /\ server' = [server EXCEPT !.seen = @ + 1]
    BY <1>12 DEF StreamEvent
  <2>2. /\ DOMAIN server' = DOMAIN server /\ server'.step = server.step /\ server'.request = server.request
        /\ server'.ended = server.ended
    BY <2>1 DEF ConvoInv, Fields
  <2>3. server.request.verb = "subscribe" /\ server.ended # "done"
    BY <2>1 DEF ConvoInv, Serving
  <2>4. Fields' /\ Told'
    BY <1>a, <1>b, <2>1, <2>2, <2>3 DEF Kinds
  <2>5. Asking' /\ Sent' /\ Serving'
    BY <2>1, <2>2 DEF ConvoInv, Asking, Sent, Serving, Served
  <2> QED BY <2>4, <2>5 DEF ConvoInv
<1>13. CASE StreamClose
  <2>1. server.step = "stream" /\ asked # <<>> /\ asked' = Tail(asked) /\ cli' = cli
    BY <1>13 DEF StreamClose
  <2>2. /\ server.request.verb = "subscribe" /\ Served /\ server.ended # "done"
        /\ asked = <<<<"close">>>> /\ cli.closed
    BY <2>1 DEF ConvoInv, Serving, Sent, Served
  <2>3. server.request = cli.request
    <3>1. BadArgs.verb = "ERR"
      BY DEF BadArgs, Req
    <3> QED BY <2>2, <3>1 DEF ConvoInv, Serving
  <2>4. asked' = <<>> /\ ParseRequest(Head(asked)).verb = "close"
    <3>1. Head(asked) = <<"close">> /\ Tail(asked) = <<>>
      BY <2>2
    <3>2. Head(<<"close">>) = "close" /\ Tail(<<"close">>) = <<>>
      OBVIOUS
    <3>3. Parse("close", <<>>).verb = "close"
      BY DEF Parse, Bare, Given, Req
    <3> QED BY <2>1, <3>1, <3>2, <3>3 DEF ParseRequest
  <2>5. Writes(<<"OK">>) /\ Reaches("gone", "done")
    BY <1>13, <2>4, Zenon DEF StreamClose
  <2>6. /\ DOMAIN server' = DOMAIN server /\ server'.step = "gone" /\ server'.ended = "done"
        /\ server'.request = server.request
    BY <1>d, <2>5
  <2>7. Fields' /\ Told'
    BY <1>a, <1>b, <2>1, <2>2, <2>5, <2>6 DEF Kinds
  <2>8. Asking' /\ Sent' /\ Serving'
    BY <2>1, <2>2, <2>3, <2>4, <2>6 DEF ConvoInv, Asking, Sent, Serving, Served
  <2> QED BY <2>7, <2>8 DEF ConvoInv
\* The line that is cut says no more than it would have.
<1>14. CASE HangUp
  <2>1. /\ server.step \in {"accepting", "ready", "working", "stream"} /\ cli' = cli /\ asked' = asked
        /\ server' = [server EXCEPT !.step = "gone"]
    BY <1>14 DEF HangUp
  <2>2. /\ DOMAIN server' = DOMAIN server /\ server'.step = "gone" /\ server'.ended = server.ended
        /\ server'.request = server.request
    BY <2>1 DEF ConvoInv, Fields
  <2>3. \/ answers' = answers
        \/ answers # <<>> /\ \E kind \in {Last(answers).kind, "malformed"} :
             answers' = Front(answers) \o <<[kind |-> kind, cut |-> TRUE]>>
    BY <1>14 DEF HangUp
  <2>4. answers' \in Seq(AnswerLines) /\ Fit(answers', server.request, server.ended)
    <3>1. CASE answers' = answers
      BY <3>1 DEF ConvoInv, Fields, Told
    <3>2. ASSUME answers # <<>>, NEW kind \in {Last(answers).kind, "malformed"},
                 answers' = Front(answers) \o <<[kind |-> kind, cut |-> TRUE]>>
          PROVE  answers' \in Seq(AnswerLines) /\ Fit(answers', server.request, server.ended)
      <4> DEFINE n == Len(answers)
                 last == [kind |-> kind, cut |-> TRUE]
                 front == Front(answers)
                 list == front \o <<last>>
      <4>1. /\ answers \in Seq(AnswerLines) /\ n \in Nat /\ n > 0 /\ DOMAIN answers = 1 .. n
            /\ Last(answers) = answers[n] /\ answers[n] \in AnswerLines
        BY <3>2, LenProperties, EmptySeq DEF ConvoInv, Fields, Last
      <4> HIDE DEF n
      <4>9. (n - 1) + 1 = n /\ n \in 1 .. n /\ \A i \in 1 .. n : i = n \/ i \in 1 .. n - 1
        BY <4>1
      <4>2. last \in AnswerLines
        BY <3>2, <4>1 DEF AnswerLines, Kinds
      <4>3. /\ front \in Seq(AnswerLines) /\ Len(front) = n - 1
            /\ \A i \in 1 .. n - 1 : front[i] = answers[i]
        BY <4>1 DEF Front, n
      <4>4. last.kind \in {answers[n].kind, "malformed"}
        BY <3>2, <4>1
      <4> HIDE DEF front, last
      <4>5. <<last>> \in Seq(AnswerLines) /\ Len(<<last>>) = 1 /\ <<last>>[1] = last
        BY <4>2
      <4>6. /\ list \in Seq(AnswerLines) /\ Len(list) = n /\ DOMAIN list = 1 .. n
            /\ \A i \in 1 .. n - 1 : list[i] = answers[i]
            /\ list[n] = last
        <5>1. /\ list \in Seq(AnswerLines) /\ Len(list) = (n - 1) + 1
              /\ \A i \in 1 .. (n - 1) + 1 : list[i] = IF i <= n - 1 THEN front[i] ELSE <<last>>[i - (n - 1)]
          BY <4>3, <4>5, ConcatProperties
        <5> HIDE DEF list
        <5>2. Len(list) = n /\ DOMAIN list = 1 .. n
          BY <4>9, <5>1, LenProperties
        <5>3. \A i \in 1 .. n - 1 : list[i] = answers[i]
          BY <4>1, <4>3, <5>1
        <5>4. list[n] = last
          BY <4>1, <4>5, <4>9, <5>1
        <5> QED BY <5>1, <5>2, <5>3, <5>4
      <4> HIDE DEF list
      <4>7. ASSUME NEW i \in 1 .. n
            PROVE  list[i].kind = "malformed" \/ list[i].kind = answers[i].kind
        <5>1. CASE i = n
          BY <4>4, <4>6, <5>1
        <5>2. CASE i # n
          BY <4>6, <4>9, <5>2
        <5> QED BY <5>1, <5>2
      <4>8. Fit(list, server.request, server.ended)
        BY <4>1, <4>6, <4>7 DEF ConvoInv, Told, Fit, n
      <4> QED BY <3>2, <4>6, <4>8 DEF list, front, last
    <3> QED BY <2>3, <3>1, <3>2
  <2>5. cli.exit = "0" /\ cli.request.verb # "" => answers' = <<>>
    BY <2>3 DEF ConvoInv, Told
  <2>6. Fields' /\ Told'
    BY <2>1, <2>2, <2>4, <2>5 DEF ConvoInv, Fields, Told
  <2>7. Asking' /\ Sent' /\ Serving'
    BY <2>1, <2>2 DEF ConvoInv, Asking, Sent, Serving, Served
  <2> QED BY <2>6, <2>7 DEF ConvoInv
<1> QED
  BY <1>1, <1>3, <1>4, <1>5, <1>6, <1>7, <1>8, <1>9, <1>10, <1>11, <1>12, <1>13, <1>14 DEF ConvoNext

\* Exit code 0 is the daemon's own OK to the request the command line stands for, for every
\* command line and every number of events, however the daemon fails in between; what the
\* client prints and waits for is that request's (main.rs talk; protocol.rs encode, parse).
THEOREM ExitIsTrue == ConvoSpec => []ExitIsTheAnswer
<1>1. ASSUME ConvoInit PROVE ConvoInv
  <2>1. /\ DOMAIN cli = {"step", "request", "printed", "waits", "closed", "exit"}
        /\ cli.step = "start" /\ cli.request.verb = "" /\ cli.printed = <<>> /\ cli.waits = FALSE
        /\ cli.closed = FALSE /\ cli.exit = "none" /\ asked = <<>> /\ answers = <<>>
        /\ DOMAIN server = {"step", "request", "ended", "seen"}
        /\ server.step = "idle" /\ server.request.verb = "" /\ server.ended = "no"
    BY <1>1 DEF ConvoInit, Req
  <2>2. <<>> \in Seq(AnswerLines) /\ <<>> \in Seq(Kinds) /\ DOMAIN <<>> = {}
    OBVIOUS
  <2>3. Fields /\ Asking /\ Sent /\ Serving
    BY <2>1, <2>2 DEF Fields, Asking, Sent, Serving, Served
  <2>4. Told
    BY <2>1, <2>2 DEF Told, Fit
  <2> QED BY <2>3, <2>4 DEF ConvoInv
<1>2. ConvoInv => ExitIsTheAnswer
  BY DEF ConvoInv, Asking, Serving, Told, ExitIsTheAnswer
<1> QED
  BY ConvoStep, <1>1, <1>2, PTL DEF ConvoSpec

-----------------------------------------------------------------------------
(* HeadWindow *)

\* The lesser of two numbers, as `usize::min` takes it.
LEMMA LesserOf ==
  ASSUME NEW a \in Nat, NEW b \in Nat
  PROVE  Min({a, b}) = IF a <= b THEN a ELSE b
<1>1. Min({a, b}) \in {a, b} /\ \A y \in {a, b} : Min({a, b}) <= y
  BY LeastNatural
<1> HIDE DEF Min
<1>2. Min({a, b}) \in Nat
  BY <1>1
<1> QED
  BY <1>1, <1>2

\* What is assumed of a picture, field by field.
LEMMA PictureFacts ==
  ASSUME NEW f \in Pictures
  PROVE  /\ f.kind \in {"png", "webp", "heic", "jpeg", "other"} /\ f.meta \in Nat /\ f.length \in Nat
         /\ DOMAIN f.parts \subseteq Nat
         /\ \A i \in DOMAIN f.parts : f.parts[i].at \in Nat
<1>1. f \in [kind : {"png", "webp", "heic", "jpeg", "other"}, meta : Nat, length : Nat,
             parts : Seq([what : DOMAIN LeastSize, at : Nat])]
  BY HeadAssumption DEF Shapes
<1>2. f.parts \in Seq([what : DOMAIN LeastSize, at : Nat])
  BY <1>1
<1>3. ASSUME NEW P, NEW s \in Seq(P) PROVE DOMAIN s \subseteq Nat /\ \A i \in DOMAIN s : s[i] \in P
  OBVIOUS
<1>4. /\ DOMAIN f.parts \subseteq Nat
      /\ \A i \in DOMAIN f.parts : f.parts[i] \in [what : DOMAIN LeastSize, at : Nat]
  BY <1>2, <1>3
<1> QED
  BY <1>1, <1>4

\* More bytes do not change what sniff_jpeg has decided.
LEMMA JpegStays ==
  ASSUME FramesAreReadFirst, NEW f \in Pictures, NEW n \in Nat, NEW m \in Nat, n <= m,
         SniffJpeg(f, n) # "beyond_window"
  PROVE  SniffJpeg(f, m) = SniffJpeg(f, n)
<1> DEFINE Cut(i, k) == f.parts[i].at + 3 >= k
           Junk(i) == f.parts[i].what = "junk"
           Frame(i, k) == f.parts[i].what = "frame" /\ f.parts[i].at + 9 < k
           Stops(k) == {i \in DOMAIN f.parts : Cut(i, k) \/ Junk(i) \/ Frame(i, k)}
           first == Min(Stops(n))
<1>1. ASSUME NEW k \in {n, m}
      PROVE  SniffJpeg(f, k) = IF Stops(k) = {} \/ Cut(Min(Stops(k)), k) THEN "beyond_window"
                               ELSE IF Junk(Min(Stops(k))) THEN "not_an_image" ELSE "measured"
  BY DEF SniffJpeg
<1>2. Stops(n) # {} /\ ~ Cut(first, n)
  BY <1>1
<1>3. Stops(n) \subseteq Nat /\ Stops(m) \subseteq Nat
  BY PictureFacts
<1>4. first \in Stops(n) /\ \A i \in Stops(n) : first <= i
  BY <1>2, <1>3, LeastNatural
<1> HIDE DEF first
<1>5. first \in DOMAIN f.parts /\ first \in Nat /\ f.parts[first].at \in Nat
  BY <1>3, <1>4, PictureFacts
<1>6. first \in Stops(m)
  BY <1>2, <1>4, <1>5
<1>7. ASSUME NEW i \in Stops(m), i < first PROVE FALSE
  <2>1. i \in DOMAIN f.parts /\ i \in Nat /\ f.parts[i].at \in Nat /\ i \notin Stops(n)
    BY <1>3, <1>4, <1>5, <1>7, PictureFacts
  <2>2. ~ Cut(i, n) /\ ~ Junk(i) /\ ~ Frame(i, n)
    BY <2>1
  <2>3. Frame(i, m)
    BY <1>7, <2>1, <2>2
  <2>4. f.parts[first].at >= f.parts[i].at + 6
    BY <1>5, <1>7, <2>1, <2>3 DEF FramesAreReadFirst
  <2>5. f.parts[i].at + 9 >= n
    BY <2>1, <2>2, <2>3
  <2> QED BY <1>2, <1>5, <2>1, <2>4, <2>5
<1>8. Min(Stops(m)) = first
  <2>1. Min(Stops(m)) \in Stops(m) /\ Min(Stops(m)) <= first
    BY <1>3, <1>6, LeastNatural
  <2>2. Min(Stops(m)) \in Nat
    BY <1>3, <2>1
  <2>3. ~ (Min(Stops(m)) < first)
    BY <1>7, <2>1
  <2> QED BY <1>5, <2>1, <2>2, <2>3
<1>9. ~ Cut(first, m)
  BY <1>2, <1>5
<1> QED
  BY <1>1, <1>2, <1>6, <1>8, <1>9 DEF first

\* A sniff has one of three answers.
LEMMA Sniffs == \A f, n : SniffJpeg(f, n) \in Verdicts /\ Sniffed(f, n) \in Verdicts
BY DEF SniffJpeg, Sniffed, Verdicts

\* A window that the small one has made wide and that is small again says that the bytes
\* are decided.
LEMMA DecidedStays ==
  ASSUME FramesAreReadFirst, NEW f \in Pictures, NEW n \in Nat, NEW m \in Nat, Small <= n, n <= m,
         HeadWindowOf(f, Small) = Wide, HeadWindowOf(f, n) = Small
  PROVE  Sniffed(f, m) = Sniffed(f, n)
<1>1. Small \in Nat /\ Wide \in Nat /\ Small # Wide /\ ~ (n < Small) /\ ~ (Small < Small)
  BY HeadAssumption
<1>2. Sniffed(f, n) # "beyond_window" /\ (IsHeic(f, n) => Sniffed(f, n) = "measured")
  BY <1>1, Sniffs DEF HeadWindowOf, Verdicts
<1>3. Sniffed(f, Small) = "beyond_window" \/ IsHeic(f, Small)
  BY <1>1, Sniffs DEF HeadWindowOf, Verdicts
<1>4. f.meta \in Nat
  BY PictureFacts
<1>5. CASE IsHeic(f, Small)
  <2>1. f.kind = "heic" /\ 16 <= Small /\ n >= 16 /\ m >= 16
    BY <1>1, <1>5 DEF IsHeic
  <2>2. IsHeic(f, n) /\ IsHeic(f, m)
    BY <2>1 DEF IsHeic
  <2>3. f.meta \in 1 .. n
    BY <1>2, <2>1, <2>2 DEF Sniffed
  <2>4. f.meta \in 1 .. m
    BY <1>4, <2>3
  <2> QED BY <1>2, <2>1, <2>2, <2>4 DEF Sniffed
<1>6. CASE Sniffed(f, Small) = "beyond_window"
  <2>1. f.kind = "jpeg" /\ Small >= 4
    BY <1>6 DEF Sniffed
  <2>2. n >= 4 /\ m >= 4
    BY <1>1, <2>1
  <2>3. Sniffed(f, n) = SniffJpeg(f, n) /\ Sniffed(f, m) = SniffJpeg(f, m)
    BY <2>1, <2>2 DEF Sniffed, IsHeic
  <2> QED BY <1>2, <2>3, JpegStays
<1> QED
  BY <1>3, <1>5, <1>6

\* The head is what has arrived, up to the window; the window is what the head asks for; and
\* it is past the small one only where that was not enough.
HeadInv ==
  /\ picture # NoPicture => picture \in Pictures
  /\ head \in Nat /\ pending \in Nat /\ arrived \in Nat
  /\ picture = NoPicture => head = 0 /\ pending = 0 /\ arrived = 0 /\ verdict = "none"
  /\ verdict = "none" => /\ picture # NoPicture => arrived <= picture.length
                         /\ head <= arrived
                         /\ head < window => head + pending = arrived
  /\ head <= Wide
  /\ window = IF head < Small THEN Small ELSE HeadWindowOf(picture, head)
  /\ head > Small => HeadWindowOf(picture, Small) = Wide
  /\ verdict \in Verdicts => /\ picture # NoPicture
                             /\ verdict = Sniffed(picture, head) /\ head <= picture.length
                             /\ head = picture.length \/ head >= window

\* There are two windows.
LEMMA WindowRange == \A f, n : HeadWindowOf(f, n) \in {Small, Wide}
BY DEF HeadWindowOf

\* Every step of store keeps it.
LEMMA HeadStep == HeadInv /\ [HeadNext]_headVars => HeadInv'
<1> SUFFICES ASSUME HeadInv, [HeadNext]_headVars PROVE HeadInv'
  OBVIOUS
<1>0. Small \in Nat \ {0} /\ Wide \in Nat /\ Small < Wide /\ window \in {Small, Wide}
  BY HeadAssumption, WindowRange DEF HeadInv
<1>1. CASE UNCHANGED headVars
  BY <1>1 DEF headVars, HeadInv
<1>2. CASE OpenStream
  <2>1. /\ picture = NoPicture /\ picture' \in Pictures /\ arrived' = 0 /\ pending' = 0 /\ head' = 0
        /\ window' = Small /\ verdict' = "none"
    BY <1>0, <1>2 DEF OpenStream, HeadInv
  <2>2. picture'.length \in Nat
    BY <2>1, PictureFacts
  <2> QED BY <1>0, <2>1, <2>2 DEF HeadInv, Verdicts
<1>3. CASE ReadChunk
  <2>1. /\ picture \in Pictures /\ picture' = picture /\ picture # NoPicture /\ verdict = "none"
        /\ pending = 0 /\ arrived < picture.length /\ picture.length \in Nat
        /\ head' = head /\ window' = window
    BY <1>3, PictureFacts DEF ReadChunk, Reading, HeadInv
  <2>2. PICK n \in Chunks :
          LET read == Min({n, picture.length - arrived})
          IN  /\ arrived' = arrived + read
              /\ pending' = IF arrived' > MaxBytes THEN 0 ELSE read
              /\ verdict' = IF arrived' > MaxBytes THEN "too_large" ELSE verdict
    BY <1>3 DEF ReadChunk
  <2> DEFINE read == Min({n, picture.length - arrived})
  <2>3. read \in Nat /\ arrived + read <= picture.length
    <3>1. n \in Nat /\ picture.length - arrived \in Nat
      BY <2>1, HeadAssumption DEF HeadInv
    <3>2. read = IF n <= picture.length - arrived THEN n ELSE picture.length - arrived
      BY <3>1, LesserOf
    <3> HIDE DEF read
    <3> QED BY <2>1, <3>1, <3>2 DEF HeadInv
  <2> HIDE DEF read
  <2>4. /\ arrived' = arrived + read
        /\ \/ verdict' = "none" /\ pending' = read
           \/ verdict' = "too_large" /\ pending' = 0
    BY <2>1, <2>2 DEF read
  <2>5. head <= arrived + read /\ (head < window => head + read = arrived + read) /\ arrived + read \in Nat
    BY <2>1, <2>3 DEF HeadInv
  <2> QED BY <2>1, <2>3, <2>4, <2>5 DEF HeadInv, Verdicts
<1>4. CASE TakeHead
  <2> DEFINE take == Min({window - head, pending})
  <2>1. /\ picture \in Pictures /\ picture' = picture /\ picture # NoPicture /\ verdict = "none"
        /\ verdict' = "none" /\ arrived' = arrived /\ pending > 0 /\ head < window
        /\ head' = head + take /\ pending' = pending - take
        /\ window' = HeadWindowOf(picture, head + take)
    BY <1>4 DEF TakeHead, Reading, HeadInv
  <2>2. /\ take \in Nat /\ take > 0 /\ take <= pending /\ take <= window - head
    <3>1. window - head \in Nat /\ window - head > 0 /\ pending \in Nat
      BY <1>0, <2>1 DEF HeadInv
    <3>2. take = IF window - head <= pending THEN window - head ELSE pending
      BY <3>1, LesserOf
    <3> HIDE DEF take
    <3> QED BY <2>1, <3>1, <3>2
  <2> HIDE DEF take
  <2>3. /\ head \in Nat /\ pending \in Nat /\ arrived \in Nat /\ window \in Nat /\ window <= Wide
        /\ head + pending = arrived /\ arrived <= picture.length
    BY <1>0, <2>1 DEF HeadInv
  <2>4. /\ head + take \in Nat /\ pending - take \in Nat /\ head + take <= arrived
        /\ (head + take) + (pending - take) = arrived /\ head + take <= Wide
    BY <1>0, <2>2, <2>3
  <2>5. head + take < Small => HeadWindowOf(picture, head + take) = Small
    BY DEF HeadWindowOf
  <2>6. head + take > Small => HeadWindowOf(picture, Small) = Wide
    <3>1. CASE head < Small
      <4>1. window = Small
        BY <3>1 DEF HeadInv
      <4> QED BY <1>0, <2>2, <2>3, <4>1
    <3>2. CASE head = Small
      <4>1. window = HeadWindowOf(picture, Small) /\ window # Small
        BY <1>0, <2>1, <3>2 DEF HeadInv
      <4> QED BY <1>0, <4>1
    <3>3. CASE head > Small
      BY <3>3 DEF HeadInv
    <3> QED BY <1>0, <2>3, <3>1, <3>2, <3>3
  <2>7. "none" \notin Verdicts
    BY DEF Verdicts
  <2> QED BY <2>1, <2>3, <2>4, <2>5, <2>6, <2>7 DEF HeadInv
<1>5. CASE HeadIsFull
  <2>1. ~ (head < window)
    BY <1>0, <1>5 DEF HeadIsFull, HeadInv
  <2> QED BY <1>5, <2>1 DEF HeadIsFull, Reading, HeadInv
<1>6. CASE StreamFails
  BY <1>6 DEF StreamFails, Reading, HeadInv, Verdicts
<1>7. CASE EndOfStream
  <2>1. /\ picture \in Pictures /\ picture # NoPicture /\ pending = 0 /\ arrived = picture.length
        /\ verdict = "none" /\ verdict' = Sniffed(picture, head)
        /\ UNCHANGED <<picture, arrived, pending, head, window>>
    BY <1>7 DEF EndOfStream, Reading, HeadInv
  <2>2. head <= picture.length /\ (head = picture.length \/ head >= window)
    BY <1>0, <2>1 DEF HeadInv
  <2>3. verdict' \in Verdicts /\ verdict' # "none"
    BY <2>1, Sniffs DEF Verdicts
  <2> QED BY <2>1, <2>2, <2>3 DEF HeadInv
<1> QED
  BY <1>1, <1>2, <1>3, <1>4, <1>5, <1>6, <1>7 DEF HeadNext

\* Where a frame of a JPEG is read before what follows it is seen, a download gets the verdict
\* of the same bytes in a file, for any pieces, windows, cap and pictures (store; local.rs:
\* header_of).
THEOREM OneVerdict == FramesAreReadFirst => (HeadSpec => []HeaderOfPieces)
<1> SUFFICES ASSUME FramesAreReadFirst PROVE HeadSpec => []HeaderOfPieces
  OBVIOUS
<1>1. HeadInit => HeadInv
  BY HeadAssumption DEF HeadInit, HeadInv, Verdicts
<1>2. ASSUME HeadInv, verdict \in Verdicts PROVE verdict = HeaderOf(picture)
  <2> DEFINE l == picture.length
  <2>1. /\ picture \in Pictures /\ l \in Nat /\ head \in Nat /\ head <= l /\ head <= Wide
        /\ Small \in Nat /\ Wide \in Nat /\ Small < Wide
    BY <1>2, PictureFacts, HeadAssumption DEF HeadInv
  <2> HIDE DEF l
  <2>2. verdict = Sniffed(picture, head) /\ (head = l \/ head >= window)
    BY <1>2 DEF HeadInv, l
  <2>3. HeaderOf(picture) = LET n == IF l <= Small THEN l ELSE Small
                                w == HeadWindowOf(picture, n)
                            IN  IF Sniffed(picture, n) = "measured" \/ w <= Small THEN Sniffed(picture, n)
                                ELSE Sniffed(picture, IF l <= w THEN l ELSE w)
    <3>1. Min({l, Small}) = (IF l <= Small THEN l ELSE Small)
      BY <2>1, LesserOf
    <3>2. \A w \in {Small, Wide} : Min({l, w}) = (IF l <= w THEN l ELSE w)
      BY <2>1, LesserOf
    <3> QED BY <3>1, <3>2, WindowRange DEF HeaderOf, l
  <2>4. CASE head < Small
    <3>1. head = l
      BY <1>2, <2>1, <2>2, <2>4 DEF HeadInv
    <3>2. HeadWindowOf(picture, head) = Small
      BY <2>4 DEF HeadWindowOf
    <3> QED BY <2>1, <2>2, <2>3, <2>4, <3>1, <3>2
  <2>5. CASE head = Small
    <3>1. window = HeadWindowOf(picture, head)
      BY <1>2, <2>1, <2>5 DEF HeadInv
    <3>2. window \in {Small, Wide}
      BY <3>1, WindowRange
    <3>3. (IF l <= Small THEN l ELSE Small) = head
      BY <2>1, <2>5
    <3>4. CASE window = Small
      BY <2>1, <2>2, <2>3, <3>1, <3>3, <3>4
    <3>5. CASE window = Wide
      <4>1. head = l /\ l <= Wide
        BY <2>1, <2>2, <2>5, <3>5
      <4> QED BY <2>1, <2>2, <2>3, <3>1, <3>3, <3>5, <4>1
    <3> QED BY <3>2, <3>4, <3>5
  <2>6. CASE head > Small
    <3>1. window = HeadWindowOf(picture, head) /\ HeadWindowOf(picture, Small) = Wide
      BY <1>2, <2>1, <2>6 DEF HeadInv
    <3>2. Sniffed(picture, Small) # "measured"
      BY <2>1, <3>1 DEF HeadWindowOf
    <3> DEFINE m == IF l <= Wide THEN l ELSE Wide
    <3>3. (IF l <= Small THEN l ELSE Small) = Small /\ ~ (Wide <= Small)
      BY <2>1, <2>6
    <3>4. HeaderOf(picture) = Sniffed(picture, m)
      BY <2>3, <3>1, <3>2, <3>3
    <3>5. m \in Nat /\ head <= m
      BY <2>1
    <3>6. CASE head = m
      BY <2>2, <3>4, <3>6
    <3>7. CASE head # m
      <4>1. head # l /\ head # Wide
        BY <2>1, <3>7
      <4>2. window = Small
        BY <2>1, <2>2, <3>1, <4>1, WindowRange
      <4>3. Small <= head
        BY <2>1, <2>6
      <4> HIDE DEF m
      <4>4. HeadWindowOf(picture, head) = Small
        BY <3>1, <4>2
      <4>5. Sniffed(picture, m) = Sniffed(picture, head)
        BY <2>1, <3>1, <3>5, <4>3, <4>4, DecidedStays
      <4> QED BY <2>2, <3>4, <4>5
    <3> QED BY <3>6, <3>7
  <2> QED BY <2>1, <2>4, <2>5, <2>6
<1>3. HeadInv => HeaderOfPieces
  BY <1>2 DEF HeaderOfPieces
<1> QED
  BY HeadStep, <1>1, <1>3, PTL DEF HeadSpec

-----------------------------------------------------------------------------
(* The supervision of a worker. *)

OutLines == [what : {"other", "set", "prefetch"}, image : Wallpapers \cup {NoWallpaper}]
ErrLines == [code : FailureCodes \cup {NoCode}]

\* What the lines say of the process: each `set:` line names the image on the screen, the
\* `prefetch:` lines only what is stored ahead, and no line a code but the one it fault.
TapeIsTrue ==
  /\ stdout \in Seq(OutLines) /\ stderr \in Seq(ErrLines)
  /\ onScreen \in Wallpapers \cup {NoWallpaper} /\ fault \in FailureCodes \cup {NoCode}
  /\ \A i \in 1 .. Len(stdout) : stdout[i].what = "set" => stdout[i].image = onScreen /\ onScreen # NoWallpaper
  /\ ToldAhead \subseteq ahead
  /\ \A i \in 1 .. Len(stderr) : stderr[i].code \in {NoCode, fault}
  /\ fault # NoCode => \E i \in 1 .. Len(stderr) : stderr[i].code = fault

\* Where the process and its parent are with each other.
InStep ==
  /\ errand \in {"set", "check"}
  /\ life \in {"none", "works", "exited", "gone"} /\ ending \in {"none", "ok", "failed", "killed"}
  /\ expired \in BOOLEAN /\ reaped \in BOOLEAN
  /\ watch \in {"spawn", "poll", "alive", "term", "grace", "wait", "read", "done"}
  /\ life \in {"exited", "gone"} <=> ending # "none"
  /\ ending = "ok" /\ errand = "set" => SetIsOut /\ ahead = ToldAhead
  /\ watch = "spawn" => life = "none"
  /\ watch \in {"term", "grace", "wait"} => expired
  /\ watch = "read" => life = "gone"
  /\ life = "gone" => watch \in {"read", "done"}
  /\ reaped <=> life = "gone"

\* How a run is over: by the deadline, by a parent that could not start it or wait, or by
\* the output of a process that has ended.
Over ==
  IF watch = "done"
  THEN \/ handed = Timeout /\ expired
       \/ handed = Failed("worker_failed") /\ ~reaped
       \/ life = "gone" /\ handed = ResultOf(stdout, stderr, ending, errand)
  ELSE handed = [kind |-> "none"]

SupInv == TapeIsTrue /\ InStep /\ Over

\* What is in a pipe after a write.
LEMMA PipeAfterWrite ==
  ASSUME NEW S, NEW pipe \in Seq(S), NEW line \in S, NEW after, after = Append(pipe, line)
  PROVE  /\ after \in Seq(S) /\ Len(after) = Len(pipe) + 1
         /\ Len(pipe) \in Nat /\ DOMAIN pipe = 1 .. Len(pipe) /\ DOMAIN after = 1 .. Len(after)
         /\ \A i \in 1 .. Len(pipe) : after[i] = pipe[i]
         /\ after[Len(pipe) + 1] = line
  BY AppendProperties

\* Every line keeps what it said, as the worker goes on.
LEMMA TapeStep == SupInv /\ [SupNext]_superVars => TapeIsTrue'
<1> SUFFICES ASSUME SupInv, [SupNext]_superVars PROVE TapeIsTrue'
  OBVIOUS
<1> USE DEF SupInv
<1>1. CASE tape' = tape
  BY <1>1 DEF TapeIsTrue, ToldAhead, tape
<1>2. ASSUME NEW line \in ErrLines, stderr' = Append(stderr, line), UNCHANGED <<stdout, onScreen, ahead>>,
             fault' \in FailureCodes \cup {NoCode}, line.code \in {NoCode, fault'},
             fault = NoCode \/ fault' = fault, fault' # fault => line.code = fault'
      PROVE  TapeIsTrue'
  <2>1. stderr \in Seq(ErrLines) /\ \A i \in 1 .. Len(stderr) : stderr[i].code \in {NoCode, fault}
    BY DEF TapeIsTrue
  <2>2. fault # NoCode => \E i \in 1 .. Len(stderr) : stderr[i].code = fault
    BY DEF TapeIsTrue
  <2>3. /\ stderr' \in Seq(ErrLines) /\ Len(stderr') = Len(stderr) + 1
        /\ Len(stderr) \in Nat /\ DOMAIN stderr = 1 .. Len(stderr) /\ DOMAIN stderr' = 1 .. Len(stderr')
        /\ \A i \in 1 .. Len(stderr) : stderr'[i] = stderr[i]
        /\ stderr'[Len(stderr) + 1] = line
    <3> HIDE DEF SupInv
    <3> QED
      BY <1>2, <2>1, PipeAfterWrite
  <2>4. \A i \in 1 .. Len(stderr') : i = Len(stderr) + 1 \/ i \in 1 .. Len(stderr)
    BY <2>3
  <2>5. \A i \in 1 .. Len(stderr') : stderr'[i].code \in {NoCode, fault'}
    <3> HIDE DEF SupInv
    <3> QED
      BY <1>2, <2>1, <2>3, <2>4
  <2>6. fault' # NoCode => \E i \in 1 .. Len(stderr') : stderr'[i].code = fault'
    <3>1. Len(stderr) + 1 \in 1 .. Len(stderr')
      BY <2>3
    <3>2. CASE fault' = fault
      <4>1. 1 .. Len(stderr) \subseteq 1 .. Len(stderr')
        BY <2>3
      <4> HIDE DEF SupInv
      <4> QED
        BY <2>2, <2>3, <3>2, <4>1
    <3>3. CASE fault' # fault
      BY <1>2, <2>3, <3>1, <3>3
    <3> QED
      BY <3>2, <3>3
  <2> QED
    BY <1>2, <2>3, <2>5, <2>6 DEF TapeIsTrue, ToldAhead
<1>3. CASE Warns
  <2>1. [code |-> NoCode] \in ErrLines
    BY DEF ErrLines
  <2> QED
    BY <1>2, <1>3, <2>1 DEF Warns, TapeIsTrue
<1>3a. ASSUME NEW code \in FailureCodes, Names(code) PROVE TapeIsTrue'
  <2>1. [code |-> code] \in ErrLines
    BY DEF ErrLines
  <2> QED
    BY <1>2, <1>3a, <2>1 DEF Names
<1>4. ASSUME NEW line \in OutLines, stdout' = Append(stdout, line), UNCHANGED <<stderr, onScreen, ahead, fault>>,
             line.what = "set" => line.image = onScreen /\ onScreen # NoWallpaper,
             line.what = "prefetch" => line.image \in ahead
      PROVE  TapeIsTrue'
  <2>1. /\ stdout' \in Seq(OutLines) /\ Len(stdout') = Len(stdout) + 1 /\ Len(stdout) \in Nat
        /\ DOMAIN stdout = 1 .. Len(stdout) /\ DOMAIN stdout' = 1 .. Len(stdout')
        /\ \A i \in 1 .. Len(stdout) : stdout'[i] = stdout[i]
        /\ stdout'[Len(stdout) + 1] = line
    <3>1. stdout \in Seq(OutLines)
      BY DEF TapeIsTrue
    <3> HIDE DEF SupInv
    <3> QED
      BY <1>4, <3>1, PipeAfterWrite
  <2>2. \A i \in 1 .. Len(stdout') : i = Len(stdout) + 1 \/ i \in 1 .. Len(stdout)
    BY <2>1
  <2>3. \A i \in 1 .. Len(stdout') : stdout'[i].what = "set" => stdout'[i].image = onScreen /\ onScreen # NoWallpaper
    BY <1>4, <2>1, <2>2 DEF TapeIsTrue
  <2>4. ToldAhead' \subseteq ahead
    BY <1>4, <2>1, <2>2 DEF TapeIsTrue, ToldAhead
  <2> QED
    BY <1>4, <2>1, <2>3, <2>4 DEF TapeIsTrue
<1>5. CASE Prints
  <2>1. [what |-> "other", image |-> NoWallpaper] \in OutLines
    BY DEF OutLines
  <2> QED
    BY <1>4, <1>5, <2>1 DEF Prints
<1>6. CASE TellsSet
  <2>1. [what |-> "set", image |-> onScreen] \in OutLines
    BY DEF OutLines, TapeIsTrue
  <2> QED
    BY <1>4, <1>6, <2>1 DEF TellsSet
<1>7. ASSUME NEW image \in Wallpapers, TellsAhead(image) PROVE TapeIsTrue'
  <2>1. [what |-> "prefetch", image |-> image] \in OutLines /\ image \in ahead
    BY <1>7 DEF OutLines, TellsAhead
  <2> QED
    BY <1>4, <1>7, <2>1 DEF TellsAhead
<1>7a. ASSUME NEW image \in Wallpapers, Stores(image) PROVE TapeIsTrue'
  BY <1>7a DEF Stores, TapeIsTrue, ToldAhead
<1>8. ASSUME NEW image \in Wallpapers, Shows(image) PROVE TapeIsTrue'
  <2>1. onScreen = NoWallpaper /\ onScreen' = image /\ UNCHANGED <<stdout, stderr, ahead, fault>>
    BY <1>8 DEF Shows
  <2>2. \A i \in 1 .. Len(stdout) : stdout[i].what # "set"
    BY <2>1 DEF TapeIsTrue
  <2> QED
    BY <2>1, <2>2 DEF TapeIsTrue, ToldAhead
<1>9. ASSUME DaemonSide \/ Succeeds \/ EndsBadly \/ Dies \/ UNCHANGED superVars PROVE tape' = tape
  BY <1>9 DEF DaemonSide, Watching, SpawnBusy, SpawnFails, Spawns, DeadlinePasses, PollCollects, PollFails,
     PollAlive, LooksAtDeadline, SendsSignal, SendTerm, GraceCollects, SendKill, WaitCollects, WaitFails,
     ReadOutput, Succeeds, EndsBadly, Dies, ExitsWith, superVars, tape
<1> QED
  BY <1>1, <1>3, <1>3a, <1>5, <1>6, <1>7, <1>7a, <1>8, <1>9 DEF SupNext, WorkerNext

\* The two keep in step.
LEMMA InStepStep == SupInv /\ [SupNext]_superVars => InStep'
<1> SUFFICES ASSUME SupInv, [SupNext]_superVars PROVE InStep'
  OBVIOUS
<1> USE DEF SupInv
<1>1. UNCHANGED <<ending, errand, stdout, ahead>> =>
        (ending' = "ok" /\ errand' = "set" => SetIsOut' /\ ahead' = ToldAhead')
  BY DEF InStep, SetIsOut, ToldAhead
<1>2. ASSUME Working, UNCHANGED <<life, ending>> PROVE InStep'
  <2>1. ending = "none"
    BY <1>2 DEF Working, InStep
  <2> QED
    BY <1>2, <2>1 DEF Working, InStep
<1>3. ASSUME Succeeds \/ EndsBadly \/ Dies PROVE InStep'
  <2>1. /\ Working /\ life' = "exited" /\ ending' \in {"ok", "failed", "killed"} /\ UNCHANGED <<stdout, ahead>>
        /\ ending' = "ok" /\ errand = "set" => SetIsOut /\ ahead = ToldAhead
    BY <1>3 DEF Succeeds, EndsBadly, Dies, ExitsWith, tape
  <2>2. ending' = "ok" /\ errand' = "set" => SetIsOut' /\ ahead' = ToldAhead'
    BY <2>1 DEF Working, SetIsOut, ToldAhead
  <2> QED
    BY <2>1, <2>2 DEF Working, InStep
<1>4. CASE WorkerNext
  BY <1>2, <1>3, <1>4 DEF WorkerNext, Warns, Prints, TellsSet, Shows, Stores, TellsAhead, Names
<1>5. CASE DaemonSide
  <2>1. UNCHANGED <<errand, ending, stdout, ahead>>
    BY <1>5 DEF DaemonSide, Watching, tape, SpawnBusy, SpawnFails, Spawns, DeadlinePasses,
       PollCollects, PollFails, PollAlive, LooksAtDeadline, SendsSignal, SendTerm, GraceCollects, SendKill,
       WaitCollects, WaitFails, ReadOutput
  <2> USE <1>1, <2>1 DEF InStep
  <2>2. CASE SpawnBusy \/ SpawnFails \/ Spawns
    BY <2>2 DEF SpawnBusy, SpawnFails, Spawns, Returns
  <2>3a. CASE DeadlinePasses
    BY <2>3a DEF DeadlinePasses
  <2>3b. CASE PollFails
    BY <2>3b DEF PollFails, Returns
  <2>3c. CASE PollAlive
    BY <2>3c DEF PollAlive
  <2>3d. CASE LooksAtDeadline
    <3>1. watch' \in {"term", "poll"} /\ (watch' = "term" => expired)
      BY <2>3d DEF LooksAtDeadline
    <3> QED
      BY <2>3d, <3>1 DEF LooksAtDeadline
  <2>4. CASE PollCollects \/ GraceCollects \/ WaitCollects
    BY <2>4 DEF PollCollects, GraceCollects, WaitCollects, Collects
  <2>5. CASE SendTerm \/ SendKill \/ WaitFails \/ ReadOutput
    BY <2>5 DEF SendTerm, SendKill, SendsSignal, WaitFails, ReadOutput, Returns
  <2> QED
    BY <1>5, <2>2, <2>3a, <2>3b, <2>3c, <2>3d, <2>4, <2>5 DEF DaemonSide
<1>6. CASE UNCHANGED superVars
  BY <1>1, <1>6 DEF InStep, superVars, tape
<1> QED
  BY <1>4, <1>5, <1>6 DEF SupNext

\* A run is over once, and stays what it was.
LEMMA OverStep == SupInv /\ [SupNext]_superVars => Over'
<1> SUFFICES ASSUME SupInv, [SupNext]_superVars PROVE Over'
  OBVIOUS
<1> USE DEF SupInv
<1>1. \A out, err, how, what : ResultOf(out, err, how, what)' = ResultOf(out, err, how, what)
  BY DEF ResultOf, LastCode, Failed
<1>2. CASE WorkerNext
  <2>1. Working
    BY <1>2 DEF WorkerNext, Warns, Prints, TellsSet, Succeeds, EndsBadly, Dies, ExitsWith, Shows, Stores, TellsAhead, Names
  <2> QED
    BY <2>1 DEF Working, Over, Timeout, Failed
<1>3. CASE DaemonSide
  <2> USE DEF Over, InStep
  <2>1. CASE SpawnBusy \/ SpawnFails \/ Spawns
    BY <2>1 DEF SpawnBusy, SpawnFails, Spawns, Returns, Failed
  <2>2a. CASE DeadlinePasses
    BY <2>2a DEF DeadlinePasses
  <2>2b. CASE PollFails
    BY <2>2b, watch = "poll" DEF PollFails, Returns, Failed
  <2>2c. CASE PollAlive
    BY <2>2c DEF PollAlive
  <2>2d. CASE LooksAtDeadline
    <3>1. watch # "done" /\ watch' # "done" /\ handed' = handed
      BY <2>2d DEF LooksAtDeadline
    <3> QED
      BY <3>1
  <2>3. CASE PollCollects \/ GraceCollects \/ WaitCollects
    BY <2>3 DEF PollCollects, GraceCollects, WaitCollects, Collects, Timeout
  <2>4. CASE SendTerm \/ SendKill \/ WaitFails
    BY <2>4 DEF SendTerm, SendKill, SendsSignal, WaitFails, Returns, Timeout
  <2>5. CASE ReadOutput
    <3>1. /\ watch' = "done" /\ life' = "gone" /\ handed' = ResultOf(stdout, stderr, ending, errand)
          /\ UNCHANGED <<stdout, stderr, ending, errand>>
      BY <2>5 DEF ReadOutput, Returns, Watching, tape
    <3> QED
      BY <3>1
  <2> QED
    BY <1>3, <2>1, <2>2a, <2>2b, <2>2c, <2>2d, <2>3, <2>4, <2>5 DEF DaemonSide
<1>4. CASE UNCHANGED superVars
  BY <1>4 DEF Over, superVars, tape
<1> QED
  BY <1>2, <1>3, <1>4 DEF SupNext

\* Nothing has been said at the start.
LEMMA SupStart == SupInit => SupInv
<1> SUFFICES ASSUME SupInit PROVE SupInv
  OBVIOUS
<1>1. TapeIsTrue
  <2>1. /\ stdout = <<>> /\ stderr = <<>> /\ Len(stdout) = 0 /\ Len(stderr) = 0
        /\ onScreen = NoWallpaper /\ ahead = {} /\ fault = NoCode
    BY DEF SupInit
  <2>2. stdout \in Seq(OutLines) /\ stderr \in Seq(ErrLines)
    BY <2>1
  <2>3. ToldAhead = {}
    BY <2>1 DEF ToldAhead
  <2> QED
    BY <2>1, <2>2, <2>3 DEF TapeIsTrue
<1>2. InStep
  BY DEF SupInit, InStep
<1>3. Over
  BY DEF SupInit, Over
<1> QED
  BY <1>1, <1>2, <1>3 DEF SupInv

\* The last line that names a code names the worker's, and there is one if it named any.
LEMMA LastCodeIsTheFault ==
  ASSUME TapeIsTrue
  PROVE  LastCode(stderr) = IF fault = NoCode THEN "worker_failed" ELSE fault
<1> DEFINE naming == {i \in DOMAIN stderr : stderr[i].code # NoCode}
<1>1. DOMAIN stderr = 1 .. Len(stderr) /\ Len(stderr) \in Nat
  BY DEF TapeIsTrue
<1>2. CASE fault = NoCode
  <2>1. naming = {}
    BY <1>1, <1>2 DEF TapeIsTrue
  <2> QED
    BY <1>2, <2>1 DEF LastCode
<1>3. CASE fault # NoCode
  <2>1. naming # {} /\ naming \in SUBSET (1 .. Len(stderr))
    BY <1>1, <1>3 DEF TapeIsTrue
  <2>2. Max(naming) \in naming
    BY <1>1, <2>1, LastOf
  <2>3. stderr[Max(naming)].code = fault
    BY <1>1, <2>1, <2>2 DEF TapeIsTrue
  <2> QED
    BY <1>3, <2>1, <2>3 DEF LastCode
<1> QED
  BY <1>2, <1>3

\* What the output says of a process that has ended.
LEMMA OutputIsTheWorkers ==
  ASSUME TapeIsTrue, InStep, life = "gone"
  PROVE  LET r == ResultOf(stdout, stderr, ending, errand)
         IN  /\ ending = "ok" /\ errand = "set" =>
                  r = [kind |-> "set", image |-> onScreen, ahead |-> ahead] /\ onScreen # NoWallpaper
             /\ ending = "ok" /\ errand = "check" => r = [kind |-> "lines", lines |-> stdout]
             /\ ending # "ok" => r = Failed(IF fault = NoCode THEN "worker_failed" ELSE fault)
<1>1. CASE ending # "ok"
  <2>1. ResultOf(stdout, stderr, ending, errand) = Failed(LastCode(stderr))
    BY <1>1, Zenon DEF ResultOf
  <2> QED
    BY <1>1, <2>1, LastCodeIsTheFault
<1>2. CASE ending = "ok" /\ errand = "check"
  <2>1. "check" # "set"
    OBVIOUS
  <2>2. ResultOf(stdout, stderr, ending, errand) = [kind |-> "lines", lines |-> stdout]
    BY <1>2, <2>1, Zenon DEF ResultOf
  <2> QED
    BY <1>2, <2>1, <2>2
<1>3. CASE ending = "ok" /\ errand = "set"
  <2> DEFINE sets == {i \in DOMAIN stdout : stdout[i].what = "set"}
             images == {stdout[i].image : i \in {j \in DOMAIN stdout : stdout[j].what = "prefetch"}}
  <2>1. DOMAIN stdout = 1 .. Len(stdout) /\ Len(stdout) \in Nat
    BY DEF TapeIsTrue
  <2>2. sets # {} /\ sets \in SUBSET (1 .. Len(stdout))
    BY <1>3, <2>1 DEF InStep, SetIsOut
  <2>3. Max(sets) \in sets
    BY <2>1, <2>2, LastOf
  <2>4. stdout[Max(sets)].image = onScreen /\ onScreen # NoWallpaper
    BY <2>1, <2>3 DEF TapeIsTrue
  <2>5. images = ahead
    BY <1>3 DEF InStep, ToldAhead
  <2>6. "set" # "check"
    OBVIOUS
  <2>7. ResultOf(stdout, stderr, ending, errand)
          = [kind |-> "set", image |-> stdout[Max(sets)].image, ahead |-> images]
    BY <1>3, <2>2, <2>6, Zenon DEF ResultOf
  <2> QED
    BY <1>3, <2>4, <2>5, <2>6, <2>7
<1> QED
  BY <1>1, <1>2, <1>3 DEF InStep

\* The three together are what the daemon may count on.
LEMMA SupInvTells == SupInv => ResultIsTheWorkers
<1> SUFFICES ASSUME SupInv PROVE ResultIsTheWorkers
  OBVIOUS
<1>1. reaped <=> life = "gone"
  BY DEF SupInv, InStep
<1>2. CASE watch # "done"
  BY <1>1, <1>2 DEF SupInv, Over, ResultIsTheWorkers
<1>3. CASE watch = "done" /\ handed = Timeout /\ expired
  BY <1>1, <1>3 DEF ResultIsTheWorkers, Timeout
<1>4. CASE watch = "done" /\ handed = Failed("worker_failed") /\ ~reaped
  BY <1>1, <1>4 DEF ResultIsTheWorkers, Failed
<1>5. CASE watch = "done" /\ life = "gone" /\ handed = ResultOf(stdout, stderr, ending, errand)
  <2>1. CASE ending = "ok" /\ errand = "set"
    <3>1. handed = [kind |-> "set", image |-> onScreen, ahead |-> ahead] /\ onScreen # NoWallpaper
      BY <1>5, <2>1, OutputIsTheWorkers DEF SupInv
    <3> QED
      BY <1>1, <2>1, <3>1 DEF ResultIsTheWorkers
  <2>2. CASE ending = "ok" /\ errand = "check"
    <3>1. handed = [kind |-> "lines", lines |-> stdout]
      BY <1>5, <2>2, OutputIsTheWorkers DEF SupInv
    <3> QED
      BY <1>1, <2>2, <3>1 DEF ResultIsTheWorkers
  <2>3. CASE ending # "ok"
    <3>1. handed = Failed(IF fault = NoCode THEN "worker_failed" ELSE fault)
      BY <1>5, <2>3, OutputIsTheWorkers DEF SupInv
    <3> QED
      BY <1>1, <2>3, <3>1 DEF ResultIsTheWorkers, Failed
  <2> QED
    BY <2>1, <2>2, <2>3 DEF SupInv, InStep
<1> QED
  BY <1>2, <1>3, <1>4, <1>5 DEF SupInv, Over

\* What the daemon is told of a run is what its worker did, however its exit, its death, its
\* lines, the deadline and the signals met, for pipes of any room and workers that say any
\* number of lines (worker.rs, run_reporting_reaped and terminate).
THEOREM RunTellsTheTruth == SupSpec => []ResultIsTheWorkers
<1>1. SupInit => SupInv
  BY SupStart
<1>2. SupInv /\ [SupNext]_superVars => SupInv'
  BY TapeStep, InStepStep, OverStep DEF SupInv
<1>3. SupInv => ResultIsTheWorkers
  BY SupInvTells
<1> QED
  BY <1>1, <1>2, <1>3, PTL DEF SupSpec
=============================================================================
