-------------------------- MODULE StateFiles_proofs --------------------------
(***************************************************************************)
(* What the order of the writes buys, for every bound of the history and   *)
(* number of sets, starts and hands: the anchor on the disk is never older *)
(* than the ring on the disk, the ring is the history but for a set per    *)
(* death or failed write, and what this build could not read is kept.      *)
(***************************************************************************)
EXTENDS StateFiles, Integers, TLAPS

\* The plans of todo, by name.
AllFiles == <<"current", "history", "favorites">>
RingAndPins == <<"history", "favorites">>
PinsOnly == <<"favorites">>
AnchorAndRing == <<"current", "history">>
RingOnly == <<"history">>
AnchorOnly == <<"current">>

LoadPlans == {AllFiles, RingAndPins, PinsOnly, <<>>}
WritePlans == {AnchorAndRing, RingOnly, AnchorOnly, PinsOnly}

\* The phases in which the memory stands for the files, and, while they are read, the
\* files that have been.
Up == phase \in {"idle", "write", "commit"}
Writing == phase \in {"write", "commit"}
Settled(k) ==
  \/ Up
  \/ /\ phase = "load"
     /\ \/ todo = <<>>
        \/ todo = PinsOnly /\ k # "favorites"
        \/ todo = RingAndPins /\ k = "current"

-----------------------------------------------------------------------------
\* The inductive invariant, in parts. Shape: the types, and what is still to be done.
Shape ==
  /\ DOMAIN disk = Kinds /\ DOMAIN aside = Kinds /\ DOMAIN byHand = Kinds
  /\ faults \in Nat /\ hands \in Nat
  /\ \A k \in Kinds : disk[k].is \in {"absent", "read", "corrupt", "newer"}
  /\ phase \in {"down", "load", "idle", "write", "commit"}
  /\ phase \in {"down", "idle"} => todo = <<>>
  /\ phase = "load" => todo \in LoadPlans
  /\ Writing => todo \in WritePlans

\* Entries: the entries are sets that were made.
Entries ==
  /\ made \in Seq(Sets) /\ ring \in Seq(Sets) /\ anchor \in Anchors \cup {NoAnchor}
  /\ disk["history"].is = "read" => disk["history"].body \in Seq(Sets)
  /\ disk["current"].is = "read" => disk["current"].body.anchor \in Anchors \cup {NoAnchor}
  /\ ring # <<>> => Head(ring).at <= Len(made)
  /\ disk["history"].is = "read" /\ disk["history"].body # <<>> =>
       Head(disk["history"].body).at <= Len(made)

\* Unread: a file the build could not read is where the memory says it is.
Unread ==
  /\ phase = "down" => readOnly = {} /\ ~degraded
  /\ \A k \in Kinds : k \in readOnly => disk[k].is = "newer"
  /\ \A k \in Kinds : disk[k].is = "newer" /\ Settled(k) => k \in readOnly
  /\ \A k \in Kinds : disk[k].is = "corrupt" /\ Settled(k) =>
       k \in stuck /\ (k = "favorites" => degraded)
  /\ \A k \in Kinds : disk[k].is \in {"corrupt", "newer"} => disk[k].hand = byHand[k]
  /\ Writing /\ todo = PinsOnly => ~degraded
  /\ phase = "commit" => Head(todo) \notin readOnly

\* Ordered: without a failed write, the anchor of the memory is not older than the ring
\* of the memory or of the disk, and the ring is written only after its anchor.
RingNewest == IF ring = <<>> THEN 0 ELSE Head(ring).at
DiskNewest == IF disk["history"].is = "read" /\ disk["history"].body # <<>>
              THEN Head(disk["history"].body).at ELSE 0
DiskAnchor == disk["current"].body.anchor.at

Ordered ==
  faults = 0 =>
    /\ disk["current"].is = "read" => DiskNewest <= DiskAnchor
    /\ Up => RingNewest <= anchor.at /\ DiskNewest <= anchor.at
    /\ Writing /\ todo = RingOnly /\ disk["current"].is = "read" => RingNewest <= DiskAnchor

\* Recalled: while the files are read, the memory is what was in those already read.
Recalled ==
  /\ phase = "down" => anchor = NoAnchor /\ ring = <<>>
  /\ phase = "load" /\ faults = 0 =>
       /\ ~Settled("current") \/ disk["current"].is # "read" => anchor = NoAnchor
       /\ Settled("current") /\ disk["current"].is = "read" => anchor = disk["current"].body.anchor
       /\ ~Settled("history") \/ disk["history"].is # "read" => ring = <<>>
       /\ Settled("history") /\ disk["history"].is = "read" => ring = disk["history"].body

FilesInv == Shape /\ Entries /\ Unread /\ Ordered /\ Recalled /\ UnreadFilesKept

-----------------------------------------------------------------------------
\* What is left of each plan when its first file is done.
LEMMA Plans ==
  /\ Head(AllFiles) = "current" /\ Tail(AllFiles) = RingAndPins
  /\ Head(RingAndPins) = "history" /\ Tail(RingAndPins) = PinsOnly
  /\ Head(PinsOnly) = "favorites" /\ Tail(PinsOnly) = <<>>
  /\ Head(AnchorAndRing) = "current" /\ Tail(AnchorAndRing) = RingOnly
  /\ Head(RingOnly) = "history" /\ Tail(RingOnly) = <<>>
  /\ Head(AnchorOnly) = "current" /\ Tail(AnchorOnly) = <<>>
BY DEF AllFiles, RingAndPins, PinsOnly, AnchorAndRing, RingOnly, AnchorOnly

\* No plan is another.
LEMMA PlansDiffer ==
  /\ AllFiles # RingAndPins /\ AllFiles # PinsOnly /\ AllFiles # <<>>
  /\ RingAndPins # PinsOnly /\ RingAndPins # <<>> /\ PinsOnly # <<>>
  /\ AnchorAndRing # RingOnly /\ AnchorAndRing # AnchorOnly /\ AnchorAndRing # PinsOnly
  /\ AnchorAndRing # <<>> /\ RingOnly # <<>> /\ AnchorOnly # <<>>
  /\ RingOnly # PinsOnly /\ AnchorOnly # PinsOnly /\ RingOnly # AnchorOnly
<1>1. /\ Len(AllFiles) = 3 /\ Len(RingAndPins) = 2 /\ Len(AnchorAndRing) = 2
      /\ Len(PinsOnly) = 1 /\ Len(RingOnly) = 1 /\ Len(AnchorOnly) = 1 /\ Len(<<>>) = 0
  BY DEF AllFiles, RingAndPins, PinsOnly, AnchorAndRing, RingOnly, AnchorOnly
<1>2. PinsOnly[1] = "favorites" /\ RingOnly[1] = "history" /\ AnchorOnly[1] = "current"
  BY DEF PinsOnly, RingOnly, AnchorOnly
<1> QED
  BY <1>1, <1>2

\* Every step keeps the shape.
LEMMA ShapeStep == Shape /\ [FilesNext]_fileVars => Shape'
<1> SUFFICES ASSUME Shape, [FilesNext]_fileVars PROVE Shape'
  OBVIOUS
<1>1. ASSUME NEW d \in Digests, NEW o \in Origins, RecordSet(d, o) PROVE Shape'
  BY <1>1, Plans, FilesAssumption
    DEF RecordSet, files, memory, counts, Shape, Writing, LoadPlans, WritePlans, Kinds,
      AnchorAndRing, AnchorOnly, PinsOnly, AllFiles
<1>2. CASE RewriteCurrent
  BY <1>2, Plans, FilesAssumption
    DEF RewriteCurrent, files, memory, counts, Shape, Writing, LoadPlans, WritePlans, Kinds,
      AnchorAndRing, AnchorOnly, PinsOnly, AllFiles
<1>3. CASE AddFavorite
  BY <1>3, Plans, FilesAssumption
    DEF AddFavorite, files, memory, counts, Shape, Writing, LoadPlans, WritePlans, Kinds,
      AnchorAndRing, AnchorOnly, PinsOnly, AllFiles
<1>4. CASE RemoveFavorite
  BY <1>4, Plans, FilesAssumption
    DEF RemoveFavorite, files, memory, counts, Shape, Writing, LoadPlans, WritePlans, Kinds,
      AnchorAndRing, AnchorOnly, PinsOnly, AllFiles
<1>5. ASSUME NEW p \in BOOLEAN, SetPaused(p) PROVE Shape'
  BY <1>5, Plans, FilesAssumption
    DEF SetPaused, files, memory, counts, Shape, Writing, LoadPlans, WritePlans, Kinds,
      AnchorAndRing, AnchorOnly, PinsOnly, AllFiles
<1>6. CASE SkipReadOnly
  BY <1>6, Plans, FilesAssumption
    DEF SkipReadOnly, WriteEnds, files, memory, counts, Shape, Writing, LoadPlans,
      WritePlans, Kinds
<1>7. CASE Stage
  BY <1>7, Plans, FilesAssumption
    DEF Stage, files, memory, counts, Shape, Writing, LoadPlans, WritePlans, Kinds
<1>8. CASE StageFails
  <2>1. faults' \in Nat /\ hands' = hands /\ UNCHANGED <<disk, aside, byHand>>
    BY <1>8 DEF StageFails, WriteEnds, memory, counts, Shape
  <2>2. phase' \in {"idle", "write"} /\ (phase' = "idle" => todo' = <<>>) /\ (Writing' => todo' \in WritePlans)
    BY <1>8, Plans DEF StageFails, WriteEnds, memory, counts, Shape, Writing, WritePlans
  <2> QED
    BY <2>1, <2>2 DEF Shape, Writing
<1>9. CASE Commit
  BY <1>9, Plans, FilesAssumption
    DEF Commit, WriteEnds, Read, Absent, files, memory, counts, Shape, Writing, LoadPlans,
      WritePlans, Kinds
<1>10. CASE CommitFails
  <2>1. faults' \in Nat /\ hands' = hands /\ UNCHANGED <<disk, aside, byHand>>
    BY <1>10 DEF CommitFails, WriteEnds, memory, counts, Shape
  <2>2. phase' \in {"idle", "write"} /\ (phase' = "idle" => todo' = <<>>) /\ (Writing' => todo' \in WritePlans)
    BY <1>10, Plans DEF CommitFails, WriteEnds, memory, counts, Shape, Writing, WritePlans
  <2> QED
    BY <2>1, <2>2 DEF Shape, Writing
<1>11. CASE Die
  BY <1>11, Plans, FilesAssumption
    DEF Die, files, memory, counts, Shape, Writing, LoadPlans, WritePlans, Kinds
<1>12. CASE FilesStart
  BY <1>12, Plans, FilesAssumption
    DEF FilesStart, files, memory, counts, Shape, Writing, LoadPlans, WritePlans, Kinds,
      AnchorAndRing, AnchorOnly, PinsOnly, AllFiles
<1>13. CASE RebuildCurrent
  BY <1>13, Plans, FilesAssumption
    DEF RebuildCurrent, files, memory, counts, Shape, Writing, LoadPlans, WritePlans, Kinds
<1>14. ASSUME NEW k \in Kinds, NEW what \in {"absent", "corrupt", "newer"}, ByHand(k, what)
       PROVE  Shape'
  BY <1>14, Plans, FilesAssumption
    DEF ByHand, Absent, Alien, files, memory, counts, Shape, Writing, LoadPlans, WritePlans,
      Kinds
<1>15. ASSUME NEW k \in Kinds, LoadAbsent(k) PROVE Shape'
  BY <1>15, Plans, FilesAssumption
    DEF LoadAbsent, Loading, Is, files, memory, counts, Shape, Writing, LoadPlans,
      WritePlans, Kinds
<1>16. ASSUME NEW k \in Kinds, LoadRead(k) PROVE Shape'
  BY <1>16, Plans, FilesAssumption
    DEF LoadRead, Loading, Is, Read, files, memory, counts, Shape, Writing, LoadPlans,
      WritePlans, Kinds
<1>17. ASSUME NEW k \in Kinds, LoadNewer(k) PROVE Shape'
  BY <1>17, Plans, FilesAssumption
    DEF LoadNewer, Loading, Is, files, memory, counts, Shape, Writing, LoadPlans,
      WritePlans, Kinds
<1>18. ASSUME NEW k \in Kinds, LoadCorrupt(k) PROVE Shape'
  <2>1. faults' \in Nat /\ hands' = hands /\ byHand' = byHand /\ phase' = "load" /\ phase = "load"
    BY <1>18 DEF LoadCorrupt, Loading, Shape
  <2>2. todo' \in LoadPlans
    BY <1>18, <2>1, Plans DEF LoadCorrupt, Loading, Shape, LoadPlans
  <2>3. DOMAIN disk' = Kinds /\ DOMAIN aside' = Kinds
    BY <1>18 DEF LoadCorrupt, Shape
  <2>4. \A j \in Kinds : disk'[j].is \in {"absent", "read", "corrupt", "newer"}
    BY <1>18 DEF LoadCorrupt, Shape, Absent
  <2> QED
    BY <2>1, <2>2, <2>3, <2>4 DEF Shape, Writing
<1>19. CASE UNCHANGED fileVars
  BY <1>19 DEF fileVars, Shape, Writing
<1> QED
  BY <1>1, <1>2, <1>3, <1>4, <1>5, <1>6, <1>7, <1>8, <1>9, <1>10,
     <1>11, <1>12, <1>13, <1>14, <1>15, <1>16, <1>17, <1>18, <1>19 DEF FilesNext

\* A push puts its entry at the head of the ring.
LEMMA Pushed ==
  ASSUME NEW e \in Sets, NEW r \in Seq(Sets)
  PROVE  RingPush(r, e) \in Seq(Sets) /\ RingPush(r, e) # <<>> /\ Head(RingPush(r, e)) = e
<1> DEFINE rest == IF Len(r) < HistoryBound THEN r ELSE SubSeq(r, 1, HistoryBound - 1)
<1>1. rest \in Seq(Sets)
  BY FilesAssumption
<1>2. <<e>> \in Seq(Sets) /\ Len(<<e>>) = 1 /\ <<e>>[1] = e
  OBVIOUS
<1> DEFINE pushed == <<e>> \o rest
<1> HIDE DEF rest
<1>3. pushed \in Seq(Sets) /\ Len(pushed) = 1 + Len(rest) /\ pushed[1] = e /\ Len(rest) \in Nat
  BY <1>1, <1>2
<1>4. pushed # <<>> /\ Head(pushed) = e
  BY <1>3
<1> QED
  BY <1>3, <1>4 DEF RingPush, pushed, rest

\* What an entry of the ring and an anchor have in common.
LEMMA AnchorFacts ==
  /\ Sets \subseteq Anchors /\ NoAnchor.at = 0
  /\ \A e \in Anchors : e.at \in Nat \ {0} /\ e # NoAnchor
  /\ \A e \in Anchors, o \in Origins \cup {None} :
       [e EXCEPT !.origin = o] \in Anchors /\ [e EXCEPT !.origin = o].at = e.at
  /\ \A e \in Sets : e.at \in Nat \ {0} /\ e.origin \in Origins
<1>1. Sets \subseteq Anchors /\ NoAnchor.at = 0 /\ \A e \in Sets : e.origin \in Origins
  BY DEF Sets, Anchors, NoAnchor
<1>2. \A e \in Anchors : e.at \in Nat \ {0}
  BY FilesAssumption DEF Anchors
<1>3. \A e \in Anchors, o \in Origins \cup {None} :
        [e EXCEPT !.origin = o] \in Anchors /\ [e EXCEPT !.origin = o].at = e.at
  BY DEF Anchors
<1> QED
  BY <1>1, <1>2, <1>3

\* current.json says the number of the anchor, and forgets its origin.
LEMMA BodyFacts ==
  ASSUME anchor \in Anchors \cup {NoAnchor}
  PROVE  /\ Encoded("current").anchor \in Anchors \cup {NoAnchor}
         /\ Encoded("current").anchor.at = anchor.at
         /\ Encoded("history") = ring
<1>1. Encoded("current") = CurrentBody /\ Encoded("history") = ring
  BY DEF Encoded
<1>2. CurrentBody.anchor = IF anchor = NoAnchor THEN NoAnchor ELSE [anchor EXCEPT !.origin = None]
  BY DEF CurrentBody
<1> QED
  BY <1>1, <1>2, AnchorFacts

\* A commit puts one file in its place and leaves the others.
LEMMA Committed ==
  ASSUME Shape, Commit
  PROVE  /\ Head(todo) \in Kinds /\ disk'[Head(todo)].is = "read"
         /\ disk'[Head(todo)].body = Encoded(Head(todo))
         /\ \A j \in Kinds : j # Head(todo) => disk'[j] = disk[j]
<1>1. Head(todo) \in Kinds
  BY Plans DEF Commit, Shape, Writing, WritePlans, Kinds
<1>2. disk' = [disk EXCEPT ![Head(todo)] = Read(Encoded(Head(todo)))] /\ DOMAIN disk = Kinds
  BY DEF Commit, Shape
<1>3. disk'[Head(todo)] = Read(Encoded(Head(todo)))
  BY <1>1, <1>2
<1> QED
  BY <1>1, <1>2, <1>3 DEF Read

\* Every step keeps the entries.
LEMMA EntriesStep == Shape /\ Entries /\ [FilesNext]_fileVars => Entries'
<1> SUFFICES ASSUME Shape /\ Entries, [FilesNext]_fileVars PROVE Entries'
  OBVIOUS
<1>1. ASSUME NEW d \in Digests, NEW o \in Origins, RecordSet(d, o) PROVE Entries'
  <2> DEFINE e == [at |-> Len(made) + 1, digest |-> d, origin |-> o]
  <2>1. Len(made) \in Nat /\ Len(made) < MaxSets /\ MaxSets \in Nat
    BY <1>1, FilesAssumption DEF RecordSet, Entries
  <2>2. e \in Sets /\ e.at = Len(made) + 1
    BY <2>1, <1>1 DEF Sets
  <2>3. anchor' = e /\ ring' = RingPush(ring, e) /\ made' = Append(made, e) /\ disk' = disk
    BY <1>1 DEF RecordSet, files
  <2> HIDE DEF e
  <2>4. made' \in Seq(Sets) /\ Len(made') = Len(made) + 1
    BY <2>2, <2>3 DEF Entries
  <2>5. anchor' \in Anchors /\ ring' \in Seq(Sets) /\ Head(ring').at = Len(made')
    BY <2>2, <2>3, <2>4, Pushed, AnchorFacts DEF Entries
  <2>6. disk'["history"].is = "read" /\ disk'["history"].body # <<>> =>
          Head(disk'["history"].body).at <= Len(made')
    <3>1. \A r \in Seq(Sets) : r # <<>> => Head(r) \in Sets
      OBVIOUS
    <3> QED
      BY <3>1, <2>1, <2>3, <2>4, AnchorFacts DEF Entries
  <2>7. Len(made') \in Nat
    BY <2>1, <2>4
  <2> QED
    BY <2>3, <2>4, <2>5, <2>6, <2>7 DEF Entries
<1>2. CASE RewriteCurrent
  <2>1. UNCHANGED <<made, ring, anchor, disk>>
    BY <1>2 DEF RewriteCurrent, files, memory, counts
  <2> QED
    BY <2>1 DEF Entries
<1>3. CASE AddFavorite
  <2>1. UNCHANGED <<made, ring, anchor, disk>>
    BY <1>3 DEF AddFavorite, files, memory, counts
  <2> QED
    BY <2>1 DEF Entries
<1>4. CASE RemoveFavorite
  <2>1. UNCHANGED <<made, ring, anchor, disk>>
    BY <1>4 DEF RemoveFavorite, files, memory, counts
  <2> QED
    BY <2>1 DEF Entries
<1>5. ASSUME NEW p \in BOOLEAN, SetPaused(p) PROVE Entries'
  <2>1. UNCHANGED <<made, ring, anchor, disk>>
    BY <1>5 DEF SetPaused, files, memory, counts
  <2> QED
    BY <2>1 DEF Entries
<1>6. CASE SkipReadOnly
  <2>1. UNCHANGED <<made, ring, anchor, disk>>
    BY <1>6 DEF SkipReadOnly, files, memory, counts
  <2> QED
    BY <2>1 DEF Entries
<1>7. CASE Stage
  <2>1. UNCHANGED <<made, ring, anchor, disk>>
    BY <1>7 DEF Stage, files, memory, counts
  <2> QED
    BY <2>1 DEF Entries
<1>8. CASE StageFails
  <2>1. UNCHANGED <<made, ring, anchor, disk>>
    BY <1>8 DEF StageFails, files, memory, counts
  <2> QED
    BY <2>1 DEF Entries
<1>9. CASE Commit
  <2>1. UNCHANGED <<made, ring, anchor>>
    BY <1>9 DEF Commit, counts
  <2>2. CASE Head(todo) = "current"
    BY <2>1, <2>2, <1>9, Committed, BodyFacts DEF Entries, Kinds
  <2>3. CASE Head(todo) = "history"
    BY <2>1, <2>3, <1>9, Committed, BodyFacts DEF Entries, Kinds
  <2>4. CASE Head(todo) = "favorites"
    BY <2>1, <2>4, <1>9, Committed DEF Entries, Kinds
  <2> QED
    BY <1>9, <2>2, <2>3, <2>4, Committed DEF Kinds
<1>10. CASE CommitFails
  <2>1. UNCHANGED <<made, ring, anchor, disk>>
    BY <1>10 DEF CommitFails, files, memory, counts
  <2> QED
    BY <2>1 DEF Entries
<1>11. CASE Die
  BY <1>11 DEF Die, Entries, files, counts
<1>12. CASE FilesStart
  <2>1. UNCHANGED <<made, ring, anchor, disk>>
    BY <1>12 DEF FilesStart, files, memory, counts
  <2> QED
    BY <2>1 DEF Entries
<1>13. CASE RebuildCurrent
  <2>1. UNCHANGED <<made, ring, disk>>
    BY <1>13 DEF RebuildCurrent, files, counts
  <2>2. ring # <<>> => Head(ring) \in Sets
    BY DEF Entries
  <2>3. anchor' \in Anchors \cup {NoAnchor}
    BY <1>13, <2>2, AnchorFacts DEF RebuildCurrent, Entries
  <2> QED
    BY <2>1, <2>3 DEF Entries
<1>14. ASSUME NEW k \in Kinds, NEW what \in {"absent", "corrupt", "newer"}, ByHand(k, what)
       PROVE  Entries'
  <2>1. UNCHANGED <<made, ring, anchor>>
    BY <1>14 DEF ByHand, memory
  <2>2. \A j \in Kinds : disk'[j] = disk[j] \/ disk'[j].is # "read"
    BY <1>14 DEF ByHand, Shape, Absent, Alien
  <2> QED
    BY <2>1, <2>2 DEF Entries, Kinds
<1>15. ASSUME NEW k \in Kinds, LoadAbsent(k) PROVE Entries'
  <2>1. UNCHANGED <<made, ring, anchor, disk>>
    BY <1>15 DEF LoadAbsent, files, memory, counts
  <2> QED
    BY <2>1 DEF Entries
<1>16. ASSUME NEW k \in Kinds, LoadRead(k) PROVE Entries'
  <2>1. disk[k].is = "read" /\ UNCHANGED <<made, disk>>
    BY <1>16 DEF LoadRead, Loading, Is, files, counts
  <2>2. ring' = (IF k = "history" THEN disk[k].body ELSE ring)
    BY <1>16 DEF LoadRead
  <2>3. anchor' = (IF k = "current" THEN disk[k].body.anchor ELSE anchor)
    BY <1>16 DEF LoadRead
  <2> QED
    BY <2>1, <2>2, <2>3 DEF Entries
<1>17. ASSUME NEW k \in Kinds, LoadNewer(k) PROVE Entries'
  <2>1. UNCHANGED <<made, ring, anchor, disk>>
    BY <1>17 DEF LoadNewer, files, memory, counts
  <2> QED
    BY <2>1 DEF Entries
<1>18. ASSUME NEW k \in Kinds, LoadCorrupt(k) PROVE Entries'
  <2>1. UNCHANGED <<made, ring, anchor>>
    BY <1>18 DEF LoadCorrupt
  <2>2. \A j \in Kinds : disk'[j] = disk[j] \/ disk'[j].is # "read"
    BY <1>18 DEF LoadCorrupt, Shape, Absent
  <2> QED
    BY <2>1, <2>2 DEF Entries, Kinds
<1>19. CASE UNCHANGED fileVars
  BY <1>19 DEF fileVars, Entries
<1> QED
  BY <1>1, <1>2, <1>3, <1>4, <1>5, <1>6, <1>7, <1>8, <1>9, <1>10,
     <1>11, <1>12, <1>13, <1>14, <1>15, <1>16, <1>17, <1>18, <1>19 DEF FilesNext

\* Each file read settles it, and no other.
LEMMA NextSettled ==
  ASSUME Shape, NEW k \in Kinds, phase = "load", todo # <<>>, Head(todo) = k,
         todo' = Tail(todo), phase' = phase
  PROVE  /\ ~Up' /\ ~Writing' /\ phase' = "load"
         /\ \A j \in Kinds : Settled(j)' <=> Settled(j) \/ j = k
         /\ ~Settled(k)
<1>1. todo \in {AllFiles, RingAndPins, PinsOnly}
  BY DEF Shape, LoadPlans
<1>2. CASE todo = AllFiles
  BY <1>2, Plans, PlansDiffer DEF Settled, Up, Writing, Kinds
<1>3. CASE todo = RingAndPins
  BY <1>3, Plans, PlansDiffer DEF Settled, Up, Writing, Kinds
<1>4. CASE todo = PinsOnly
  BY <1>4, Plans, PlansDiffer DEF Settled, Up, Writing, Kinds
<1> QED
  BY <1>1, <1>2, <1>3, <1>4

\* Every step keeps track of what could not be read.
LEMMA UnreadStep == Shape /\ Unread /\ [FilesNext]_fileVars => Unread'
<1> SUFFICES ASSUME Shape /\ Unread, [FilesNext]_fileVars PROVE Unread'
  OBVIOUS
<1>1. ASSUME NEW d \in Digests, NEW o \in Origins, RecordSet(d, o) PROVE Unread'
  BY <1>1, PlansDiffer
    DEF RecordSet, files, memory, counts, Shape, Unread, Settled, Up, Writing,
      AnchorAndRing, AnchorOnly, PinsOnly, AllFiles
<1>2. CASE RewriteCurrent
  BY <1>2, PlansDiffer
    DEF RewriteCurrent, files, memory, counts, Shape, Unread, Settled, Up, Writing,
      AnchorAndRing, AnchorOnly, PinsOnly, AllFiles
<1>3. CASE AddFavorite
  BY <1>3, PlansDiffer
    DEF AddFavorite, files, memory, counts, Shape, Unread, Settled, Up, Writing,
      AnchorAndRing, AnchorOnly, PinsOnly, AllFiles
<1>4. CASE RemoveFavorite
  BY <1>4, PlansDiffer
    DEF RemoveFavorite, files, memory, counts, Shape, Unread, Settled, Up, Writing,
      AnchorAndRing, AnchorOnly, PinsOnly, AllFiles
<1>5. ASSUME NEW p \in BOOLEAN, SetPaused(p) PROVE Unread'
  BY <1>5, PlansDiffer
    DEF SetPaused, files, memory, counts, Shape, Unread, Settled, Up, Writing,
      AnchorAndRing, AnchorOnly, PinsOnly, AllFiles
<1>6. CASE SkipReadOnly
  BY <1>6, Plans, PlansDiffer
    DEF SkipReadOnly, WriteEnds, files, memory, counts, Shape, Unread, Settled, Up, Writing,
      LoadPlans, WritePlans
<1>7. CASE Stage
  BY <1>7 DEF Stage, files, memory, counts, Shape, Unread, Settled, Up, Writing
<1>8. CASE StageFails
  BY <1>8, Plans, PlansDiffer
    DEF StageFails, WriteEnds, files, memory, counts, Shape, Unread, Settled, Up, Writing,
      LoadPlans, WritePlans
<1>9. CASE Commit
  BY <1>9, Plans, PlansDiffer, Committed
    DEF Commit, WriteEnds, Read, Absent, files, memory, counts, Shape, Unread, Settled, Up,
      Writing, LoadPlans, WritePlans
<1>10. CASE CommitFails
  BY <1>10, Plans, PlansDiffer
    DEF CommitFails, WriteEnds, files, memory, counts, Shape, Unread, Settled, Up, Writing,
      LoadPlans, WritePlans
<1>11. CASE Die
  BY <1>11 DEF Die, files, memory, counts, Shape, Unread, Settled, Up, Writing
<1>12. CASE FilesStart
  BY <1>12, PlansDiffer
    DEF FilesStart, files, memory, counts, Shape, Unread, Settled, Up, Writing,
      AnchorAndRing, AnchorOnly, PinsOnly, AllFiles
<1>13. CASE RebuildCurrent
  BY <1>13 DEF RebuildCurrent, files, memory, counts, Shape, Unread, Settled, Up, Writing
<1>14. ASSUME NEW k \in Kinds, NEW what \in {"absent", "corrupt", "newer"}, ByHand(k, what)
       PROVE  Unread'
  BY <1>14 DEF ByHand, Absent, Alien, files, memory, counts, Shape, Unread, Settled, Up, Writing
<1>15. ASSUME NEW k \in Kinds, LoadAbsent(k) PROVE Unread'
  <2>1. /\ ~Up' /\ ~Writing' /\ phase = "load" /\ phase' = "load"
        /\ \A j \in Kinds : Settled(j)' <=> Settled(j) \/ j = k
        /\ ~Settled(k)
    BY <1>15, NextSettled DEF LoadAbsent, Loading
  <2>2. disk[k].is = "absent" /\ UNCHANGED <<disk, stuck, readOnly, degraded, byHand>>
    BY <1>15 DEF LoadAbsent, Loading, Is, files, memory, counts
  <2> QED
    BY <2>1, <2>2 DEF Unread
<1>16. ASSUME NEW k \in Kinds, LoadRead(k) PROVE Unread'
  <2>1. /\ ~Up' /\ ~Writing' /\ phase = "load" /\ phase' = "load"
        /\ \A j \in Kinds : Settled(j)' <=> Settled(j) \/ j = k
        /\ ~Settled(k)
    BY <1>16, NextSettled DEF LoadRead, Loading
  <2>2. disk[k].is = "read" /\ UNCHANGED <<disk, stuck, readOnly, degraded, byHand>>
    BY <1>16 DEF LoadRead, Loading, Is, files, counts
  <2> QED
    BY <2>1, <2>2 DEF Unread
<1>17. ASSUME NEW k \in Kinds, LoadNewer(k) PROVE Unread'
  <2>1. /\ ~Up' /\ ~Writing' /\ phase = "load" /\ phase' = "load"
        /\ \A j \in Kinds : Settled(j)' <=> Settled(j) \/ j = k
        /\ ~Settled(k)
    BY <1>17, NextSettled DEF LoadNewer, Loading
  <2>2. /\ disk[k].is = "newer" /\ readOnly' = readOnly \cup {k}
        /\ UNCHANGED <<disk, stuck, degraded, byHand>>
    BY <1>17 DEF LoadNewer, Loading, Is, files, counts
  <2> QED
    BY <2>1, <2>2 DEF Unread
<1>18. ASSUME NEW k \in Kinds, LoadCorrupt(k) PROVE Unread'
  <2>1. /\ ~Up' /\ ~Writing' /\ phase = "load" /\ phase' = "load"
        /\ \A j \in Kinds : Settled(j)' <=> Settled(j) \/ j = k
        /\ ~Settled(k)
    BY <1>18, NextSettled DEF LoadCorrupt, Loading
  <2>2. /\ disk[k].is \in {"read", "corrupt"} /\ UNCHANGED <<readOnly, byHand>>
        /\ degraded' = (degraded \/ k = "favorites")
        /\ \A j \in Kinds \ {k} : disk'[j] = disk[j] /\ (j \in stuck' <=> j \in stuck)
        /\ disk'[k].is = "absent" \/ (disk'[k] = disk[k] /\ k \in stuck')
    BY <1>18 DEF LoadCorrupt, Loading, Is, Absent, Shape
  <2> QED
    BY <2>1, <2>2 DEF Unread
<1>19. CASE UNCHANGED fileVars
  BY <1>19 DEF fileVars, Unread, Settled, Up, Writing
<1> QED
  BY <1>1, <1>2, <1>3, <1>4, <1>5, <1>6, <1>7, <1>8, <1>9, <1>10,
     <1>11, <1>12, <1>13, <1>14, <1>15, <1>16, <1>17, <1>18, <1>19 DEF FilesNext

\* Every step keeps what the start recalls.
LEMMA RecalledStep == Shape /\ Recalled /\ [FilesNext]_fileVars => Recalled'
<1> SUFFICES ASSUME Shape /\ Recalled, [FilesNext]_fileVars PROVE Recalled'
  OBVIOUS
<1>1. ASSUME NEW d \in Digests, NEW o \in Origins, RecordSet(d, o) PROVE Recalled'
  BY <1>1 DEF RecordSet, Recalled
<1>2. CASE RewriteCurrent
  BY <1>2 DEF RewriteCurrent, Recalled
<1>3. CASE AddFavorite
  BY <1>3 DEF AddFavorite, Recalled
<1>4. CASE RemoveFavorite
  BY <1>4 DEF RemoveFavorite, Recalled
<1>5. ASSUME NEW p \in BOOLEAN, SetPaused(p) PROVE Recalled'
  BY <1>5 DEF SetPaused, Recalled
<1>6. CASE SkipReadOnly
  BY <1>6 DEF SkipReadOnly, WriteEnds, Recalled
<1>7. CASE Stage
  BY <1>7 DEF Stage, Recalled
<1>8. CASE StageFails
  BY <1>8 DEF StageFails, WriteEnds, Recalled
<1>9. CASE Commit
  BY <1>9 DEF Commit, WriteEnds, Recalled
<1>10. CASE CommitFails
  BY <1>10 DEF CommitFails, WriteEnds, Recalled
<1>11. CASE Die
  BY <1>11 DEF Die, Recalled
<1>12. CASE FilesStart
  <2>1. ~Settled("current")' /\ ~Settled("history")'
    BY <1>12, PlansDiffer DEF FilesStart, Settled, Up, AllFiles
  <2> QED
    BY <1>12, <2>1 DEF FilesStart, Recalled, memory
<1>13. CASE RebuildCurrent
  BY <1>13 DEF RebuildCurrent, Recalled
<1>14. ASSUME NEW k \in Kinds, NEW what \in {"absent", "corrupt", "newer"}, ByHand(k, what)
       PROVE  Recalled'
  BY <1>14 DEF ByHand, Recalled, memory
<1>15. ASSUME NEW k \in Kinds, LoadAbsent(k) PROVE Recalled'
  <2>1. /\ ~Up' /\ ~Writing' /\ phase = "load" /\ phase' = "load"
        /\ \A j \in Kinds : Settled(j)' <=> Settled(j) \/ j = k
        /\ ~Settled(k)
    BY <1>15, NextSettled DEF LoadAbsent, Loading
  <2>2. disk[k].is = "absent" /\ UNCHANGED <<disk, anchor, ring, faults>>
    BY <1>15 DEF LoadAbsent, Loading, Is, files, memory, counts
  <2> QED
    BY <2>1, <2>2 DEF Recalled, Kinds
<1>16. ASSUME NEW k \in Kinds, LoadRead(k) PROVE Recalled'
  <2>1. /\ ~Up' /\ ~Writing' /\ phase = "load" /\ phase' = "load"
        /\ \A j \in Kinds : Settled(j)' <=> Settled(j) \/ j = k
        /\ ~Settled(k)
    BY <1>16, NextSettled DEF LoadRead, Loading
  <2>2. /\ disk[k].is = "read" /\ UNCHANGED <<disk, faults>>
        /\ anchor' = (IF k = "current" THEN disk[k].body.anchor ELSE anchor)
        /\ ring' = (IF k = "history" THEN disk[k].body ELSE ring)
    BY <1>16 DEF LoadRead, Loading, Is, files, counts
  <2> QED
    BY <2>1, <2>2 DEF Recalled, Kinds
<1>17. ASSUME NEW k \in Kinds, LoadNewer(k) PROVE Recalled'
  <2>1. /\ ~Up' /\ ~Writing' /\ phase = "load" /\ phase' = "load"
        /\ \A j \in Kinds : Settled(j)' <=> Settled(j) \/ j = k
        /\ ~Settled(k)
    BY <1>17, NextSettled DEF LoadNewer, Loading
  <2>2. disk[k].is = "newer" /\ UNCHANGED <<disk, anchor, ring, faults>>
    BY <1>17 DEF LoadNewer, Loading, Is, files, counts
  <2> QED
    BY <2>1, <2>2 DEF Recalled, Kinds
<1>18. ASSUME NEW k \in Kinds, LoadCorrupt(k) PROVE Recalled'
  <2>1. /\ ~Up' /\ ~Writing' /\ phase = "load" /\ phase' = "load"
        /\ \A j \in Kinds : Settled(j)' <=> Settled(j) \/ j = k
        /\ ~Settled(k)
    BY <1>18, NextSettled DEF LoadCorrupt, Loading
  <2>2. /\ UNCHANGED <<anchor, ring>>
        /\ faults' = 0 => faults = 0 /\ disk'[k].is = "absent"
        /\ \A j \in Kinds \ {k} : disk'[j] = disk[j]
    BY <1>18 DEF LoadCorrupt, Loading, Is, Absent, Shape
  <2> QED
    BY <2>1, <2>2 DEF Recalled, Kinds
<1>19. CASE UNCHANGED fileVars
  BY <1>19 DEF fileVars, Recalled, Settled, Up
<1> QED
  BY <1>1, <1>2, <1>3, <1>4, <1>5, <1>6, <1>7, <1>8, <1>9, <1>10,
     <1>11, <1>12, <1>13, <1>14, <1>15, <1>16, <1>17, <1>18, <1>19 DEF FilesNext

\* The numbers that are compared are numbers.
LEMMA Ages ==
  ASSUME Entries
  PROVE  /\ DiskNewest \in Nat /\ RingNewest \in Nat /\ anchor.at \in Nat /\ Len(made) \in Nat
         /\ disk["current"].is = "read" => DiskAnchor \in Nat
         /\ DiskNewest <= Len(made)
<1>1. \A r \in Seq(Sets) : r # <<>> => Head(r) \in Sets
  OBVIOUS
<1>2. Len(made) \in Nat
  BY DEF Entries
<1> QED
  BY <1>1, <1>2, AnchorFacts DEF Entries, DiskNewest, RingNewest, DiskAnchor

\* Every step keeps the order.
LEMMA OrderedStep == Shape /\ Entries /\ Unread /\ Recalled /\ Ordered /\ [FilesNext]_fileVars => Ordered'
<1> SUFFICES ASSUME Shape /\ Entries /\ Unread /\ Recalled /\ Ordered, [FilesNext]_fileVars
             PROVE  Ordered'
  OBVIOUS
<1>1. ASSUME NEW d \in Digests, NEW o \in Origins, RecordSet(d, o) PROVE Ordered'
  <2> DEFINE e == [at |-> Len(made) + 1, digest |-> d, origin |-> o]
  <2>1. /\ anchor' = e /\ ring' = RingPush(ring, e) /\ todo' = AnchorAndRing
        /\ Len(made) < MaxSets /\ phase = "idle" /\ UNCHANGED <<disk, faults>>
    BY <1>1 DEF RecordSet, files, AnchorAndRing
  <2>2. e \in Sets /\ e.at = Len(made) + 1
    BY <2>1, Ages, FilesAssumption DEF Sets
  <2> HIDE DEF e
  <2>3. RingNewest' = Len(made) + 1 /\ anchor'.at = Len(made) + 1
    BY <2>1, <2>2, Pushed DEF RingNewest, Entries
  <2>4. DiskNewest' = DiskNewest /\ DiskAnchor' = DiskAnchor
    BY <2>1 DEF DiskNewest, DiskAnchor
  <2> QED
    BY <2>1, <2>3, <2>4, Ages, PlansDiffer DEF Ordered
<1>2. CASE RewriteCurrent
  <2>1. /\ todo' \in {AnchorOnly, PinsOnly} /\ phase = "idle"
        /\ UNCHANGED <<disk, anchor, ring, faults>>
    BY <1>2 DEF RewriteCurrent, files, memory, counts, AnchorOnly, PinsOnly
  <2> QED
    BY <2>1, PlansDiffer DEF Ordered, Up, DiskNewest, RingNewest, DiskAnchor
<1>3. CASE AddFavorite
  <2>1. /\ todo' \in {AnchorOnly, PinsOnly} /\ phase = "idle"
        /\ UNCHANGED <<disk, anchor, ring, faults>>
    BY <1>3 DEF AddFavorite, files, memory, counts, AnchorOnly, PinsOnly
  <2> QED
    BY <2>1, PlansDiffer DEF Ordered, Up, DiskNewest, RingNewest, DiskAnchor
<1>4. CASE RemoveFavorite
  <2>1. /\ todo' \in {AnchorOnly, PinsOnly} /\ phase = "idle"
        /\ UNCHANGED <<disk, anchor, ring, faults>>
    BY <1>4 DEF RemoveFavorite, files, memory, counts, AnchorOnly, PinsOnly
  <2> QED
    BY <2>1, PlansDiffer DEF Ordered, Up, DiskNewest, RingNewest, DiskAnchor
<1>5. ASSUME NEW p \in BOOLEAN, SetPaused(p) PROVE Ordered'
  <2>1. /\ todo' \in {AnchorOnly, PinsOnly} /\ phase = "idle"
        /\ UNCHANGED <<disk, anchor, ring, faults>>
    BY <1>5 DEF SetPaused, files, memory, counts, AnchorOnly, PinsOnly
  <2> QED
    BY <2>1, PlansDiffer DEF Ordered, Up, DiskNewest, RingNewest, DiskAnchor
<1>6. CASE SkipReadOnly
  <2>1. /\ Writing /\ Head(todo) \in readOnly /\ todo' = Tail(todo)
        /\ UNCHANGED <<disk, anchor, ring, faults>>
    BY <1>6 DEF SkipReadOnly, WriteEnds, Writing, files, memory, counts
  <2>2. todo' = RingOnly => Head(todo) = "current"
    BY <2>1, Plans, PlansDiffer DEF Shape, WritePlans
  <2>3. Head(todo) = "current" => disk["current"].is # "read"
    BY <2>1 DEF Unread, Kinds
  <2> QED
    BY <2>1, <2>2, <2>3 DEF Ordered, Up, Writing, DiskNewest, RingNewest, DiskAnchor
<1>7. CASE Stage
  <2>1. phase = "write" /\ UNCHANGED <<disk, anchor, ring, faults, todo>>
    BY <1>7 DEF Stage, memory, counts
  <2> QED
    BY <2>1 DEF Ordered, Up, Writing, DiskNewest, RingNewest, DiskAnchor
<1>8. CASE StageFails
  BY <1>8 DEF StageFails, Shape, Ordered
<1>9. CASE Commit
  <2>1. /\ Writing /\ Up /\ todo' = Tail(todo) /\ todo \in WritePlans
        /\ UNCHANGED <<anchor, ring, faults>>
    BY <1>9 DEF Commit, WriteEnds, Writing, Up, counts, Shape
  <2>2. RingNewest' = RingNewest /\ anchor'.at = anchor.at
    BY <2>1 DEF RingNewest
  <2>3. CASE Head(todo) = "current"
    <3>1. DiskNewest' = DiskNewest /\ DiskAnchor' = anchor.at
      BY <1>9, <2>3, Committed, BodyFacts DEF DiskNewest, DiskAnchor, Kinds, Entries
    <3> QED
      BY <2>1, <2>2, <3>1 DEF Ordered
  <2>4. CASE Head(todo) = "history"
    <3>1. DiskNewest' = RingNewest /\ disk'["current"] = disk["current"] /\ DiskAnchor' = DiskAnchor
      BY <1>9, <2>4, Committed, BodyFacts DEF DiskNewest, DiskAnchor, RingNewest, Kinds, Entries
    <3>2. todo = RingOnly /\ todo' # RingOnly
      BY <2>1, <2>4, Plans, PlansDiffer DEF WritePlans
    <3> QED
      BY <2>1, <2>2, <3>1, <3>2 DEF Ordered
  <2>5. CASE Head(todo) = "favorites"
    <3>1. UNCHANGED <<DiskNewest, DiskAnchor, disk["current"]>>
      BY <1>9, <2>5, Committed DEF DiskNewest, DiskAnchor, Kinds
    <3>2. todo' # RingOnly
      BY <2>1, <2>5, Plans, PlansDiffer DEF WritePlans
    <3> QED
      BY <2>1, <2>2, <3>1, <3>2 DEF Ordered
  <2> QED
    BY <1>9, <2>3, <2>4, <2>5, Committed DEF Kinds
<1>10. CASE CommitFails
  BY <1>10 DEF CommitFails, Shape, Ordered
<1>11. CASE Die
  <2>1. phase' = "down" /\ UNCHANGED <<disk, faults>>
    BY <1>11 DEF Die, files, counts
  <2> QED
    BY <2>1 DEF Ordered, Up, Writing, DiskNewest, DiskAnchor
<1>12. CASE FilesStart
  <2>1. phase' = "load" /\ UNCHANGED <<disk, faults>>
    BY <1>12 DEF FilesStart, files
  <2> QED
    BY <2>1 DEF Ordered, Up, Writing, DiskNewest, DiskAnchor
<1>13. CASE RebuildCurrent
  <2>1. /\ phase = "load" /\ todo = <<>> /\ phase' = "idle"
        /\ UNCHANGED <<disk, ring, faults>>
    BY <1>13 DEF RebuildCurrent, files, counts
  <2>2. /\ RingNewest' = RingNewest /\ DiskNewest' = DiskNewest /\ DiskAnchor' = DiskAnchor
        /\ ~Writing'
    BY <2>1 DEF RingNewest, DiskNewest, DiskAnchor, Writing
  <2>3. Settled("current") /\ Settled("history")
    BY <2>1 DEF Settled
  <2>4. ring # <<>> => Head(ring) \in Sets
    BY DEF Entries
  <2>5. ASSUME faults = 0
        PROVE  RingNewest <= anchor'.at /\ DiskNewest <= anchor'.at
    <3>1. DiskNewest = RingNewest
      BY <2>1, <2>3, <2>5 DEF Recalled, DiskNewest, RingNewest
    <3>2. CASE ring = <<>>
      BY <1>13, <3>1, <3>2, Ages DEF RebuildCurrent, RingNewest
    <3>3. CASE ring # <<>> /\ anchor = NoAnchor
      BY <1>13, <3>1, <3>3, Ages DEF RebuildCurrent, RingNewest
    <3>4. CASE ring # <<>> /\ anchor # NoAnchor
      <4>1. disk["current"].is = "read" /\ anchor = disk["current"].body.anchor
        BY <2>1, <2>3, <2>5, <3>4 DEF Recalled
      <4>2. DiskNewest <= anchor.at
        BY <2>5, <4>1 DEF Ordered, DiskAnchor
      <4>3. anchor'.at = anchor.at
        BY <1>13, <2>4, <3>4, AnchorFacts DEF RebuildCurrent, Entries
      <4> QED
        BY <3>1, <4>2, <4>3
    <3> QED
      BY <3>2, <3>3, <3>4
  <2> QED
    BY <2>1, <2>2, <2>5 DEF Ordered
<1>14. ASSUME NEW k \in Kinds, NEW what \in {"absent", "corrupt", "newer"}, ByHand(k, what)
       PROVE  Ordered'
  <2>1. /\ phase' \in {"down", "load"} /\ (faults' = 0 => faults = 0)
        /\ \A j \in Kinds : disk'[j] = disk[j] \/ disk'[j].is # "read"
    BY <1>14 DEF ByHand, Shape, Absent, Alien
  <2>2. disk'["current"].is = "read" => disk["current"].is = "read" /\ DiskAnchor' = DiskAnchor
    BY <2>1 DEF DiskAnchor, Kinds
  <2>3. DiskNewest' \in {0, DiskNewest}
    BY <2>1 DEF DiskNewest, Kinds
  <2> QED
    BY <2>1, <2>2, <2>3, Ages DEF Ordered, Up, Writing
<1>15. ASSUME NEW k \in Kinds, LoadAbsent(k) PROVE Ordered'
  <2>1. phase' = "load" /\ UNCHANGED <<disk, faults>>
    BY <1>15 DEF LoadAbsent, Loading, files, counts
  <2> QED
    BY <2>1 DEF Ordered, Up, Writing, DiskNewest, DiskAnchor
<1>16. ASSUME NEW k \in Kinds, LoadRead(k) PROVE Ordered'
  <2>1. phase' = "load" /\ UNCHANGED <<disk, faults>>
    BY <1>16 DEF LoadRead, Loading, files, counts
  <2> QED
    BY <2>1 DEF Ordered, Up, Writing, DiskNewest, DiskAnchor
<1>17. ASSUME NEW k \in Kinds, LoadNewer(k) PROVE Ordered'
  <2>1. phase' = "load" /\ UNCHANGED <<disk, faults>>
    BY <1>17 DEF LoadNewer, Loading, files, counts
  <2> QED
    BY <2>1 DEF Ordered, Up, Writing, DiskNewest, DiskAnchor
<1>18. ASSUME NEW k \in Kinds, LoadCorrupt(k) PROVE Ordered'
  <2>1. /\ phase' \in {"down", "load"} /\ (faults' = 0 => faults = 0)
        /\ \A j \in Kinds : disk'[j] = disk[j] \/ disk'[j].is # "read"
    BY <1>18 DEF LoadCorrupt, Loading, Shape, Absent
  <2>2. disk'["current"].is = "read" => disk["current"].is = "read" /\ DiskAnchor' = DiskAnchor
    BY <2>1 DEF DiskAnchor, Kinds
  <2>3. DiskNewest' \in {0, DiskNewest}
    BY <2>1 DEF DiskNewest, Kinds
  <2> QED
    BY <2>1, <2>2, <2>3, Ages DEF Ordered, Up, Writing
<1>19. CASE UNCHANGED fileVars
  BY <1>19 DEF fileVars, Ordered, Up, Writing, DiskNewest, RingNewest, DiskAnchor
<1> QED
  BY <1>1, <1>2, <1>3, <1>4, <1>5, <1>6, <1>7, <1>8, <1>9, <1>10,
     <1>11, <1>12, <1>13, <1>14, <1>15, <1>16, <1>17, <1>18, <1>19 DEF FilesNext

\* Every step keeps what could not be read.
LEMMA KeptStep == Shape /\ Unread /\ UnreadFilesKept /\ [FilesNext]_fileVars => UnreadFilesKept'
<1> SUFFICES ASSUME Shape /\ Unread /\ UnreadFilesKept, [FilesNext]_fileVars
             PROVE  UnreadFilesKept'
  OBVIOUS
<1>1. ASSUME NEW d \in Digests, NEW o \in Origins, RecordSet(d, o) PROVE UnreadFilesKept'
  <2>1. UNCHANGED <<disk, aside, stuck, byHand>>
    BY <1>1 DEF RecordSet, files, memory, counts
  <2> QED
    BY <2>1 DEF UnreadFilesKept
<1>2. CASE RewriteCurrent
  <2>1. UNCHANGED <<disk, aside, stuck, byHand>>
    BY <1>2 DEF RewriteCurrent, files, memory, counts
  <2> QED
    BY <2>1 DEF UnreadFilesKept
<1>3. CASE AddFavorite
  <2>1. UNCHANGED <<disk, aside, stuck, byHand>>
    BY <1>3 DEF AddFavorite, files, memory, counts
  <2> QED
    BY <2>1 DEF UnreadFilesKept
<1>4. CASE RemoveFavorite
  <2>1. UNCHANGED <<disk, aside, stuck, byHand>>
    BY <1>4 DEF RemoveFavorite, files, memory, counts
  <2> QED
    BY <2>1 DEF UnreadFilesKept
<1>5. ASSUME NEW p \in BOOLEAN, SetPaused(p) PROVE UnreadFilesKept'
  <2>1. UNCHANGED <<disk, aside, stuck, byHand>>
    BY <1>5 DEF SetPaused, files, memory, counts
  <2> QED
    BY <2>1 DEF UnreadFilesKept
<1>6. CASE SkipReadOnly
  <2>1. UNCHANGED <<disk, aside, stuck, byHand>>
    BY <1>6 DEF SkipReadOnly, files, memory, counts
  <2> QED
    BY <2>1 DEF UnreadFilesKept
<1>7. CASE Stage
  <2>1. UNCHANGED <<disk, aside, stuck, byHand>>
    BY <1>7 DEF Stage, files, memory, counts
  <2> QED
    BY <2>1 DEF UnreadFilesKept
<1>8. CASE StageFails
  <2>1. UNCHANGED <<disk, aside, stuck, byHand>>
    BY <1>8 DEF StageFails, files, memory, counts
  <2> QED
    BY <2>1 DEF UnreadFilesKept
<1>9. CASE Commit
  <2>1. /\ Up /\ Writing /\ todo \in WritePlans /\ Head(todo) \notin readOnly
        /\ UNCHANGED <<aside, stuck, byHand>>
    BY <1>9 DEF Commit, Up, Writing, Shape, Unread, counts
  <2>2. Head(todo) = "favorites" => todo = PinsOnly
    BY <2>1, Plans, PlansDiffer DEF WritePlans
  <2>3. disk[Head(todo)].is \in {"corrupt", "newer"} => Head(todo) \in stuck /\ Head(todo) # "favorites"
    BY <1>9, <2>1, <2>2, Committed DEF Unread, Settled
  <2> QED
    BY <1>9, <2>1, <2>3, Committed DEF UnreadFilesKept
<1>10. CASE CommitFails
  <2>1. UNCHANGED <<disk, aside, stuck, byHand>>
    BY <1>10 DEF CommitFails, files, memory, counts
  <2> QED
    BY <2>1 DEF UnreadFilesKept
<1>11. CASE Die
  <2>1. UNCHANGED <<disk, aside, stuck, byHand>>
    BY <1>11 DEF Die, files, memory, counts
  <2> QED
    BY <2>1 DEF UnreadFilesKept
<1>12. CASE FilesStart
  <2>1. UNCHANGED <<disk, aside, stuck, byHand>>
    BY <1>12 DEF FilesStart, files, memory, counts
  <2> QED
    BY <2>1 DEF UnreadFilesKept
<1>13. CASE RebuildCurrent
  <2>1. UNCHANGED <<disk, aside, stuck, byHand>>
    BY <1>13 DEF RebuildCurrent, files, memory, counts
  <2> QED
    BY <2>1 DEF UnreadFilesKept
<1>14. ASSUME NEW k \in Kinds, NEW what \in {"absent", "corrupt", "newer"}, ByHand(k, what)
       PROVE  UnreadFilesKept'
  <2>1. /\ \A j \in Kinds \ {k} : disk'[j] = disk[j] /\ byHand'[j] = byHand[j]
        /\ aside' = aside /\ stuck' = stuck \ {k}
        /\ byHand'[k] # 0 => disk'[k].is \in {"corrupt", "newer"} /\ disk'[k].hand = byHand'[k]
    BY <1>14 DEF ByHand, Shape, Absent, Alien
  <2> QED
    BY <2>1 DEF UnreadFilesKept
<1>15. ASSUME NEW k \in Kinds, LoadAbsent(k) PROVE UnreadFilesKept'
  <2>1. UNCHANGED <<disk, aside, stuck, byHand>>
    BY <1>15 DEF LoadAbsent, files, memory, counts
  <2> QED
    BY <2>1 DEF UnreadFilesKept
<1>16. ASSUME NEW k \in Kinds, LoadRead(k) PROVE UnreadFilesKept'
  <2>1. UNCHANGED <<disk, aside, stuck, byHand>>
    BY <1>16 DEF LoadRead, files, memory, counts
  <2> QED
    BY <2>1 DEF UnreadFilesKept
<1>17. ASSUME NEW k \in Kinds, LoadNewer(k) PROVE UnreadFilesKept'
  <2>1. UNCHANGED <<disk, aside, stuck, byHand>>
    BY <1>17 DEF LoadNewer, files, memory, counts
  <2> QED
    BY <2>1 DEF UnreadFilesKept
<1>18. ASSUME NEW k \in Kinds, LoadCorrupt(k) PROVE UnreadFilesKept'
  <2>1. /\ \A j \in Kinds \ {k} : disk'[j] = disk[j] /\ aside'[j] = aside[j]
        /\ byHand' = byHand /\ stuck' \in {stuck \ {k}, stuck \cup {k}}
    BY <1>18 DEF LoadCorrupt, Shape
  <2>2. \/ Damage(k) \in aside'[k]
        \/ disk' = disk /\ aside' = aside /\ stuck' = stuck \cup {k}
    BY <1>18 DEF LoadCorrupt, Shape
  <2>3. Damage(k) \in {0, byHand[k]}
    BY <1>18 DEF LoadCorrupt, Loading, Is, Damage, Unread
  <2> QED
    BY <2>1, <2>2, <2>3 DEF UnreadFilesKept
<1>19. CASE UNCHANGED fileVars
  BY <1>19 DEF fileVars, UnreadFilesKept
<1> QED
  BY <1>1, <1>2, <1>3, <1>4, <1>5, <1>6, <1>7, <1>8, <1>9, <1>10,
     <1>11, <1>12, <1>13, <1>14, <1>15, <1>16, <1>17, <1>18, <1>19 DEF FilesNext

-----------------------------------------------------------------------------
\* All parts hold at every step of the daemon's lives (state.rs, statefile.rs).
THEOREM FilesInvHolds == FilesSpec => []FilesInv
<1>1. FilesInit => FilesInv
  <2> SUFFICES ASSUME FilesInit PROVE FilesInv
    OBVIOUS
  <2>1. Shape
    BY DEF FilesInit, Shape, Writing, Absent
  <2>2. Entries
    BY AnchorFacts DEF FilesInit, Entries, Absent, Kinds
  <2>3. Unread /\ UnreadFilesKept
    BY DEF FilesInit, Unread, UnreadFilesKept, Settled, Up, Writing, Absent
  <2>4. Ordered /\ Recalled
    BY DEF FilesInit, Ordered, Recalled, Up, Writing, Absent, Kinds
  <2> QED
    BY <2>1, <2>2, <2>3, <2>4 DEF FilesInv
<1>2. FilesInv /\ [FilesNext]_fileVars => FilesInv'
  BY ShapeStep, EntriesStep, UnreadStep, OrderedStep, RecalledStep, KeptStep DEF FilesInv
<1> QED
  BY <1>1, <1>2, PTL DEF FilesSpec

\* Whatever dies between the two writes of record_success, the anchor a restart reads is
\* not older than the ring it reads, unless a write has failed (state.rs: record_success).
THEOREM AnchorFirst == FilesSpec => []AnchorNotBehindRing
<1>1. FilesInv => AnchorNotBehindRing
  <2> SUFFICES ASSUME FilesInv, faults = 0, disk["current"].is = "read",
                      disk["history"].is = "read", disk["history"].body # <<>>
               PROVE  DiskAnchor >= Head(disk["history"].body).at
    BY DEF AnchorNotBehindRing, DiskAnchor, FilesInv, Shape
  <2>1. DiskNewest = Head(disk["history"].body).at /\ DiskNewest <= DiskAnchor
    BY DEF FilesInv, Ordered, DiskNewest
  <2>2. DiskNewest \in Nat /\ DiskAnchor \in Nat
    BY Ages DEF FilesInv
  <2> QED
    BY <2>1, <2>2
<1> QED
  BY <1>1, FilesInvHolds, PTL

\* No death, failed write or later change takes a file this build could not read from its
\* place or from beside it (state.rs: load_history, load_favorites; statefile.rs:
\* quarantine).
THEOREM UnreadStay == FilesSpec => []UnreadFilesKept
<1>1. FilesInv => UnreadFilesKept
  BY DEF FilesInv
<1> QED
  BY <1>1, FilesInvHolds, PTL

-----------------------------------------------------------------------------
(* The ring is the history. *)

\* The entries of a ring are the sets m they name, each older than the one before it, and
\* no more of them than the configuration keeps.
IsHistory(r, m) ==
  /\ Len(r) <= HistoryBound
  /\ \A i \in 1 .. Len(r) : r[i].at <= Len(m) /\ r[i] = m[r[i].at]
  /\ \A i \in 1 .. Len(r) - 1 : r[i].at > r[i + 1].at

\* How many of the sets made from the oldest entry of r up to a newest are not in r.
Missing(r, newest) == newest - r[Len(r)].at - (Len(r) - 1)
LacksAtMost(r, newest, n) == r # <<>> => Missing(r, newest) <= n

\* A set the memory holds and history.json is still to be written with, or was, when the
\* daemon died: the one loss the faults and the earlier deaths have not been charged for.
Owed == IF phase = "down" \/ (Writing /\ todo \in {AnchorAndRing, RingOnly}) THEN 1 ELSE 0
Charged == starts + faults - 1

DiskRing == disk["history"].body
HasRing == disk["history"].is = "read"

\* RingIsTheHistory counts what is missing up to the newest entry of the disk. What makes
\* it inductive counts up to the newest set: a life takes over what the lives before it
\* and the failed writes have cost, and no more than that is missing from its memory.
HistoryInv ==
  /\ starts \in Nat /\ (phase # "down" => starts > 0)
  /\ IsHistory(ring, made) /\ LacksAtMost(ring, Len(made), Charged)
  /\ HasRing => /\ IsHistory(DiskRing, made)
                /\ LacksAtMost(DiskRing, Len(made), Charged + Owed)
                /\ LacksAtMost(DiskRing, DiskRing[1].at, Charged)

\* A ring is made of sets, whose numbers are naturals.
LEMMA EntriesAreNumbered ==
  ASSUME NEW r \in Seq(Sets)
  PROVE  /\ Len(r) \in Nat /\ \A i \in 1 .. Len(r) : r[i] \in Sets /\ r[i].at \in Nat \ {0}
         /\ r # <<>> => Len(r) \in 1 .. Len(r) /\ 1 \in 1 .. Len(r) /\ Head(r) = r[1]
<1>1. Len(r) \in Nat /\ \A i \in 1 .. Len(r) : r[i] \in Sets
  OBVIOUS
<1>2. r # <<>> => Len(r) > 0 /\ Head(r) = r[1]
  OBVIOUS
<1> QED
  BY <1>1, <1>2, AnchorFacts

\* A ring that lacks at most n of the sets lacks at most any more, and none of them is
\* missing twice for being counted up to an older newest.
LEMMA LacksLess ==
  ASSUME NEW r \in Seq(Sets), NEW newest \in Int, NEW older \in Int, older <= newest,
         NEW n \in Int, NEW more \in Int, n <= more, LacksAtMost(r, newest, n)
  PROVE  LacksAtMost(r, older, more)
<1>1. CASE r = <<>>
  BY <1>1 DEF LacksAtMost
<1>2. CASE r # <<>>
  <2>1. Len(r) \in Int /\ r[Len(r)].at \in Int
    BY <1>2, EntriesAreNumbered
  <2>2. Missing(r, newest) <= n
    BY <1>2 DEF LacksAtMost
  <2> QED
    BY <2>1, <2>2 DEF Missing, LacksAtMost
<1> QED
  BY <1>1, <1>2

\* A step that makes no set, at most empties the memory, leaves what is in history.json
\* or makes it unreadable, and charges what it no longer owes, keeps the history.
LEMMA HistoryFrame ==
  ASSUME Shape, Entries, HistoryInv,
         made' = made, ring' = ring \/ ring' = <<>>,
         HasRing' => disk'["history"] = disk["history"],
         starts' \in Nat, faults' \in Nat, phase' # "down" => starts' > 0,
         Charged <= Charged', HasRing' => Charged + Owed <= Charged' + Owed'
  PROVE  HistoryInv'
<1>1. Charged \in Int /\ Charged' \in Int /\ Owed \in Int /\ Owed' \in Int /\ Len(made) \in Int
  BY DEF Owed, Charged, Shape, HistoryInv, Entries
<1>2. IsHistory(ring', made) /\ LacksAtMost(ring', Len(made), Charged')
  <2>1. CASE ring' = <<>>
    BY <2>1, FilesAssumption DEF IsHistory, LacksAtMost
  <2>2. CASE ring' = ring
    <3>1. ring \in Seq(Sets) /\ IsHistory(ring, made) /\ LacksAtMost(ring, Len(made), Charged)
      BY DEF HistoryInv, Entries
    <3>2. Len(made) <= Len(made) /\ Charged <= Charged'
      BY <1>1
    <3>3. LacksAtMost(ring, Len(made), Charged')
      BY <1>1, <3>1, <3>2, LacksLess
    <3> QED
      BY <2>2, <3>1, <3>3
  <2> QED
    BY <2>1, <2>2
<1>3. ASSUME HasRing'
      PROVE  /\ IsHistory(DiskRing, made)
             /\ LacksAtMost(DiskRing, Len(made), Charged' + Owed')
             /\ LacksAtMost(DiskRing, DiskRing[1].at, Charged')
  <2>1. /\ HasRing /\ DiskRing \in Seq(Sets) /\ IsHistory(DiskRing, made)
        /\ LacksAtMost(DiskRing, Len(made), Charged + Owed)
        /\ LacksAtMost(DiskRing, DiskRing[1].at, Charged)
    BY <1>3 DEF HasRing, DiskRing, HistoryInv, Entries
  <2>2. LacksAtMost(DiskRing, Len(made), Charged' + Owed')
    <3>1. Charged + Owed <= Charged' + Owed'
      BY <1>3
    <3>2. Charged + Owed \in Int /\ Charged' + Owed' \in Int
      BY <1>1
    <3>3. Len(made) <= Len(made)
      BY <1>1
    <3> QED
      BY <1>1, <2>1, <3>1, <3>2, <3>3, LacksLess
  <2>3. LacksAtMost(DiskRing, DiskRing[1].at, Charged')
    <3>1. CASE DiskRing = <<>>
      BY <3>1 DEF LacksAtMost
    <3>2. CASE DiskRing # <<>>
      BY <1>1, <2>1, <3>2, LacksLess, EntriesAreNumbered
    <3> QED
      BY <3>1, <3>2
  <2> QED
    BY <2>1, <2>2, <2>3
<1>4. HasRing' => DiskRing' = DiskRing
  BY DEF HasRing, DiskRing
<1> QED
  BY <1>2, <1>3, <1>4 DEF HistoryInv

\* A push puts its entry before what it keeps of the ring: all of it, or all but the
\* oldest.
LEMMA PushKeeps ==
  ASSUME NEW e \in Sets, NEW r \in Seq(Sets), Len(r) <= HistoryBound
  PROVE  \E k \in Nat :
           /\ k <= Len(r) /\ Len(r) <= k + 1 /\ k < HistoryBound
           /\ RingPush(r, e) \in Seq(Sets) /\ Len(RingPush(r, e)) = k + 1
           /\ RingPush(r, e)[1] = e
           /\ \A i \in 1 .. k : RingPush(r, e)[i + 1] = r[i]
<1> DEFINE kept == IF Len(r) < HistoryBound THEN r ELSE SubSeq(r, 1, HistoryBound - 1)
           k == Len(kept)
           pushed == <<e>> \o kept
<1>1. /\ kept \in Seq(Sets) /\ k \in Nat /\ k <= Len(r) /\ Len(r) <= k + 1 /\ k < HistoryBound
      /\ \A i \in 1 .. k : kept[i] = r[i]
  BY FilesAssumption
<1>2. <<e>> \in Seq(Sets) /\ Len(<<e>>) = 1 /\ <<e>>[1] = e
  OBVIOUS
<1> HIDE DEF kept
<1>3. pushed \in Seq(Sets) /\ Len(pushed) = k + 1 /\ pushed[1] = e
      /\ \A i \in 1 .. k : pushed[i + 1] = kept[i]
  BY <1>1, <1>2
<1>4. RingPush(r, e) = pushed
  BY DEF RingPush, kept
<1> HIDE DEF pushed
<1>5. \A i \in 1 .. k : pushed[i + 1] = r[i]
  BY <1>1, <1>3
<1> QED
  BY <1>1, <1>3, <1>4, <1>5

\* record_success: the ring with its new entry is the history with its new set, and lacks
\* no more of it than before.
LEMMA PushedHistory ==
  ASSUME NEW r \in Seq(Sets), NEW m \in Seq(Sets), NEW e \in Sets, e.at = Len(m) + 1,
         NEW n \in Nat, IsHistory(r, m), LacksAtMost(r, Len(m), n)
  PROVE  /\ IsHistory(RingPush(r, e), Append(m, e))
         /\ LacksAtMost(RingPush(r, e), Len(m) + 1, n)
<1> DEFINE p == RingPush(r, e)
           s == Append(m, e)
<1>1. PICK k \in Nat :
           /\ k <= Len(r) /\ Len(r) <= k + 1 /\ k < HistoryBound
           /\ p \in Seq(Sets) /\ Len(p) = k + 1 /\ p[1] = e
           /\ \A i \in 1 .. k : p[i + 1] = r[i]
  BY PushKeeps DEF IsHistory
<1>2. /\ Len(m) \in Nat /\ Len(s) = Len(m) + 1 /\ s[Len(m) + 1] = e
      /\ \A i \in 1 .. Len(m) : s[i] = m[i]
  OBVIOUS
<1>3. /\ Len(r) \in Nat /\ \A i \in 1 .. Len(r) : r[i].at \in Nat \ {0}
  BY EntriesAreNumbered
<1>4. \A i \in 1 .. Len(r) : r[i].at \in 1 .. Len(m) /\ r[i] = m[r[i].at]
  BY <1>2, <1>3 DEF IsHistory
<1> HIDE DEF p, s
<1>5. ASSUME NEW i \in 1 .. Len(p) PROVE p[i].at <= Len(s) /\ p[i] = s[p[i].at]
  <2>1. CASE i = 1
    BY <1>1, <1>2, <2>1
  <2>2. CASE i # 1
    <3> DEFINE j == i - 1
    <3>1. j \in 1 .. k /\ j \in 1 .. Len(r) /\ p[i] = r[j]
      <4>1. j \in 1 .. k /\ j + 1 = i
        BY <1>1, <1>5, <2>2
      <4> QED
        BY <1>1, <1>3, <4>1
    <3>2. r[j].at \in 1 .. Len(m) /\ r[j] = m[r[j].at]
      BY <1>4, <3>1
    <3> QED
      BY <1>2, <3>1, <3>2
  <2> QED
    BY <2>1, <2>2
<1>6. ASSUME NEW i \in 1 .. Len(p) - 1 PROVE p[i].at > p[i + 1].at
  <2>1. i \in 1 .. k /\ p[i + 1] = r[i] /\ i \in 1 .. Len(r)
    BY <1>1, <1>3, <1>6
  <2>2. CASE i = 1
    BY <1>1, <1>2, <1>4, <2>1, <2>2
  <2>3. CASE i # 1
    <3> DEFINE j == i - 1
    <3>1. j \in 1 .. k /\ j + 1 = i /\ j \in 1 .. Len(r) - 1
      BY <1>1, <1>3, <2>1, <2>3
    <3>2. p[i] = r[j]
      BY <1>1, <3>1
    <3>3. r[j].at > r[j + 1].at
      BY <3>1 DEF IsHistory
    <3> QED
      BY <2>1, <3>1, <3>2, <3>3
  <2> QED
    BY <2>2, <2>3
<1>7. Missing(p, Len(m) + 1) <= n
  <2>1. CASE k = 0
    BY <1>1, <1>2, <2>1 DEF Missing
  <2>2. CASE k # 0
    <3>1. k \in 1 .. k /\ Len(p) = k + 1 /\ p[k + 1] = r[k] /\ Len(r) # 0 /\ r # <<>>
      BY <1>1, <1>3, <2>2
    <3>2. Missing(r, Len(m)) <= n
      BY <3>1 DEF LacksAtMost
    <3>3. r[k].at \in Nat /\ r[Len(r)].at \in Nat
      BY <1>1, <1>3, <3>1
    <3>4. CASE Len(r) = k
      BY <1>2, <3>1, <3>2, <3>3, <3>4 DEF Missing
    <3>5. CASE Len(r) = k + 1
      <4>1. r[k].at > r[Len(r)].at
        BY <1>3, <3>1, <3>5 DEF IsHistory
      <4> QED
        BY <1>2, <3>1, <3>2, <3>3, <3>5, <4>1 DEF Missing
    <3> QED
      BY <1>1, <1>3, <3>4, <3>5
  <2> QED
    BY <2>1, <2>2
<1>8. Len(p) <= HistoryBound
  BY <1>1, FilesAssumption
<1>9. IsHistory(p, s) /\ LacksAtMost(p, Len(m) + 1, n)
  BY <1>5, <1>6, <1>7, <1>8 DEF IsHistory, LacksAtMost
<1> QED
  BY <1>9 DEF p, s

\* The steps that touch neither the sets made nor history.json.
LEMMA HistoryAlone ==
  ASSUME Shape, Entries, HistoryInv,
         UNCHANGED <<made, starts, ring>>, disk'["history"] = disk["history"],
         phase # "down", phase' # "down", faults' = faults \/ faults' = faults + 1,
         HasRing => Owed = 0 \/ Owed' = 1 \/ faults' = faults + 1
  PROVE  HistoryInv'
<1>1. /\ starts \in Nat /\ starts > 0 /\ starts' = starts
      /\ faults \in Nat /\ made' = made /\ ring' = ring
      /\ Owed = 0 \/ Owed = 1
      /\ Owed' = 0 \/ Owed' = 1
  BY DEF HistoryInv, Shape, Owed
<1>2. HasRing' = HasRing
  BY DEF HasRing
<1>3. CASE faults' = faults
  <2>1. Charged' = Charged /\ Charged \in Int
    BY <1>1, <1>3 DEF Charged
  <2>2. Charged <= Charged'
    BY <2>1
  <2>3. ASSUME HasRing' PROVE Charged + Owed <= Charged' + Owed'
    <3>1. Owed = 0 \/ Owed' = 1
      BY <1>1, <1>2, <1>3, <2>3
    <3> QED
      BY <1>1, <2>1, <3>1
  <2> QED
    BY <1>1, <1>3, <2>2, <2>3, HistoryFrame
<1>4. CASE faults' = faults + 1
  <2>1. Charged' = Charged + 1 /\ Charged \in Int /\ faults' \in Nat
    BY <1>1, <1>4 DEF Charged
  <2>2. Charged <= Charged' /\ Charged + Owed <= Charged' + Owed'
    BY <1>1, <2>1
  <2> QED
    BY <1>1, <2>1, <2>2, HistoryFrame
<1> QED
  BY <1>3, <1>4

LEMMA HistoryStep ==
  Shape /\ Shape' /\ Entries /\ Unread /\ HistoryInv /\ [FilesNext]_fileVars => HistoryInv'
<1> SUFFICES ASSUME Shape, Shape', Entries, Unread, HistoryInv, [FilesNext]_fileVars
             PROVE  HistoryInv'
  OBVIOUS
<1>0. /\ starts \in Nat /\ faults \in Nat /\ faults' \in Nat /\ Len(made) \in Nat
      /\ Owed \in {0, 1} /\ Owed' \in {0, 1} /\ "history" \in Kinds
      /\ phase \in {"idle", "load"} => Owed = 0
  BY DEF Shape, Entries, HistoryInv, Owed, Writing, Kinds
<1>1. ASSUME NEW d \in Digests, NEW o \in Origins, RecordSet(d, o) PROVE HistoryInv'
  <2> DEFINE e == [at |-> Len(made) + 1, digest |-> d, origin |-> o]
  <2>1. /\ phase = "idle" /\ Len(made) < MaxSets /\ phase' = "write" /\ todo' = AnchorAndRing
        /\ ring' = RingPush(ring, e) /\ made' = Append(made, e)
        /\ UNCHANGED <<disk, starts, faults>>
    BY <1>1 DEF RecordSet, files, AnchorAndRing
  <2>2. e \in Sets /\ e.at = Len(made) + 1
    BY <1>0, <2>1, FilesAssumption DEF Sets
  <2> HIDE DEF e
  <2>3. starts > 0 /\ Charged \in Nat /\ Charged' = Charged
    BY <1>0, <2>1 DEF HistoryInv, Charged
  <2>4. made' \in Seq(Sets) /\ Len(made') = Len(made) + 1
        /\ \A i \in 1 .. Len(made) : made'[i] = made[i]
    BY <2>1, <2>2 DEF Entries
  <2>5. IsHistory(ring', made') /\ LacksAtMost(ring', Len(made'), Charged')
    BY <2>1, <2>2, <2>3, <2>4, PushedHistory DEF HistoryInv, Entries
  <2>6. ASSUME HasRing
        PROVE  /\ IsHistory(DiskRing, made')
               /\ LacksAtMost(DiskRing, Len(made'), Charged + 1)
               /\ LacksAtMost(DiskRing, DiskRing[1].at, Charged)
    <3> DEFINE r == DiskRing
    <3>1. /\ r \in Seq(Sets) /\ IsHistory(r, made) /\ LacksAtMost(r, Len(made), Charged + Owed)
          /\ LacksAtMost(r, r[1].at, Charged)
      BY <2>6 DEF HistoryInv, Entries, HasRing, DiskRing
    <3> HIDE DEF r
    <3>2. IsHistory(r, made')
      <4>1. \A i \in 1 .. Len(r) : r[i].at \in 1 .. Len(made) /\ r[i] = made[r[i].at]
        BY <1>0, <3>1, EntriesAreNumbered DEF IsHistory
      <4>2. \A i \in 1 .. Len(r) : r[i].at <= Len(made') /\ r[i] = made'[r[i].at]
        BY <1>0, <2>4, <4>1
      <4> QED
        BY <3>1, <4>2 DEF IsHistory
    <3>3. LacksAtMost(r, Len(made'), Charged + 1)
      <4>1. CASE r = <<>>
        BY <4>1 DEF LacksAtMost
      <4>2. CASE r # <<>>
        <5>1. Len(r) \in Int /\ r[Len(r)].at \in Int
          BY <3>1, <4>2, EntriesAreNumbered
        <5>2. Missing(r, Len(made)) <= Charged
          BY <1>0, <2>1, <2>3, <3>1, <4>2 DEF LacksAtMost
        <5> QED
          BY <1>0, <2>3, <2>4, <5>1, <5>2 DEF Missing, LacksAtMost
      <4> QED
        BY <4>1, <4>2
    <3> QED
      BY <3>1, <3>2, <3>3 DEF r
  <2>7. Owed' = 1
    BY <2>1 DEF Owed, Writing
  <2>8. HasRing' = HasRing /\ DiskRing' = DiskRing
    BY <2>1 DEF HasRing, DiskRing
  <2> QED
    BY <1>0, <2>1, <2>3, <2>5, <2>6, <2>7, <2>8 DEF HistoryInv
<1>2. ASSUME UNCHANGED <<made, starts, ring, faults, disk>>, phase = "idle", phase' = "write"
      PROVE  HistoryInv'
  BY <1>0, <1>2, HistoryAlone
<1>3. CASE RewriteCurrent \/ AddFavorite \/ RemoveFavorite
  <2>1. /\ UNCHANGED <<made, starts, ring, faults, disk>> /\ phase = "idle" /\ phase' = "write"
    BY <1>3 DEF RewriteCurrent, AddFavorite, RemoveFavorite, files, memory, counts
  <2> QED
    BY <1>0, <1>2, <2>1
<1>4. ASSUME NEW p \in BOOLEAN, SetPaused(p) PROVE HistoryInv'
  <2>1. /\ UNCHANGED <<made, starts, ring, faults, disk>> /\ phase = "idle" /\ phase' = "write"
    BY <1>4 DEF SetPaused, files, counts
  <2> QED
    BY <1>0, <1>2, <2>1
\* A file that is not written because a newer build wrote it holds no ring.
<1>5. CASE SkipReadOnly
  <2>1. /\ UNCHANGED <<made, starts, ring, faults, disk>>
        /\ phase = "write" /\ phase' \in {"idle", "write"} /\ todo' = Tail(todo)
        /\ phase' = IF Tail(todo) = <<>> THEN "idle" ELSE "write"
        /\ todo \in WritePlans /\ disk[Head(todo)].is = "newer"
    BY <1>5, Plans
       DEF SkipReadOnly, WriteEnds, files, memory, counts, Shape, Writing, WritePlans, Unread, Kinds
  <2>2. HasRing => Owed = 0 \/ Owed' = 1
    BY <2>1, Plans, PlansDiffer DEF Owed, HasRing, Writing, WritePlans
  <2> QED
    BY <2>1, <2>2, HistoryAlone
<1>6. CASE Stage
  <2>1. /\ UNCHANGED <<made, starts, ring, faults, disk, todo>>
        /\ phase = "write" /\ phase' = "commit"
    BY <1>6 DEF Stage, memory, counts
  <2>2. Owed' = Owed
    BY <2>1 DEF Owed, Writing
  <2> QED
    BY <1>0, <2>1, <2>2, HistoryAlone
<1>7. CASE StageFails \/ CommitFails
  <2>1. /\ UNCHANGED <<made, starts, ring, disk>> /\ faults' = faults + 1
        /\ phase # "down" /\ phase' # "down"
    BY <1>7 DEF StageFails, CommitFails, WriteEnds, memory
  <2> QED
    BY <2>1, HistoryAlone
<1>8. CASE Commit
  <2>1. /\ UNCHANGED <<made, starts, ring, faults>> /\ phase = "commit" /\ todo \in WritePlans
        /\ todo' = Tail(todo) /\ phase' = IF Tail(todo) = <<>> THEN "idle" ELSE "write"
    BY <1>8 DEF Commit, WriteEnds, counts, Shape, Writing
  <2>2. CASE Head(todo) # "history"
    <3>1. disk'["history"] = disk["history"]
      BY <1>0, <1>8, <2>2, Committed
    <3>2. todo # RingOnly
      BY <2>2, Plans
    <3>3. Owed = 0 \/ Owed' = 1
      BY <2>1, <3>2, Plans, PlansDiffer DEF Owed, Writing, WritePlans
    <3> QED
      BY <2>1, <3>1, <3>3, HistoryAlone
  <2>3. CASE Head(todo) = "history"
    <3>1. HasRing' /\ DiskRing' = ring
      BY <1>8, <2>3, Committed, BodyFacts DEF HasRing, DiskRing, Entries
    <3>2. todo = RingOnly /\ phase' = "idle" /\ Owed' = 0
      BY <2>1, <2>3, Plans DEF WritePlans, Owed, Writing
    <3>3. Charged' = Charged /\ Charged \in Int
      BY <1>0, <2>1 DEF Charged
    <3>4. Charged' + Owed' = Charged
      BY <3>2, <3>3
    <3>5. /\ ring \in Seq(Sets) /\ IsHistory(ring, made) /\ LacksAtMost(ring, Len(made), Charged)
      BY DEF HistoryInv, Entries
    <3>6. LacksAtMost(ring, ring[1].at, Charged)
      <4>1. CASE ring = <<>>
        BY <4>1 DEF LacksAtMost
      <4>2. CASE ring # <<>>
        <5>1. ring[1].at \in Int /\ ring[1].at <= Len(made) /\ Charged <= Charged
          BY <1>0, <3>3, <3>5, <4>2, EntriesAreNumbered DEF IsHistory
        <5> QED
          BY <1>0, <3>3, <3>5, <5>1, LacksLess
      <4> QED
        BY <4>1, <4>2
    <3>7. starts' \in Nat /\ starts' > 0
      BY <1>0, <2>1 DEF HistoryInv
    <3> QED
      BY <2>1, <3>1, <3>3, <3>4, <3>5, <3>6, <3>7 DEF HistoryInv
  <2> QED
    BY <2>2, <2>3
\* What the memory has over the disk dies with it: the set still to be written, which the
\* next start is charged for.
<1>9. CASE Die
  <2>1. /\ UNCHANGED <<made, starts, faults, disk>> /\ ring' = <<>> /\ phase' = "down"
    BY <1>9 DEF Die, files, counts
  <2>2. Owed' = 1 /\ Charged' = Charged /\ Charged \in Int
    BY <1>0, <2>1 DEF Owed, Charged
  <2>3. Charged <= Charged' /\ Charged + Owed <= Charged' + Owed'
    BY <1>0, <2>2
  <2> QED
    BY <1>0, <2>1, <2>3, HistoryFrame
<1>10. ASSUME NEW k \in Kinds, NEW what \in {"absent", "corrupt", "newer"}, ByHand(k, what)
       PROVE  HistoryInv'
  <2>1. /\ UNCHANGED <<made, starts, faults, ring, phase, todo>> /\ phase = "down"
        /\ disk' = [disk EXCEPT ![k] = IF what = "absent" THEN Absent ELSE Alien(what, hands')]
    BY <1>10 DEF ByHand, memory
  <2>2. HasRing' => disk'["history"] = disk["history"]
    BY <1>0, <2>1 DEF HasRing, Absent, Alien, Shape
  <2>3. Owed' = Owed /\ Charged' = Charged /\ Charged \in Int
    BY <1>0, <2>1 DEF Owed, Charged
  <2>4. Charged <= Charged' /\ Charged + Owed <= Charged' + Owed'
    BY <1>0, <2>3
  <2> QED
    BY <1>0, <2>1, <2>2, <2>4, HistoryFrame
<1>11. CASE FilesStart
  <2>1. /\ UNCHANGED <<made, faults, ring, disk>> /\ starts' = starts + 1
        /\ phase = "down" /\ phase' = "load"
    BY <1>11 DEF FilesStart, files, memory
  <2>2. /\ Owed = 1 /\ Owed' = 0 /\ Charged' = Charged + 1 /\ Charged \in Int
        /\ starts' \in Nat /\ starts' > 0
    BY <1>0, <2>1 DEF Owed, Charged, Writing
  <2>3. Charged <= Charged' /\ Charged + Owed <= Charged' + Owed'
    BY <2>2
  <2> QED
    BY <1>0, <2>1, <2>2, <2>3, HistoryFrame
<1>12. ASSUME NEW k \in Kinds, LoadAbsent(k) \/ LoadNewer(k) PROVE HistoryInv'
  <2>1. /\ UNCHANGED <<made, starts, ring, faults, disk>> /\ phase = "load" /\ phase' = "load"
    BY <1>12 DEF LoadAbsent, LoadNewer, Loading, files, memory, counts
  <2> QED
    BY <1>0, <2>1, HistoryAlone
<1>13. ASSUME NEW k \in Kinds, LoadRead(k) PROVE HistoryInv'
  <2>1. /\ UNCHANGED <<made, starts, faults, disk>> /\ phase = "load" /\ phase' = "load"
        /\ ring' = IF k = "history" THEN disk[k].body ELSE ring
        /\ disk[k].is = "read"
    BY <1>13 DEF LoadRead, Loading, Is, files, counts
  <2>2. CASE k # "history"
    BY <1>0, <2>1, <2>2, HistoryAlone
  <2>3. CASE k = "history"
    <3>1. HasRing /\ HasRing' /\ ring' = DiskRing /\ DiskRing' = DiskRing
      BY <2>1, <2>3 DEF HasRing, DiskRing
    <3>2. Owed = 0 /\ Owed' = 0 /\ Charged' = Charged /\ Charged \in Int /\ Charged + Owed = Charged
      BY <1>0, <2>1 DEF Owed, Writing, Charged
    <3>3. starts' \in Nat /\ starts' > 0
      BY <1>0, <2>1 DEF HistoryInv
    <3> QED
      BY <2>1, <3>1, <3>2, <3>3 DEF HistoryInv
  <2> QED
    BY <2>2, <2>3
<1>14. ASSUME NEW k \in Kinds, LoadCorrupt(k) PROVE HistoryInv'
  <2>1. /\ UNCHANGED <<made, starts, ring>> /\ phase = "load" /\ phase' = "load"
        /\ faults' = faults \/ faults' = faults + 1
        /\ disk' = [disk EXCEPT ![k] = Absent] \/ disk' = disk
    BY <1>14 DEF LoadCorrupt, Loading
  <2>2. HasRing' => disk'["history"] = disk["history"]
    BY <1>0, <2>1 DEF HasRing, Absent, Shape
  <2>3. Owed = 0 /\ Owed' = 0
    BY <2>1 DEF Owed, Writing
  <2>4. Charged <= Charged' /\ Charged + Owed <= Charged' + Owed'
    <3>1. CASE faults' = faults
      <4>1. Charged' = Charged /\ Charged \in Int
        BY <1>0, <2>1, <3>1 DEF Charged
      <4> QED
        BY <2>3, <4>1
    <3>2. CASE faults' = faults + 1
      <4>1. Charged' = Charged + 1 /\ Charged \in Int
        BY <1>0, <2>1, <3>2 DEF Charged
      <4> QED
        BY <2>3, <4>1
    <3> QED
      BY <2>1, <3>1, <3>2
  <2>5. starts' \in Nat /\ starts' > 0
    BY <1>0, <2>1 DEF HistoryInv
  <2> QED
    BY <1>0, <2>1, <2>2, <2>4, <2>5, HistoryFrame
<1>15. CASE RebuildCurrent
  <2>1. /\ UNCHANGED <<made, starts, ring, faults, disk>> /\ phase = "load" /\ phase' = "idle"
    BY <1>15 DEF RebuildCurrent, files, counts
  <2> QED
    BY <1>0, <2>1, HistoryAlone
<1>16. CASE UNCHANGED fileVars
  BY <1>16 DEF fileVars, HistoryInv, Charged, Owed, Writing, HasRing, DiskRing
<1> QED
  BY <1>1, <1>3, <1>4, <1>5, <1>6, <1>7, <1>8, <1>9, <1>10, <1>11, <1>12, <1>13, <1>14, <1>15,
     <1>16 DEF FilesNext

\* history.json is the sets in the order they were made, newest first, and each start and
\* each failed write has cost it one set at most, the first start none, for any bound of
\* the ring (state.rs record_success, save_history, load_history; HistoryRing::push).
THEOREM HistoryIsWhatHappened == FilesSpec => []RingIsTheHistory
<1>1. FilesInit => HistoryInv
  BY FilesAssumption DEF FilesInit, HistoryInv, IsHistory, LacksAtMost, HasRing, Absent, Kinds
<1>2. FilesInv /\ FilesInv' /\ HistoryInv /\ [FilesNext]_fileVars => HistoryInv'
  BY HistoryStep DEF FilesInv
<1>3. FilesSpec => []HistoryInv
  BY FilesInvHolds, <1>1, <1>2, PTL DEF FilesSpec
<1>4. HistoryInv => RingIsTheHistory
  BY DEF HistoryInv, RingIsTheHistory, IsHistory, LacksAtMost, Missing, HasRing, DiskRing, Charged
<1> QED
  BY <1>3, <1>4, PTL
=============================================================================
