----------------------------- MODULE StateFiles -----------------------------
(***************************************************************************)
(* current.json, history.json and favorites.json (whirld/statefile.rs,     *)
(* whirld/state.rs, whirl-core/state.rs): how a change of the daemon's     *)
(* state reaches the disk, what a start makes of what it finds, and what   *)
(* is left when the daemon dies or a write fails in between.               *)
(*                                                                         *)
(* A set is its number, a digest and an origin. Timestamps, `via`, the     *)
(* facts about the cache and the JSON text are left out; what the files do *)
(* not carry (an anchor's origin) is lost on the way, as it is in the      *)
(* code, and what the code writes and cannot read again does not parse     *)
(* (Foreign).                                                              *)
(***************************************************************************)
EXTENDS Naturals, Sequences, FiniteSets

CONSTANTS Digests, Origins, None,
          Foreign,        \* the digests whose path or key is not all ASCII
          HistoryBound,   \* state.history_entries
          MaxSets, MaxStarts, MaxFaults, MaxHands

ASSUME FilesAssumption ==
  /\ HistoryBound \in Nat \ {0} /\ None \notin Origins /\ Foreign \subseteq Digests
  /\ MaxSets \in Nat /\ MaxStarts \in Nat /\ MaxFaults \in Nat /\ MaxHands \in Nat

VARIABLES
  disk,        \* the file under each name
  temps,       \* how many .tmp- files there are beside it
  aside,       \* the .corrupt- files beside it, by the hand that damaged them, or 0
  anchor, ring, pins, paused,             \* State, as far as the files hold it
  readOnly, degraded, historyLost, verified,
  phase,       \* "down", "load", "idle", "write" or "commit"
  todo,        \* the files still to load or to write
  made, starts, faults, hands, byHand,    \* bounds, and what observers remember
  stuck        \* the kinds whose quarantine failed

memory == <<anchor, ring, pins, paused, readOnly, degraded, historyLost, verified>>
files == <<disk, temps, aside, stuck>>
counts == <<made, starts, faults, hands, byHand>>
fileVars == <<disk, temps, aside, stuck, anchor, ring, pins, paused, readOnly, degraded,
              historyLost, verified, phase, todo, made, starts, faults, hands, byHand>>

Kinds == {"current", "history", "favorites"}
Sets == [at : 1 .. MaxSets, digest : Digests, origin : Origins]
Anchors == [at : 1 .. MaxSets, digest : Digests, origin : Origins \cup {None}]
Pins == [digest : Digests, origin : Origins]
NoAnchor == [at |-> 0]

Absent == [is |-> "absent"]
Read(body) == [is |-> "read", body |-> body]
Alien(what, hand) == [is |-> what, hand |-> hand]

\* CurrentFile, HistoryFile, FavoritesFile: what encode writes and parse gives back. An
\* anchor's origin is not in current.json.
CurrentBody ==
  [paused |-> paused,
   anchor |-> IF anchor = NoAnchor THEN NoAnchor ELSE [anchor EXCEPT !.origin = None]]
Encoded(k) == CASE k = "current"   -> CurrentBody
                [] k = "history"   -> ring
                [] k = "favorites" -> pins

\* json::parse of it: string() of whirl-core/state.rs copies a character above ASCII as it
\* is, and the reader checks each byte of such a character as a string of its own ("the
\* string is not valid UTF-8"), so one entry with one of them loses its file.
DigestsOf(k, body) ==
  CASE k = "current"   -> IF body.anchor = NoAnchor THEN {} ELSE {body.anchor.digest}
    [] k = "history"   -> {body[i].digest : i \in DOMAIN body}
    [] k = "favorites" -> {x.digest : x \in body}
Parses(k, body) == DigestsOf(k, body) \cap Foreign = {}
Is(k) == IF disk[k].is = "read" /\ ~Parses(k, disk[k].body) THEN "corrupt" ELSE disk[k].is

\* HistoryRing::push.
RingPush(r, e) == <<e>> \o (IF Len(r) < HistoryBound THEN r ELSE SubSeq(r, 1, HistoryBound - 1))

FilesInit ==
  /\ disk = [k \in Kinds |-> Absent] /\ temps = [k \in Kinds |-> 0]
  /\ aside = [k \in Kinds |-> {}] /\ stuck = {}
  /\ anchor = NoAnchor /\ ring = <<>> /\ pins = {} /\ paused = FALSE
  /\ readOnly = {} /\ degraded = FALSE /\ historyLost = FALSE /\ verified = FALSE
  /\ phase = "down" /\ todo = <<>>
  /\ made = <<>> /\ starts = 0 /\ faults = 0 /\ hands = 0
  /\ byHand = [k \in Kinds |-> 0]

-----------------------------------------------------------------------------
\* The changes of state. Each holds the state lock until its files are written.

\* record_success: the anchor, the ring, then current.json before history.json.

\* Mutant: history.json is written before current.json.
RecordSetRingFirst(d, o) ==
  /\ phase = "idle" /\ Len(made) < MaxSets
  /\ LET e == [at |-> Len(made) + 1, digest |-> d, origin |-> o]
     IN  anchor' = e /\ ring' = RingPush(ring, e) /\ made' = Append(made, e)
  /\ verified' = TRUE
  /\ phase' = "write" /\ todo' = <<"history", "current">>
  /\ UNCHANGED <<files, pins, paused, readOnly, degraded, historyLost, starts, faults,
                 hands, byHand>>

RecordSet(d, o) ==
  /\ phase = "idle" /\ Len(made) < MaxSets
  /\ LET e == [at |-> Len(made) + 1, digest |-> d, origin |-> o]
     IN  anchor' = e /\ ring' = RingPush(ring, e) /\ made' = Append(made, e)
  /\ verified' = TRUE
  /\ phase' = "write" /\ todo' = <<"current", "history">>
  /\ UNCHANGED <<files, pins, paused, readOnly, degraded, historyLost, starts, faults,
                 hands, byHand>>

\* record_failure, spend_slot, record_clock_jump: current.json and nothing else.
RewriteCurrent ==
  /\ phase = "idle"
  /\ phase' = "write" /\ todo' = <<"current">>
  /\ UNCHANGED <<files, memory, counts>>

\* set_paused.
SetPaused(p) ==
  /\ phase = "idle" /\ paused' = p
  /\ phase' = "write" /\ todo' = <<"current">>
  /\ UNCHANGED <<files, anchor, ring, pins, readOnly, degraded, historyLost, verified, counts>>

\* State::resolve and current_resolved: a pin is named by an origin the state knows.
Known == {[digest |-> e.digest, origin |-> e.origin] :
            e \in {ring[i] : i \in 1 .. Len(ring)} \cup
                  (IF anchor # NoAnchor /\ anchor.origin # None THEN {anchor} ELSE {})}

\* dispatch's Favorite and Unfavorite, refused while the pins could not be read.
AddFavorite ==
  /\ phase = "idle" /\ ~degraded
  /\ \E x \in Known : (\A y \in pins : y.origin # x.origin) /\ pins' = pins \cup {x}
  /\ phase' = "write" /\ todo' = <<"favorites">>
  /\ UNCHANGED <<files, anchor, ring, paused, readOnly, degraded, historyLost, verified, counts>>

RemoveFavorite ==
  /\ phase = "idle" /\ ~degraded
  /\ \E x \in pins : pins' = pins \ {x}
  /\ phase' = "write" /\ todo' = <<"favorites">>
  /\ UNCHANGED <<files, anchor, ring, paused, readOnly, degraded, historyLost, verified, counts>>

-----------------------------------------------------------------------------
\* Store::write: stage (create, write, fsync), then commit (rename).

WriteEnds == /\ todo' = Tail(todo)
             /\ phase' = IF Tail(todo) = <<>> THEN "idle" ELSE "write"

\* save_current, save_history, save_favorites leave a file of a newer schema alone.
SkipReadOnly ==
  /\ phase = "write" /\ Head(todo) \in readOnly /\ WriteEnds
  /\ UNCHANGED <<files, memory, counts>>

\* Mutant: a file of a newer schema is written over.
StageAnyFile ==
  /\ phase = "write"
  /\ temps' = [temps EXCEPT ![Head(todo)] = @ + 1] /\ phase' = "commit"
  /\ UNCHANGED <<disk, aside, stuck, memory, todo, counts>>

Stage ==
  /\ phase = "write" /\ Head(todo) \notin readOnly
  /\ temps' = [temps EXCEPT ![Head(todo)] = @ + 1] /\ phase' = "commit"
  /\ UNCHANGED <<disk, aside, stuck, memory, todo, counts>>

\* The write or the fsync fails: the error is logged, and nothing removes the temp file
\* the create has left. (When the create fails there is none.)
StageFails ==
  /\ phase = "write" /\ Head(todo) \notin readOnly
  /\ faults < MaxFaults /\ faults' = faults + 1
  /\ \E left \in {0, 1} : temps' = [temps EXCEPT ![Head(todo)] = @ + left]
  /\ WriteEnds
  /\ UNCHANGED <<disk, aside, stuck, memory, made, starts, hands, byHand>>

Commit ==
  /\ phase = "commit"
  /\ LET k == Head(todo)
     IN  /\ disk' = [disk EXCEPT ![k] = Read(Encoded(k))]
         /\ temps' = [temps EXCEPT ![k] = @ - 1]
         /\ historyLost' = (historyLost /\ k # "history")
  /\ WriteEnds
  /\ UNCHANGED <<aside, stuck, anchor, ring, pins, paused, readOnly, degraded, verified, counts>>

\* The rename fails: Staged is dropped and takes its temp file with it.
CommitFails ==
  /\ phase = "commit" /\ faults < MaxFaults /\ faults' = faults + 1
  /\ temps' = [temps EXCEPT ![Head(todo)] = @ - 1]
  /\ WriteEnds
  /\ UNCHANGED <<disk, aside, stuck, memory, made, starts, hands, byHand>>

-----------------------------------------------------------------------------
\* Death, what happens to the files meanwhile, and the next start.

\* The memory goes with the process: State::new is what the next one starts from.
Die ==
  /\ phase # "down" /\ phase' = "down" /\ todo' = <<>>
  /\ anchor' = NoAnchor /\ ring' = <<>> /\ pins' = {} /\ paused' = FALSE
  /\ readOnly' = {} /\ degraded' = FALSE /\ historyLost' = FALSE /\ verified' = FALSE
  /\ UNCHANGED <<files, counts>>

\* Somebody damages a file, or runs a newer whirl that rewrites it, or deletes it.
ByHand(k, what) ==
  /\ phase = "down" /\ hands < MaxHands /\ hands' = hands + 1
  /\ disk' = [disk EXCEPT ![k] = IF what = "absent" THEN Absent ELSE Alien(what, hands')]
  /\ byHand' = [byHand EXCEPT ![k] = IF what = "absent" THEN 0 ELSE hands']
  /\ stuck' = stuck \ {k}
  /\ UNCHANGED <<temps, aside, memory, phase, todo, made, starts, faults>>

\* Daemon::load: the three files in this order.
FilesStart ==
  /\ phase = "down" /\ starts < MaxStarts /\ starts' = starts + 1
  /\ phase' = "load" /\ todo' = <<"current", "history", "favorites">>
  /\ UNCHANGED <<files, memory, made, faults, hands, byHand>>

Loading(k, is) == phase = "load" /\ todo # <<>> /\ Head(todo) = k /\ Is(k) = is
Damage(k) == IF disk[k].is = "read" THEN 0 ELSE disk[k].hand

LoadAbsent(k) ==
  /\ Loading(k, "absent") /\ todo' = Tail(todo)
  /\ UNCHANGED <<files, memory, phase, counts>>

\* Mutant: the entries are pushed in the order of the file, newest first.
LoadReadForward(k) ==
  /\ Loading(k, "read") /\ todo' = Tail(todo)
  /\ LET body == disk[k].body
     IN  /\ anchor' = IF k = "current" THEN body.anchor ELSE anchor
         /\ paused' = IF k = "current" THEN body.paused ELSE paused
         /\ verified' = (verified \/ (k = "current" /\ body.anchor # NoAnchor))
         /\ ring' = IF k = "history" THEN [i \in DOMAIN body |-> body[Len(body) + 1 - i]] ELSE ring
         /\ pins' = IF k = "favorites" THEN body ELSE pins
  /\ UNCHANGED <<files, phase, readOnly, degraded, historyLost, counts>>

LoadRead(k) ==
  /\ Loading(k, "read") /\ todo' = Tail(todo)
  /\ LET body == disk[k].body
     IN  /\ anchor' = IF k = "current" THEN body.anchor ELSE anchor
         /\ paused' = IF k = "current" THEN body.paused ELSE paused
         /\ verified' = (verified \/ (k = "current" /\ body.anchor # NoAnchor))
         /\ ring' = IF k = "history" THEN body ELSE ring
         /\ pins' = IF k = "favorites" THEN body ELSE pins
  /\ UNCHANGED <<files, phase, readOnly, degraded, historyLost, counts>>

\* A schema above this build's: read-only, as it is.
LoadNewer(k) ==
  /\ Loading(k, "newer") /\ todo' = Tail(todo) /\ readOnly' = readOnly \cup {k}
  /\ UNCHANGED <<files, anchor, ring, pins, paused, degraded, historyLost, verified, phase, counts>>

\* quarantine: the file is renamed, and older ones of its name are removed where the
\* directory can be listed. A quarantine that fails leaves it in place.
LoadCorrupt(k) ==
  /\ Loading(k, "corrupt") /\ todo' = Tail(todo)
  /\ degraded' = (degraded \/ k = "favorites")
  /\ historyLost' = (historyLost \/ k = "history")
  /\ \/ /\ disk' = [disk EXCEPT ![k] = Absent]
        /\ \E kept \in SUBSET aside[k] : aside' = [aside EXCEPT ![k] = kept \cup {Damage(k)}]
        /\ stuck' = stuck \ {k}
     \/ /\ faults < MaxFaults /\ stuck' = stuck \cup {k} /\ UNCHANGED <<disk, aside>>
  /\ faults' = IF k \in stuck' THEN faults + 1 ELSE faults
  /\ UNCHANGED <<temps, anchor, ring, pins, paused, readOnly, verified, phase, made, starts,
                 hands, byHand>>

\* rebuild_current: the origin comes from the newest entry when it names the same
\* digest, and without an anchor the newest entry is it.
RebuildCurrent ==
  /\ phase = "load" /\ todo = <<>> /\ phase' = "idle"
  /\ anchor' = IF ring = <<>> THEN anchor
               ELSE IF anchor = NoAnchor THEN Head(ring)
               ELSE IF anchor.digest = Head(ring).digest
                    THEN [anchor EXCEPT !.origin = Head(ring).origin]
               ELSE anchor
  /\ verified' = (verified /\ anchor # NoAnchor)
  /\ UNCHANGED <<files, ring, pins, paused, readOnly, degraded, historyLost, todo, counts>>

-----------------------------------------------------------------------------
FilesNext ==
  \/ \E d \in Digests, o \in Origins : RecordSet(d, o)
  \/ RewriteCurrent \/ AddFavorite \/ RemoveFavorite
  \/ \E p \in BOOLEAN : SetPaused(p)
  \/ SkipReadOnly \/ Stage \/ StageFails \/ Commit \/ CommitFails
  \/ Die \/ FilesStart \/ RebuildCurrent
  \/ \E k \in Kinds :
       \/ \E what \in {"absent", "corrupt", "newer"} : ByHand(k, what)
       \/ LoadAbsent(k) \/ LoadRead(k) \/ LoadNewer(k) \/ LoadCorrupt(k)

FilesSpec == FilesInit /\ [][FilesNext]_fileVars

-----------------------------------------------------------------------------
\* current.json is written before history.json, so whatever dies in between, the anchor
\* a restart reads is never older than the newest entry of the ring it reads: only a
\* write that failed can leave it behind.
AnchorNotBehindRing ==
  \/ faults > 0
  \/ disk["current"].is # "read" \/ disk["history"].is # "read" \/ disk["history"].body = <<>>
  \/ disk["current"].body.anchor.at >= Head(disk["history"].body).at

\* history.json is the sets in the order they were made, newest first, and each death
\* and each failed write costs it at most one of them.
RingIsTheHistory ==
  disk["history"].is = "read" =>
    LET r == disk["history"].body
    IN  /\ \A i \in 1 .. Len(r) : r[i] = made[r[i].at]
        /\ \A i \in 1 .. Len(r) - 1 : r[i].at > r[i + 1].at
        /\ r # <<>> => r[1].at - r[Len(r)].at - (Len(r) - 1) <= starts + faults - 1

\* What this build could not read, it keeps: a file of a newer schema stays as it is, and
\* a favorites file that does not parse stays in place or beside it until a newer one
\* takes its place. (history.json and current.json are rewritten, so one of theirs is
\* kept only where its quarantine succeeded.)
UnreadFilesKept ==
  \A k \in Kinds : byHand[k] # 0 =>
    \/ disk[k].is \in {"corrupt", "newer"} /\ disk[k].hand = byHand[k]
    \/ byHand[k] \in aside[k] \/ 0 \in aside[k]
    \/ k # "favorites" /\ k \in stuck

\* "All three files are JSON, UTF-8": where no hand touched them, a start reads what this
\* build wrote, and the history and the pins are there.
WrittenIsRead == hands = 0 => ~historyLost /\ ~degraded
=============================================================================
