-------------------------- MODULE RotationService ---------------------------
(***************************************************************************)
(* What a client of whirld is promised about rotations, with no thread, no *)
(* worker and no lock in sight (docs/architecture.md 1.8 and the comments  *)
(* of start_rotation, record_success and record_failure): one rotation at  *)
(* a time, each under a slot of its own, each ending in one outcome, and   *)
(* the anchor and the history ring moving together on a success and        *)
(* standing still on a failure.                                            *)
(***************************************************************************)
EXTENDS Naturals, Sequences

CONSTANTS Images,          \* the digests a wallpaper may have
          NoImage,         \* no anchor yet
          HistoryEntries   \* the bound of the history ring

NoRun == 0   \* `running: None`: slots count from 1

VARIABLES slot,       \* the next slot to claim
          running,    \* the rotation in flight, or NoRun
          sets,       \* how many rotations succeeded
          anchor,     \* the digest of the current entry
          ring        \* the digests of the history, newest first

service == <<slot, running, sets, anchor, ring>>

\* The ring with one more entry in front, the oldest dropped at the bound.
PushTo(h, i) ==
  SubSeq(<<i>> \o h, 1, IF Len(h) < HistoryEntries THEN Len(h) + 1 ELSE HistoryEntries)

Init ==
  /\ slot = 1 /\ running = NoRun /\ sets = 0
  /\ anchor = NoImage /\ ring = <<>>

Start ==
  /\ running = NoRun
  /\ running' = slot /\ slot' = slot + 1
  /\ UNCHANGED <<sets, anchor, ring>>

Succeed ==
  /\ running # NoRun
  /\ running' = NoRun /\ sets' = sets + 1
  /\ anchor' \in Images /\ ring' = PushTo(ring, anchor')
  /\ UNCHANGED slot

Fail ==
  /\ running # NoRun
  /\ running' = NoRun
  /\ UNCHANGED <<slot, sets, anchor, ring>>

\* `config check` names its worker with a slot and is no rotation.
Check ==
  /\ slot' = slot + 1
  /\ UNCHANGED <<running, sets, anchor, ring>>

Next == Start \/ Succeed \/ Fail \/ Check

Spec == Init /\ [][Next]_service
=============================================================================
