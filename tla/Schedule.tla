------------------------------ MODULE Schedule ------------------------------
(***************************************************************************)
(* The daemon's clock as pure operators: crates/whirld/src/schedule.rs.    *)
(*                                                                         *)
(* An observation is a record [wall, mono]: one reading of the wall clock  *)
(* and of the monotonic clock, in seconds, taken at the same moment.       *)
(* A deadline is a wall-clock second.                                      *)
(***************************************************************************)
EXTENDS Integers

\* `interval_seconds.max(1)`: the floor that keeps a zero interval off the grid.
StepOf(interval) == IF interval < 1 THEN 1 ELSE interval

\* Mutant: the loop tests `value < now`, so a deadline that equals now stands.
OnGridAfterStale(next, now, interval) ==
  IF next >= now
  THEN next
  ELSE next + ((now - next - 1) \div StepOf(interval) + 1) * StepOf(interval)

\* Mutant: `now + interval`, which forgets the grid of the original deadline.
OnGridAfterReanchored(next, now, interval) ==
  IF next > now THEN next ELSE now + StepOf(interval)

\* `while value <= now { value += interval }`, in closed form: the first point
\* of the grid through `next` that lies after `now`.
OnGridAfter(next, now, interval) ==
  IF next > now
  THEN next
  ELSE next + ((now - next) \div StepOf(interval) + 1) * StepOf(interval)

\* Mutant: the deadline is re-armed at now, not an interval later.
RearmedFromNow(now, interval) == now

\* `resume` and a clock jump re-arm from now and leave the old grid.
RearmedFrom(now, interval) == now + StepOf(interval)

\* How far the wall clock ran away from the monotonic one between two readings.
\* The monotonic difference saturates at zero.
Drift(previous, current) ==
  LET elapsed == IF current.mono >= previous.mono
                 THEN current.mono - previous.mono ELSE 0
  IN  (current.wall - previous.wall) - elapsed

JumpBeyond(drift, limit) == drift > limit \/ -drift > limit

\* Mutant: only a forward drift is compared, the jump that stalls is missed.
TickForwardOnly(previous, current, next, interval) ==
  IF current.wall >= next
  THEN [kind |-> "due", next |-> OnGridAfter(next, current.wall, interval)]
  ELSE IF Drift(previous, current) > 2 * interval
  THEN [kind |-> "jump", next |-> RearmedFrom(current.wall, interval)]
  ELSE [kind |-> "wait", next |-> next]

\* Two consecutive observations against the deadline. A passed deadline wins
\* over a drift, so a machine that slept is due and not a jump. The length of
\* the wait is left out: the scheduler's loop sleeps one slice whatever it is.
Tick(previous, current, next, interval) ==
  IF current.wall >= next
  THEN [kind |-> "due", next |-> OnGridAfter(next, current.wall, interval)]
  ELSE IF JumpBeyond(Drift(previous, current), 2 * interval)
  THEN [kind |-> "jump", next |-> RearmedFrom(current.wall, interval)]
  ELSE [kind |-> "wait", next |-> next]
=============================================================================
