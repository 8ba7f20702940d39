\* The clock goes past three slots, back by more than two intervals, and the
\* daemon dies once.
SPECIFICATION FairSpec
CONSTANTS
  Intervals = {1, 2}
  NoDeadline = NoDeadline
  MaxWall = 5
  MaxBack = 5
  MaxBackSteps = 1
  MaxRestarts = 1
INVARIANTS TypeOK NoReplay StallBounded GridMatchesLoop
PROPERTY DueIsServed
